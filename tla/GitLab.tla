------------------------------- MODULE GitLab -------------------------------
(***************************************************************************)
(* GitLab discovery (gitlab_gateway.py): the checks on what the service    *)
(* says about its pages, as operators.  Ids stand for credentials and      *)
(* projects; NoPage is a missing next_page.                                *)
(***************************************************************************)
EXTENDS Integers, Sequences, FiniteSets

CONSTANT CredentialLimit    \* credentials per page

ASSUME GitLabAssumption == CredentialLimit \in Nat \ {0}

NoPage == 0

(* _validate_credential_page, for a page of `count' credentials.           *)
CredentialPageValid(offset, count, total) ==
    /\ offset + count <= total
    /\ offset + count < total => count >= CredentialLimit

(* _select_credential: the one that is named, or the only one.             *)
Selectable(credentials, id) ==
    {x \in credentials : x = id \/ (id = "none" /\ credentials = {x})}

(* No id of a page may have been seen on it or on an earlier page.         *)
Repeated(seen, ids) == seen \cap ids # {}

NextPageTrusted(pages, next) == \A i \in DOMAIN pages : pages[i] # next

(* Whether discover_projects goes on to page `next': not one it has read,  *)
(* nor one before the last.                                                *)
NextPageAllowed(pages, next) ==
    /\ \A i \in DOMAIN pages : pages[i] # next
    /\ next > pages[Len(pages)]
=============================================================================
