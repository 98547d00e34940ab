------------------------------ MODULE OnceBook ------------------------------
(***************************************************************************)
(* What a ledger promises its readers: an account book in which every      *)
(* request counts at most once.  An entry may be forgotten (the readers'   *)
(* window moves on, or a crash damages a line) and then counted again, but *)
(* no step ever makes a request count twice or counts two requests.        *)
(***************************************************************************)
EXTENDS Naturals

CONSTANT Requests

VARIABLE book   \* how often each request is counted

Init == book = [r \in Requests |-> 0]

Forgets(old, new, kept) == \A r \in Requests \ kept : new[r] <= old[r]

Count(r) ==
    /\ book[r] = 0
    /\ book' \in [Requests -> {0, 1}]
    /\ book'[r] = 1
    /\ Forgets(book, book', {r})

Forget ==
    /\ book' \in [Requests -> {0, 1}]
    /\ Forgets(book, book', {})

Next == Forget \/ \E r \in Requests : Count(r)

Spec == Init /\ [][Next]_book
=============================================================================
