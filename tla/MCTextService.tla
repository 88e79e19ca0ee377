---------------------------- MODULE MCTextService ----------------------------
(* TLC instances of TextService. *)
EXTENDS TextService, TLC

CONSTANTS words, none

M(ok, commit, comp, cands, show, open) ==
    [ok |-> ok, commit |-> commit, comp |-> comp, cands |-> cands, show |-> show,
     open |-> open, throws |-> FALSE]

Refused == M(FALSE, FALSE, FALSE, none, FALSE, FALSE)
Silent == M(TRUE, FALSE, FALSE, none, FALSE, FALSE)
Opens == [Silent EXCEPT !.open = TRUE]
Throws == [Opens EXCEPT !.throws = TRUE]
CommitsAndOpens == M(TRUE, TRUE, TRUE, words, TRUE, TRUE)

\* A host that takes the preedit in the popup and lets the text service draw it, and
\* every way a response can end.
DrawnHost == {<<FALSE, TRUE>>}
SomeReplies == {Refused, Throws, CommitsAndOpens}
SomeAsync == {Refused, Throws, Opens}

\* What ends, and what is found again: a host that draws itself, so that the popup
\* is out of the way.
BareHost == {<<FALSE, FALSE>>}
FewAsync == {Silent}

\* Every kind of host.
EveryHost == BOOLEAN \X BOOLEAN
=============================================================================
