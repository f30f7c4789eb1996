--------------------------- MODULE DialogsProofs ----------------------------
(***************************************************************************)
(* For any number of actions and of timers and digests in flight: an       *)
(* answer goes to the question that is shown, and a request needs its own  *)
(* confirmation.  The invariant adds what a password being hashed may      *)
(* meet: its user confirmed the question it was typed for, and an action   *)
(* waiting on the dialog while another's is hashed started that early.     *)
(***************************************************************************)
EXTENDS Dialogs, TLAPS

\* Every digest in flight is of a confirmed question.
DigestsConfirmed == \A a \in Action : digests[a] > 0 => a \in confirmed

\* Who waits on the dialog may get its own password only, or came up early.
OwnDigests ==
    \A a \in Action : digests[a] > 0 /\ resolve # None => resolve = a \/ resolve \in early

\* A dialog that can be clicked is somebody's.
ShownIsAction == display => shown \in Action

IInv == TypeOK /\ AnswersGoToShown /\ SudoConfirmed
        /\ DigestsConfirmed /\ OwnDigests /\ ShownIsAction

-----------------------------------------------------------------------------
LEMMA InitInv == Init => IInv
<1> SUFFICES ASSUME Init PROVE IInv
  OBVIOUS
<1>1. TypeOK
  BY DEF Init, TypeOK
<1>2. AnswersGoToShown /\ SudoConfirmed /\ ShownIsAction
  BY DEF Init, AnswersGoToShown, SudoConfirmed, ShownIsAction
<1>3. DigestsConfirmed /\ OwnDigests
  BY DEF Init, DigestsConfirmed, OwnDigests
<1> QED
  BY <1>1, <1>2, <1>3 DEF IInv

\* A question that comes up while passwords are hashed came up early.
LEMMA StartInv == ASSUME IInv, NEW a \in Action, Start(a) PROVE IInv'
<1> USE NoneAssumption DEF IInv
<1>1. TypeOK'
  BY DEF Start, open, TypeOK
<1>2. AnswersGoToShown'
  BY DEF Start, open, TypeOK, AnswersGoToShown
<1>3. SudoConfirmed'
  BY DEF Start, TypeOK, SudoConfirmed
<1>4. DigestsConfirmed'
  BY DEF Start, DigestsConfirmed
<1>5. OwnDigests'
  BY DEF Start, open, InFlight, TypeOK, OwnDigests
<1>6. ShownIsAction'
  BY DEF Start, open, ShownIsAction
<1> QED
  BY <1>1, <1>2, <1>3, <1>4, <1>5, <1>6

\* An answer that gives no password.
LEMMA AnswerInv == ASSUME IInv, Cancel \/ ConfirmPrompt PROVE IInv'
<1> USE NoneAssumption DEF IInv
<1>1. NobodyWaits \/ GivenNothing \/ GivenValue
  BY DEF Cancel, ConfirmPrompt
<1>2. hides' \in Nat /\ UNCHANGED <<digests, confirmed, early, dropped>>
  BY DEF Cancel, ConfirmPrompt, close, histories, TypeOK
<1>3. CASE NobodyWaits
  BY <1>2, <1>3 DEF NobodyWaits, dialog, TypeOK, AnswersGoToShown, SudoConfirmed,
                    DigestsConfirmed, OwnDigests, ShownIsAction
<1>4. CASE GivenNothing
  BY <1>2, <1>4 DEF GivenNothing, TypeOK, AnswersGoToShown, SudoConfirmed,
                    DigestsConfirmed, OwnDigests, ShownIsAction
<1>5. CASE GivenValue
  BY <1>2, <1>5 DEF GivenValue, open, TypeOK, AnswersGoToShown, SudoConfirmed,
                    DigestsConfirmed, OwnDigests, ShownIsAction
<1> QED
  BY <1>1, <1>3, <1>4, <1>5

LEMMA ConfirmInv == ASSUME IInv, Confirm PROVE IInv'
<1> USE NoneAssumption DEF IInv, Confirm, dialog
<1>1. shown \in Action
  BY DEF ShownIsAction
<1>2. TypeOK'
  BY <1>1 DEF TypeOK
<1>3. AnswersGoToShown' /\ SudoConfirmed' /\ ShownIsAction'
  BY DEF AnswersGoToShown, SudoConfirmed, ShownIsAction
<1>4. \A a \in Action : digests'[a] > 0 => digests[a] > 0 \/ a = shown
  BY <1>1 DEF TypeOK
<1>5. DigestsConfirmed'
  BY <1>4 DEF DigestsConfirmed
<1>6. OwnDigests'
  BY <1>4 DEF OwnDigests, AnswersGoToShown
<1> QED
  BY <1>2, <1>3, <1>5, <1>6

\* A password that was hashed.
LEMMA DigestedInv == ASSUME IInv, NEW a \in Action, Digested(a) PROVE IInv'
<1> USE NoneAssumption DEF IInv
<1>1. NobodyWaits \/ GivenNothing \/ GivenValue \/ GivenPassword
  BY DEF Digested
<1>2. /\ hides' \in Nat /\ UNCHANGED <<confirmed, early, dropped>>
      /\ digests' \in [Action -> Nat]
      /\ \A b \in Action : digests'[b] > 0 => digests[b] > 0
  BY DEF Digested, close, histories, TypeOK
<1>3. a \in confirmed /\ (resolve # None => resolve = a \/ resolve \in early)
  BY DEF Digested, DigestsConfirmed, OwnDigests
<1>4. CASE NobodyWaits
  BY <1>2, <1>4 DEF NobodyWaits, dialog, TypeOK, AnswersGoToShown, SudoConfirmed,
                    DigestsConfirmed, OwnDigests, ShownIsAction
<1>5. CASE GivenNothing
  BY <1>2, <1>5 DEF GivenNothing, TypeOK, AnswersGoToShown, SudoConfirmed,
                    DigestsConfirmed, OwnDigests, ShownIsAction
<1>6. CASE GivenValue
  BY <1>2, <1>6 DEF GivenValue, open, TypeOK, AnswersGoToShown, SudoConfirmed,
                    DigestsConfirmed, OwnDigests, ShownIsAction
<1>7. CASE GivenPassword
  <2>1. TypeOK' /\ AnswersGoToShown' /\ ShownIsAction'
    BY <1>2, <1>7 DEF GivenPassword, TypeOK, AnswersGoToShown, ShownIsAction
  <2>2. SudoConfirmed'
    BY <1>2, <1>3, <1>7 DEF GivenPassword, TypeOK, SudoConfirmed
  <2>3. DigestsConfirmed' /\ OwnDigests'
    BY <1>2, <1>7 DEF GivenPassword, DigestsConfirmed, OwnDigests
  <2> QED
    BY <2>1, <2>2, <2>3
<1> QED
  BY <1>1, <1>4, <1>5, <1>6, <1>7

LEMMA HideInv == ASSUME IInv, Hide PROVE IInv'
<1> USE DEF IInv, Hide
<1>1. TypeOK'
  <2>1. hides' \in Nat /\ dropped' \subseteq Action /\ display' \in BOOLEAN
    <3>1. hides' \in Nat
      BY DEF TypeOK
    <3>2. {resolve} \ {None} \subseteq Action /\ dropped \subseteq Action
      BY DEF TypeOK
    <3>3. dropped' \subseteq Action
      BY <3>2, Zenon
    <3> QED
      BY <3>1, <3>3, Zenon
  <2>2. /\ resolve \in Action \cup {None} /\ promptMode \in BOOLEAN
        /\ shown \in Action \cup {None} /\ digests \in [Action -> Nat]
        /\ call \in [Action -> {"new", "prompt", "sudo", "sent", "end"}]
        /\ confirmed \subseteq Action /\ early \subseteq Action
    BY Zenon DEF TypeOK
  <2>3. UNCHANGED <<resolve, promptMode, shown, digests, call, confirmed, early>>
    BY Zenon
  <2> QED
    BY <2>1, <2>2, <2>3, Zenon DEF TypeOK
<1>2. AnswersGoToShown' /\ SudoConfirmed' /\ ShownIsAction'
  BY DEF AnswersGoToShown, SudoConfirmed, ShownIsAction
<1>3. DigestsConfirmed' /\ OwnDigests'
  BY DEF DigestsConfirmed, OwnDigests
<1> QED
  BY <1>1, <1>2, <1>3

LEMMA NextInv == IInv /\ [Next]_vars => IInv'
<1> SUFFICES ASSUME IInv, [Next]_vars PROVE IInv'
  OBVIOUS
<1>1. CASE UNCHANGED vars
  BY <1>1 DEF vars, dialog, histories, IInv, TypeOK, AnswersGoToShown, SudoConfirmed,
              DigestsConfirmed, OwnDigests, ShownIsAction
<1>2. CASE Next
  BY <1>2, StartInv, AnswerInv, ConfirmInv, DigestedInv, HideInv DEF Next, Answer, Events
<1> QED
  BY <1>1, <1>2

\* The invariant holds in every reachable state.
LEMMA Invariant == Spec => []IInv
<1>1. Init => IInv
  BY InitInv
<1>2. IInv /\ [Next]_vars => IInv'
  BY NextInv
<1> QED
  BY <1>1, <1>2, PTL DEF Spec

-----------------------------------------------------------------------------
\* The dialog never shows or resumes anything but an action.
THEOREM TypeCorrect == Spec => []TypeOK
<1>1. IInv => TypeOK
  BY DEF IInv
<1> QED
  BY <1>1, Invariant, PTL

\* An answer goes to the action whose question is shown.
THEOREM AnswersReachTheirQuestion == Spec => []AnswersGoToShown
<1>1. IInv => AnswersGoToShown
  BY DEF IInv
<1> QED
  BY <1>1, Invariant, PTL

\* A hashed password serves another action than the one it was typed for
\* only if that action's question came up while it was being hashed.
THEOREM RequestsAreConfirmed == Spec => []SudoConfirmed
<1>1. IInv => SudoConfirmed
  BY DEF IInv
<1> QED
  BY <1>1, Invariant, PTL
=============================================================================
