------------------------------ MODULE Dialogs -------------------------------
(***************************************************************************)
(* modalManager of dashboard/script.js, the one dialog in which every      *)
(* function of the page asks its question, and the functions that wait for *)
(* it.  Some ask once, for the sudo password; cdnRename, cdnMkdirClick and *)
(* actionResetPass ask for a value first and for the password then.        *)
(*                                                                         *)
(* confirm() is suspended while the password is hashed, and close() leaves *)
(* a timer behind that hides the dialog after 300 ms.  Both come back to   *)
(* whatever the dialog has become meanwhile.  The page behind the dialog   *)
(* can be reached by keyboard, so an action can start at any time.         *)
(***************************************************************************)
EXTENDS Naturals, FiniteSets

CONSTANTS
    Action,     \* calls of the functions that ask
    Twice,      \* those that ask for a value first
    Form,       \* those whose dialog has fields that may stay empty, cdnLinkClick
    Choice,     \* those whose dialog has a field that is never empty, actionChangeRole
    MaxEvents,  \* bound: timers and digests in flight
    None

ASSUME KindAssumption == Twice \subseteq Action /\ Form \subseteq Action /\ Choice \subseteq Action
ASSUME NoneAssumption == None \notin Action
ASSUME EventsAssumption == MaxEvents \in Nat \ {0}

VARIABLES
    resolve,    \* the action the dialog will resume
    promptMode,
    display,    \* the dialog can be seen and clicked
    shown,      \* the action whose question the dialog shows
    hides,      \* timers that will hide the dialog
    digests,    \* of each action, the confirmed passwords being hashed
    call        \* the await each action is suspended in

\* Histories: the actions whose password question the user has confirmed,
\* those started while a password was being hashed, and those whose question
\* was hidden or replaced before it was answered.
VARIABLES confirmed, early, dropped

dialog == <<resolve, promptMode, display, shown>>
histories == <<confirmed, early, dropped>>
vars == <<dialog, hides, digests, call, histories>>

TypeOK ==
    /\ resolve \in Action \cup {None}
    /\ promptMode \in BOOLEAN
    /\ display \in BOOLEAN
    /\ shown \in Action \cup {None}
    /\ hides \in Nat
    /\ digests \in [Action -> Nat]
    /\ call \in [Action -> {"new", "prompt", "sudo", "sent", "end"}]
    /\ confirmed \subseteq Action /\ early \subseteq Action /\ dropped \subseteq Action

Init ==
    /\ resolve = None /\ shown = None
    /\ promptMode = FALSE /\ display = FALSE
    /\ hides = 0
    /\ digests = [a \in Action |-> 0]
    /\ call = [a \in Action |-> "new"]
    /\ confirmed = {} /\ early = {} /\ dropped = {}

-----------------------------------------------------------------------------
InFlight == \E a \in Action : digests[a] > 0

\* No more than MaxEvents come back at a time.
Room == hides + Cardinality({a \in Action : digests[a] > 0}) < MaxEvents

\* Wrong: the dialog keeps waiting for who asked first.
openKeeps(a, prompt) ==
    /\ resolve' = IF resolve = None THEN a ELSE resolve
    /\ shown' = a
    /\ promptMode' = prompt
    /\ display' = TRUE

\* modalManager.open: the next answer is for a.
open(a, prompt) ==
    /\ resolve' = a /\ shown' = a
    /\ promptMode' = prompt
    /\ display' = TRUE

\* modalManager.close only starts the timer.
close == hides' = hides + 1

\* A function asks its first question.
Start(a) ==
    /\ call[a] = "new"
    /\ open(a, a \in Twice)
    /\ call' = [call EXCEPT ![a] = IF a \in Twice THEN "prompt" ELSE "sudo"]
    /\ early' = IF InFlight THEN early \cup {a} ELSE early
    /\ dropped' = dropped \cup ({resolve} \ {None})
    /\ UNCHANGED <<hides, digests, confirmed>>

\* Nobody waits for the answer.
NobodyWaits ==
    /\ resolve = None
    /\ UNCHANGED <<dialog, call>>

\* The action that waits is given nothing, or nothing it can use, and returns.
GivenNothing ==
    /\ resolve \in Action
    /\ call' = [call EXCEPT ![resolve] = "end"]
    /\ resolve' = None
    /\ UNCHANGED <<promptMode, display, shown>>

\* Wrong: the request is sent with the value alone.
GivenValueSends ==
    /\ resolve \in Action /\ call[resolve] = "prompt"
    /\ call' = [call EXCEPT ![resolve] = "sent"]
    /\ resolve' = None
    /\ UNCHANGED <<promptMode, display, shown>>

\* A value is given to the first question: the second is asked at once.
GivenValue ==
    /\ resolve \in Action /\ call[resolve] = "prompt"
    /\ open(resolve, FALSE)
    /\ call' = [call EXCEPT ![resolve] = "sudo"]

\* A password is given to the last question: the request is sent.
GivenPassword ==
    /\ resolve \in Action /\ call[resolve] = "sudo"
    /\ call' = [call EXCEPT ![resolve] = "sent"]
    /\ resolve' = None
    /\ UNCHANGED <<promptMode, display, shown>>

-----------------------------------------------------------------------------
(* The user.                                                                *)

\* Wrong: the action that waits is forgotten, not resumed.
CancelForgets ==
    /\ display /\ Room
    /\ close
    /\ resolve' = None
    /\ UNCHANGED <<promptMode, display, shown, digests, call, histories>>

\* Cancel is clicked.
Cancel ==
    /\ display /\ Room
    /\ close
    /\ NobodyWaits \/ GivenNothing
    /\ UNCHANGED <<digests, histories>>

\* Confirm is clicked on a prompt, with a new value or without.
ConfirmPrompt ==
    /\ display /\ promptMode /\ Room
    /\ close
    /\ NobodyWaits \/ GivenNothing \/ GivenValue
    /\ UNCHANGED <<digests, histories>>

\* Confirm is clicked with a password: it is hashed before anybody gets it.
Confirm ==
    /\ display /\ ~promptMode /\ Room
    /\ digests[shown] < MaxEvents
    /\ digests' = [digests EXCEPT ![shown] = @ + 1]
    /\ confirmed' = confirmed \cup {shown}
    /\ UNCHANGED <<dialog, hides, call, early, dropped>>

(* What comes back.                                                         *)

\* The password is hashed: it goes to whoever waits now, with the value of
\* the field the dialog had when it was clicked, if it had one.
Digested(a) ==
    /\ digests[a] > 0
    /\ digests' = [digests EXCEPT ![a] = @ - 1]
    /\ close
    /\ \/ NobodyWaits
       \/ GivenPassword
       \/ resolve \in Form /\ call[resolve] = "sudo" /\ GivenNothing
       \/ resolve \in Action /\ call[resolve] = "prompt"
          /\ IF a \in Choice THEN GivenValue ELSE GivenNothing
    /\ UNCHANGED histories

\* 300 ms after a close the dialog is hidden, whatever it shows.
Hide ==
    /\ hides > 0
    /\ hides' = hides - 1
    /\ display' = FALSE
    /\ dropped' = dropped \cup ({resolve} \ {None})
    /\ UNCHANGED <<resolve, promptMode, shown, digests, call, confirmed, early>>

-----------------------------------------------------------------------------
Answer == Cancel \/ ConfirmPrompt \/ Confirm
Events == Hide \/ \E a \in Action : Digested(a)
Next == Answer \/ Events \/ \E a \in Action : Start(a)

(***************************************************************************)
(* Timers fire and digests end; the user answers what can be seen.         *)
(***************************************************************************)
Fairness == WF_vars(Answer) /\ WF_vars(Hide) /\ \A a \in Action : WF_vars(Digested(a))
Spec == Init /\ [][Next]_vars

-----------------------------------------------------------------------------
\* An answer goes to the action whose question is shown, not to one that
\* asked before.
AnswersGoToShown ==
    resolve # None => resolve = shown /\ call[shown] = (IF promptMode THEN "prompt" ELSE "sudo")

\* A request is sent only after its own user typed the password into its own
\* question, unless the question came up while the password of another one
\* was being hashed.
SudoConfirmed == \A a \in Action : call[a] = "sent" => a \in confirmed \cup early

\* The actions that wait for an answer they can still get.
Waiting == {a \in Action : call[a] \in {"prompt", "sudo"}} \ dropped

\* Every question comes to an end, unless a timer older than the question
\* hid it, or another question replaced it: at last none waits.
QuestionsEnd == Waiting # {} ~> Waiting = {}

\* What the code means by a dialog, and does not do: a question can be seen
\* until it is answered.
QuestionShown == resolve # None => display
=============================================================================
