---------------------------- MODULE MCDashboard -----------------------------
(***************************************************************************)
(* The dialogs of the page, and its upload loop with the server behind it: *)
(* the loop keeps its own view of the dialog, so only one of the two moves *)
(* in each behaviour.  The other stays in its initial state, in which      *)
(* nothing of it is under way that fairness could ask to go on.            *)
(*                                                                         *)
(* Three actions, one of each kind of question.  Two batches of the same   *)
(* two files while two directories are browsed and other administrators    *)
(* add and delete the second file of the first.                            *)
(***************************************************************************)
EXTENDS Dialogs, CdnUploader

VARIABLE focus

pageVars == <<vars, uploaderVars, focus>>

MCInit == Init /\ UploaderInit /\ focus \in {"dialogs", "uploads"}

MCNext ==
    /\ UNCHANGED focus
    /\ \/ focus = "dialogs" /\ Next /\ UNCHANGED uploaderVars
       \/ focus = "uploads" /\ UploaderNext /\ UNCHANGED vars

MCSpec == MCInit /\ [][MCNext]_pageVars /\ Fairness /\ UploaderFairness

CONSTANTS f1, f2
MCUpload == <<f1, f2>>
MCOthers == {<<Home, f2>>}
=============================================================================
