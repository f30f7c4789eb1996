------------------------- MODULE CdnUploaderProofs --------------------------
(***************************************************************************)
(* For any number of batches, files, directories and requests the server   *)
(* is serving: what was stored when the server looked for it is            *)
(* overwritten only after the batch's own user has agreed to overwrite     *)
(* something.  The inductive invariant ties a batch's decision to its own  *)
(* user's answers and a request's header to that decision, says that a     *)
(* batch that is asking or uploading has a file in hand, and that after    *)
(* the look there is no entry of a request's path unless one came up.      *)
(***************************************************************************)
EXTENDS CdnUploader, TLAPS

\* Between the choice of a file and the server's last word the index is one
\* of a file.
FileInHand == \A b \in Batch : batch[b].at \in {"upload", "conflict", "retry"} =>
                  batch[b].i \in DOMAIN Upload /\ batch[b].to \in Dir

\* A batch that may overwrite was told so by its own user.
Decided == \A b \in Batch : Overwrites(batch[b].decision) => batch[b].agreed

\* What holds of a request when the entries are e: X-Overwrite is sent only
\* after an agreement, and what the server saw when it looked still stands.
Sound(r, e) ==
    /\ r \in Request
    /\ r.overwrite => r.asked
    /\ r.at # "look" /\ ~r.late => e[Target(r)] = Null

RequestsSound == \A r \in requests : Sound(r, entries)

IInv == UploaderTypeOK /\ FileInHand /\ Decided /\ RequestsSound

\* What the invariant says of one batch.
Fits(l) ==
    /\ l \in Local
    /\ l.at \in {"upload", "conflict", "retry"} => l.i \in DOMAIN Upload /\ l.to \in Dir
    /\ Overwrites(l.decision) => l.agreed

-----------------------------------------------------------------------------
\* The number of files is positive.
LEMMA Files == /\ Len(Upload) \in Nat /\ Len(Upload) > 0
               /\ DOMAIN Upload = 1..Len(Upload)
BY UploadAssumption

LEMMA BatchFits == ASSUME IInv, NEW b \in Batch PROVE Fits(batch[b])
BY DEF IInv, UploaderTypeOK, FileInHand, Decided, Fits

\* The invariant holds when it holds of each batch.
LEMMA FromBatches ==
    ASSUME \A b \in Batch : Fits(batch'[b]), batch' \in [Batch -> Local],
           cdnCurrentDir' \in Dir, cdnSudoPass' \in {"none", "right", "wrong"},
           modal' \in Batch \cup {Null},
           entries' \in [Path -> Owner], \A r \in requests' : Sound(r, entries')
    PROVE  IInv'
<1>1. requests' \subseteq Request
  BY DEF Sound
<1> QED
  BY <1>1 DEF IInv, UploaderTypeOK, FileInHand, Decided, RequestsSound, Fits, Local, Sound, Target

\* One batch changes.
LEMMA OneBatch ==
    ASSUME IInv, NEW b \in Batch, NEW l, Fits(l), batch' = [batch EXCEPT ![b] = l]
    PROVE  batch' \in [Batch -> Local] /\ \A c \in Batch : Fits(batch'[c])
<1>1. batch \in [Batch -> Local]
  BY DEF IInv, UploaderTypeOK
<1>2. \A c \in Batch : Fits(batch[c])
  BY BatchFits
<1>3. l \in Local
  BY DEF Fits
<1> QED
  BY <1>1, <1>2, <1>3

\* A batch that is fresh or over has decided nothing.
LEMMA FreshFits == Fits(Fresh) /\ Fits(Over)
<1>1. 1 \in DOMAIN Upload /\ ~Overwrites("none")
  BY Files DEF Overwrites
<1>2. Fresh \in Local
  BY <1>1 DEF Fresh, Local
<1>3. Over \in Local /\ Over.at = "end" /\ Over.decision = Fresh.decision
  BY <1>2 DEF Over, Local
<1>4. Fresh.at = "new" /\ Fresh.decision = "none"
  BY DEF Fresh
<1> QED
  BY <1>1, <1>2, <1>3, <1>4 DEF Fits

\* Going on with the next file keeps what the user said.
LEMMA FinishedFits ==
    ASSUME NEW l, Fits(l), l.i \in DOMAIN Upload
    PROVE  Fits(Finished(l))
<1>1. l.i + 1 \in DOMAIN Upload \cup {Len(Upload) + 1}
  BY Files
<1> DEFINE m == [l EXCEPT !.i = l.i + 1, !.at = "next", !.to = Null]
<1>2. Finished(l) = m
  BY DEF Finished
<1>3. m \in Local /\ m.at = "next" /\ m.decision = l.decision /\ m.agreed = l.agreed
  BY <1>1 DEF Fits, Local
<1> QED
  BY <1>2, <1>3 DEF Fits

\* An answer to the conflict dialog that lets the batch overwrite is an
\* agreement of its own user.
LEMMA AnsweredFits ==
    ASSUME NEW b \in Batch, Fits(batch[b]), batch[b].i \in DOMAIN Upload,
           batch[b].to \in Dir, NEW d \in Buttons
    PROVE  LET m == Answered(b, d)
           IN  Fits(m) /\ m.i \in DOMAIN Upload /\ Fits([m EXCEPT !.at = "retry"])
<1> DEFINE l == batch[b]
<1> DEFINE g == l.agreed \/ Overwrites(d)
           m == [l EXCEPT !.decision = d, !.agreed = g]
<1>1. Answered(b, d) = m
  BY DEF Answered
<1>2. g \in BOOLEAN /\ (Overwrites(d) => g)
  BY DEF Fits, Local, Overwrites
<1> HIDE DEF l, g
<1>3. Fits(l) /\ l.i \in DOMAIN Upload /\ l.to \in Dir
  BY DEF l
<1>4. m \in Local /\ m.at = l.at /\ m.i = l.i /\ m.to = l.to /\ m.decision = d /\ m.agreed = g
  BY <1>2, <1>3 DEF Fits, Local, Buttons
<1> HIDE DEF m
<1> DEFINE n == [m EXCEPT !.at = "retry"]
<1>5. n \in Local /\ n.at = "retry" /\ n.i = m.i /\ n.to = m.to /\ n.decision = m.decision
      /\ n.agreed = m.agreed
  BY <1>4 DEF Local
<1> HIDE DEF n
<1>6. Fits(m) /\ m.i \in DOMAIN Upload /\ Fits(n)
  BY <1>2, <1>3, <1>4, <1>5 DEF Fits
<1> QED
  BY <1>1, <1>6 DEF n

-----------------------------------------------------------------------------
(* Requests.                                                                *)

LEMMA TargetIsPath == ASSUME NEW r \in Request PROVE Target(r) \in Path
<1>1. r.i \in DOMAIN Upload /\ r.to \in Dir
  BY DEF Request
<1>2. Upload[r.i] \in Name
  BY <1>1, UploadAssumption
<1> QED
  BY <1>1, <1>2 DEF Target, Path

\* A request is sent with the decision of its own batch.
LEMMA SentSound ==
    ASSUME NEW b \in Batch, NEW l, Fits(l), l.at \in {"upload", "retry"},
           cdnSudoPass \in {"none", "right", "wrong"}, NEW e
    PROVE  Sound(Sent(b, l), e)
<1>1. l.i \in DOMAIN Upload /\ l.to \in Dir
  BY DEF Fits
<1> DEFINE o == Overwrites(l.decision)
           s == [by |-> b, i |-> l.i, to |-> l.to, pass |-> cdnSudoPass, overwrite |-> o,
                 at |-> "look", asked |-> l.agreed, late |-> FALSE]
<1>2. Sent(b, l) = s
  BY DEF Sent
<1>3. l.agreed \in BOOLEAN /\ o \in BOOLEAN /\ (o => l.agreed)
  BY DEF Overwrites, Fits, Local
<1> HIDE DEF o
<1>4. s \in Request
  BY <1>1, <1>3 DEF Request
<1>5. s.overwrite = o /\ s.asked = l.agreed /\ s.at = "look"
  OBVIOUS
<1> QED
  BY <1>2, <1>3, <1>4, <1>5 DEF Sound

\* The server's own steps change where a request is and whether it is late.
LEMMA RequestSteps ==
    ASSUME NEW r \in Request, NEW a \in {"look", "open", "register"}
    PROVE  /\ [r EXCEPT !.at = a] \in Request
           /\ [r EXCEPT !.late = TRUE] \in Request
           /\ Target([r EXCEPT !.at = a]) = Target(r)
           /\ Target([r EXCEPT !.late = TRUE]) = Target(r)
BY DEF Request, Target

\* An entry of p comes up: the requests of that path are late.
LEMMA LateSound ==
    ASSUME NEW R, NEW p, NEW e \in [Path -> Owner], NEW x, \A r \in R : Sound(r, e),
           NEW q \in Late(R, p)
    PROVE  Sound(q, [e EXCEPT ![p] = x])
<1>1. PICK r \in R : q = IF Target(r) = p /\ r.at # "look" THEN [r EXCEPT !.late = TRUE] ELSE r
  BY DEF Late
<1>2. Sound(r, e) /\ r \in Request /\ Target(r) \in Path
  BY TargetIsPath DEF Sound
<1>3. CASE Target(r) = p /\ r.at # "look"
  <2>1. q = [r EXCEPT !.late = TRUE] /\ q \in Request
    BY <1>1, <1>2, <1>3, RequestSteps
  <2>2. q.late /\ q.overwrite = r.overwrite /\ q.asked = r.asked
    BY <1>2, <2>1 DEF Request
  <2> QED
    BY <1>2, <2>1, <2>2 DEF Sound
<1>4. CASE ~(Target(r) = p /\ r.at # "look")
  <2>1. q = r
    BY <1>1, <1>4
  <2>2. r.at # "look" => [e EXCEPT ![p] = x][Target(r)] = e[Target(r)]
    BY <1>2, <1>4
  <2> QED
    BY <1>2, <2>1, <2>2 DEF Sound
<1> QED
  BY <1>3, <1>4

\* An entry goes: no request is the worse for it.
LEMMA GoneSound ==
    ASSUME NEW r, NEW p, NEW e \in [Path -> Owner], Sound(r, e)
    PROVE  Sound(r, [e EXCEPT ![p] = Null])
<1>1. Target(r) \in Path
  BY TargetIsPath DEF Sound
<1>2. e[Target(r)] = Null => [e EXCEPT ![p] = Null][Target(r)] = Null
  BY <1>1
<1> QED
  BY <1>2 DEF Sound

\* A batch goes on, and may send a request.
LEMMA GoesOnInv ==
    ASSUME IInv, NEW b \in Batch, NEW l, Fits(l), GoesOn(b, l),
           UNCHANGED <<cdnCurrentDir, cdnSudoPass, modal, entries>>
    PROVE  IInv'
<1>1. batch' \in [Batch -> Local] /\ \A c \in Batch : Fits(batch'[c])
  BY OneBatch DEF GoesOn
<1>2. UploaderTypeOK /\ RequestsSound
  BY DEF IInv
<1>3. ASSUME NEW r \in requests' PROVE Sound(r, entries)
  <2>1. CASE r \in requests
    BY <1>2, <2>1 DEF RequestsSound
  <2>2. CASE r \notin requests
    <3>1. l.at \in {"upload", "retry"} /\ r = Sent(b, l)
      BY <1>3, <2>2 DEF GoesOn
    <3>2. Sound(Sent(b, l), entries)
      BY <1>2, <3>1, SentSound DEF UploaderTypeOK
    <3> QED
      BY <3>1, <3>2
  <2> QED
    BY <2>1, <2>2
<1>4. entries' = entries /\ entries \in [Path -> Owner]
  BY <1>2 DEF UploaderTypeOK
<1>5. \A r \in requests' : Sound(r, entries')
  BY <1>3, <1>4
<1> QED
  BY <1>1, <1>2, <1>4, <1>5, FromBatches DEF UploaderTypeOK

\* An answer leaves every batch fit.
LEMMA AnswerFits ==
    ASSUME IInv, NEW r \in requests, NEW l, Reply(r, l), Awaits(r) => Fits(l)
    PROVE  batch' \in [Batch -> Local] /\ \A c \in Batch : Fits(batch'[c])
<1>1. r.by \in Batch /\ batch \in [Batch -> Local]
  BY DEF IInv, UploaderTypeOK, Request
<1>2. CASE Awaits(r)
  BY <1>1, <1>2, OneBatch DEF Reply
<1>3. CASE ~Awaits(r)
  BY <1>1, <1>3, BatchFits DEF Reply
<1> QED
  BY <1>2, <1>3

-----------------------------------------------------------------------------
(* The invariant.                                                           *)

LEMMA InitInv == UploaderInit => IInv
<1> SUFFICES ASSUME UploaderInit PROVE IInv
  OBVIOUS
<1>1. \A b \in Batch : batch[b] = Fresh
  BY DEF UploaderInit
<1>2. Fresh \in Local /\ Fits(Fresh)
  BY FreshFits DEF Fits
<1>3. UploaderTypeOK
  BY <1>2, HomeAssumption DEF UploaderInit, UploaderTypeOK, Owner
<1> QED
  <2>1. FileInHand /\ Decided
    BY <1>1, <1>2 DEF FileInHand, Decided, Fits, Fresh
  <2>2. RequestsSound
    BY DEF UploaderInit, RequestsSound
  <2> QED
    BY <1>3, <2>1, <2>2 DEF IInv

LEMMA NextInv == IInv /\ [UploaderNext]_uploaderVars => IInv'
<1> SUFFICES ASSUME IInv, [UploaderNext]_uploaderVars PROVE IInv'
  OBVIOUS
<1>1. /\ cdnCurrentDir \in Dir /\ cdnSudoPass \in {"none", "right", "wrong"}
      /\ modal \in Batch \cup {Null} /\ batch \in [Batch -> Local]
      /\ entries \in [Path -> Owner] /\ requests \subseteq Request
      /\ \A b \in Batch : Fits(batch[b])
      /\ \A r \in requests : Sound(r, entries)
  BY BatchFits DEF IInv, UploaderTypeOK, RequestsSound
<1>2. CASE UNCHANGED uploaderVars
  BY <1>1, <1>2, FromBatches DEF uploaderVars
<1>3. ASSUME NEW d \in Dir, Browse(d) PROVE IInv'
  BY <1>1, <1>3, FromBatches DEF Browse, serverVars
<1>4. ASSUME NEW p \in Others, OthersChange(p) PROVE IInv'
  <2>1. p \in Path
    BY OthersAssumption DEF Path
  <2>2. entries' \in [Path -> Owner]
    BY <1>1, <1>4 DEF OthersChange, Owner
  <2>3. \A r \in requests' : Sound(r, entries')
    <3>1. CASE entries' = [entries EXCEPT ![p] = "another"] /\ requests' = Late(requests, p)
      BY <1>1, <3>1, LateSound
    <3>2. CASE entries' = [entries EXCEPT ![p] = Null] /\ requests' = requests
      BY <1>1, <3>2, GoneSound
    <3> QED
      BY <1>4, <3>1, <3>2 DEF OthersChange
  <2> QED
    BY <1>1, <1>4, <2>2, <2>3, FromBatches DEF OthersChange
<1>5. ASSUME NEW b \in Batch, StartBatch(b) PROVE IInv'
  <2>1. PICK a \in {"password", "next"} : batch' = [batch EXCEPT ![b].at = a]
    BY <1>5 DEF StartBatch
  <2>2. Fits([batch[b] EXCEPT !.at = a])
    BY <1>1, <2>1 DEF Fits, Local
  <2>3. modal' \in Batch \cup {Null}
    BY <1>1, <1>5 DEF StartBatch
  <2>4. batch' \in [Batch -> Local] /\ \A c \in Batch : Fits(batch'[c])
    BY <2>1, <2>2, OneBatch
  <2> QED
    BY <1>1, <1>5, <2>3, <2>4, FromBatches DEF StartBatch, serverVars
<1>6. ASSUME NEW b \in Batch, AnswerPassword(b) PROVE IInv'
  <2>1. Fits([batch[b] EXCEPT !.at = "next"]) /\ Fits(Over)
    BY <1>1, FreshFits DEF Fits, Local
  <2>2. \/ batch' = [batch EXCEPT ![b] = Over]
        \/ batch' = [batch EXCEPT ![b] = [batch[b] EXCEPT !.at = "next"]]
    BY <1>6 DEF AnswerPassword
  <2>3. batch' \in [Batch -> Local] /\ \A c \in Batch : Fits(batch'[c])
    BY <2>1, <2>2, OneBatch
  <2> QED
    BY <1>1, <1>6, <2>3, FromBatches DEF AnswerPassword, serverVars
<1>7. ASSUME NEW b \in Batch, NextFile(b) PROVE IInv'
  <2> DEFINE l == batch[b]
             m == IF l.i > Len(Upload) THEN Over
                  ELSE IF Skips(l.decision) THEN Finished(l)
                  ELSE [l EXCEPT !.at = "upload", !.to = cdnCurrentDir]
  <2>1. Fits(l) /\ (l.i > Len(Upload) \/ l.i \in DOMAIN Upload)
    BY <1>1, Files DEF Fits, Local
  <2>2. l.i \in DOMAIN Upload => Fits([l EXCEPT !.at = "upload", !.to = cdnCurrentDir])
    BY <1>1, <2>1 DEF Fits, Local
  <2>3. l.i \in DOMAIN Upload => Fits(Finished(l))
    BY <2>1, FinishedFits
  <2>4. Fits(m)
    BY <2>1, <2>2, <2>3, FreshFits
  <2>5. GoesOn(b, m) /\ UNCHANGED <<cdnCurrentDir, cdnSudoPass, modal, entries>>
    BY <1>7 DEF NextFile
  <2> HIDE DEF m
  <2> QED
    BY <2>4, <2>5, GoesOnInv
<1>8. ASSUME NEW b \in Batch, GivesUp(b) PROVE IInv'
  <2>1. Fits(Finished(batch[b]))
    BY <1>1, <1>8, FinishedFits DEF GivesUp, Fits
  <2>2. batch' = [batch EXCEPT ![b] = Finished(batch[b])]
    BY <1>8 DEF GivesUp
  <2>3. batch' \in [Batch -> Local] /\ \A c \in Batch : Fits(batch'[c])
    BY <2>1, <2>2, OneBatch
  <2>4. requests' \subseteq requests
    BY <1>8 DEF GivesUp
  <2> QED
    BY <1>1, <1>8, <2>3, <2>4, FromBatches DEF GivesUp
<1>9. ASSUME NEW b \in Batch, AnswerConflict(b) PROVE IInv'
  <2>1. Fits(batch[b]) /\ batch[b].i \in DOMAIN Upload /\ batch[b].to \in Dir
    BY <1>1, <1>9 DEF AnswerConflict, Fits
  <2>2. PICK m : Fits(m) /\ GoesOn(b, m)
    <3>1. CASE GoesOn(b, Over)
      BY <3>1, FreshFits
    <3>2. ASSUME NEW d \in Buttons,
                 GoesOn(b, IF Skips(d) THEN Finished(Answered(b, d))
                           ELSE [Answered(b, d) EXCEPT !.at = "retry"])
          PROVE  \E m : Fits(m) /\ GoesOn(b, m)
      <4>1. /\ Fits(Answered(b, d)) /\ Answered(b, d).i \in DOMAIN Upload
            /\ Fits([Answered(b, d) EXCEPT !.at = "retry"])
        BY <2>1, AnsweredFits
      <4>2. Fits(Finished(Answered(b, d)))
        BY <4>1, FinishedFits
      <4> QED
        BY <3>2, <4>1, <4>2
    <3> QED
      BY <1>9, <3>1, <3>2 DEF AnswerConflict
  <2> QED
    BY <1>9, <2>2, GoesOnInv DEF AnswerConflict
<1>10. ASSUME NEW r \in requests, Serve(r) PROVE IInv'
  <2>1. /\ r \in Request /\ r.by \in Batch /\ Target(r) \in Path /\ Sound(r, entries)
        /\ r.by \in Owner /\ Null \in Owner
    BY <1>1, TargetIsPath DEF Request, Owner
  <2>2. Awaits(r) => Fits(Finished(batch[r.by]))
    BY <1>1, <2>1, FinishedFits DEF Awaits, Fits
  <2>3. CASE Refuse(r) \/ Conflict(r)
    <3>1. Awaits(r) => Fits([batch[r.by] EXCEPT !.at = "conflict"])
      BY <1>1, <2>1 DEF Awaits, Fits, Local
    <3>2. PICK l : Reply(r, l) /\ (Awaits(r) => Fits(l))
      BY <2>2, <2>3, <3>1 DEF Refuse, Conflict
    <3>3. batch' \in [Batch -> Local] /\ \A c \in Batch : Fits(batch'[c])
      BY <3>2, AnswerFits
    <3>4. entries' = entries /\ requests' \subseteq requests
      BY <2>3 DEF Refuse, Conflict
    <3> QED
      BY <1>1, <1>10, <3>3, <3>4, FromBatches DEF Serve
  <2>4. CASE Admit(r)
    <3> DEFINE q == [r EXCEPT !.at = "open"]
               e == [entries EXCEPT ![Target(r)] = Null]
    <3>1. entries' = e /\ e \in [Path -> Owner] /\ e[Target(r)] = Null
      BY <1>1, <2>1, <2>4 DEF Admit
    <3>2. q \in Request /\ Target(q) = Target(r)
      BY <2>1, RequestSteps
    <3>3. q.overwrite = r.overwrite /\ q.asked = r.asked
      BY <2>1 DEF Request
    <3>4. Sound(q, e)
      BY <2>1, <3>1, <3>2, <3>3 DEF Sound
    <3>5. requests' = (requests \ {r}) \cup {q}
      BY <2>4 DEF Admit, StepTo
    <3>6. \A s \in requests : Sound(s, e)
      BY <1>1, GoneSound
    <3> HIDE DEF q, e
    <3>7. \A s \in requests' : Sound(s, entries')
      BY <3>1, <3>4, <3>5, <3>6
    <3> QED
      BY <1>1, <1>10, <2>4, <3>1, <3>7, FromBatches DEF Serve, Admit
  <2>5. CASE Open(r)
    <3> DEFINE q == [r EXCEPT !.at = "register"]
    <3>1. q \in Request /\ Target(q) = Target(r)
      BY <2>1, RequestSteps
    <3>2. q.overwrite = r.overwrite /\ q.asked = r.asked /\ q.late = r.late
      BY <2>1 DEF Request
    <3>3. Sound(q, entries)
      BY <2>1, <2>5, <3>1, <3>2 DEF Sound, Open
    <3>4. requests' = (requests \ {r}) \cup {q} /\ entries' = entries
      BY <2>5 DEF Open, StepTo
    <3> HIDE DEF q
    <3>5. \A s \in requests' : Sound(s, entries')
      BY <1>1, <3>3, <3>4
    <3> QED
      BY <1>1, <1>10, <2>5, <3>4, <3>5, FromBatches DEF Serve, Open
  <2>6. CASE Register(r)
    <3>1. entries' = [entries EXCEPT ![Target(r)] = r.by]
      BY <2>6 DEF Register
    <3>2. entries' \in [Path -> Owner]
      BY <1>1, <2>1, <3>1
    <3>3. \A s \in requests \ {r} : Sound(s, entries)
      BY <1>1
    <3>4. ASSUME NEW s \in requests' PROVE Sound(s, entries')
      <4>1. s \in Late(requests \ {r}, Target(r))
        BY <2>6, <3>4 DEF Register
      <4>2. Sound(s, [entries EXCEPT ![Target(r)] = r.by])
        BY <1>1, <3>3, <4>1, LateSound
      <4> QED
        BY <3>1, <4>2
    <3>5. batch' \in [Batch -> Local] /\ \A c \in Batch : Fits(batch'[c])
      BY <2>2, <2>6, AnswerFits DEF Register
    <3> QED
      BY <1>1, <1>10, <3>2, <3>4, <3>5, FromBatches DEF Serve
  <2> QED
    BY <1>10, <2>3, <2>4, <2>5, <2>6 DEF Serve
<1> QED
  BY <1>2, <1>3, <1>4, <1>5, <1>6, <1>7, <1>8, <1>9, <1>10 DEF UploaderNext, BatchStep

\* The invariant holds in every reachable state.
LEMMA Invariant == UploaderSpec => []IInv
<1>1. UploaderInit => IInv
  BY InitInv
<1>2. IInv /\ [UploaderNext]_uploaderVars => IInv'
  BY NextInv
<1> QED
  BY <1>1, <1>2, PTL DEF UploaderSpec

-----------------------------------------------------------------------------
(* The theorems.                                                            *)

\* The loop of cdnUploadFiles never runs past its list of files.
THEOREM TypeCorrect == UploaderSpec => []UploaderTypeOK
<1>1. IInv => UploaderTypeOK
  BY DEF IInv
<1> QED
  BY <1>1, Invariant, PTL

\* Of any number of interleaved uploads: a step of the server that takes away an
\* entry somebody else registered, or writes into its file, serves a batch whose
\* own user had agreed to overwrite something when the request was sent, or the
\* entry came up after the server had looked for it.
THEOREM AskedFirst == UploaderSpec => AskedBeforeOverwriting
<1>1. IInv /\ [UploaderNext]_uploaderVars =>
        [\A r \in requests : Serve(r) /\ Harms(r) => r.asked \/ r.late]_uploaderVars
  <2> SUFFICES ASSUME IInv, NEW r \in requests, Serve(r), Harms(r)
               PROVE  r.asked \/ r.late
    OBVIOUS
  <2>1. Sound(r, entries)
    BY DEF IInv, RequestsSound
  <2>2. CASE r.at # "look"
    BY <2>1, <2>2 DEF Sound, Harms
  <2>3. CASE r.at = "look"
    <3>1. entries'[Target(r)] # entries[Target(r)] /\ entries[Target(r)] # Null
      BY <2>3 DEF Harms
    <3>2. Admit(r)
      BY <2>3, <3>1 DEF Serve, Refuse, Conflict, Open, Register
    <3> QED
      BY <2>1, <3>1, <3>2 DEF Admit, Sound
  <2> QED
    BY <2>2, <2>3
<1> QED
  BY <1>1, Invariant, PTL DEF UploaderSpec, AskedBeforeOverwriting
=============================================================================
