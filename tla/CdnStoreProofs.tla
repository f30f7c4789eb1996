--------------------------- MODULE CdnStoreProofs ---------------------------
(***************************************************************************)
(* For any number of paths, files and concurrent requests: where a second  *)
(* registration of a path is refused, an uploaded entry names the storage  *)
(* file of its own path; only an overwriting upload can remove a file      *)
(* outside the storage directory; and requests on different paths cost no  *)
(* uploaded entry its file.                                                *)
(*                                                                         *)
(* All depend on what a request remembers of a row it read some steps      *)
(* ago, so the inductive invariants relate the handlers' local variables   *)
(* to the table as it is now.                                              *)
(***************************************************************************)
EXTENDS CdnStore, TLAPS

\* What the local variables of a handler hold.
Shaped(q) ==
    /\ q \in Request \cup {Idle}
    /\ q # Idle =>
          /\ q.op # "delete" => q.path \in Path
          /\ q.op = "link" => q.file \in File
          /\ q.op = "rename" => q.id \in Id
          /\ q.op = "upload" /\ q.step = "remove" => q.flag
          /\ q.op \in {"delete", "delete_by_path"} /\ q.step = "remove" => q.file \in Path
          /\ q.op = "rename" /\ q.step = "move" /\ ~q.linked => q.file \in Path

\* A rename still knows of its row d[q.id] whether it is a link.
Remembers(q, d) ==
    q # Idle /\ q.op = "rename" /\ q.step \in {"move", "register"} =>
        /\ d[q.id] # Fresh
        /\ d[q.id] \in Row => d[q.id].linked = q.linked

\* An uploaded entry lies in the storage directory, under its own name when
\* paths are never registered twice.
RowFits(x) ==
    x \in Row /\ ~x.linked =>
        /\ x.file \in Path
        /\ on_conflict = "reject" => x.file = x.path

IInv ==
    /\ TypeOK
    /\ \A r \in Req : Shaped(req[r])
    /\ \A i \in Id : RowFits(db[i])
    /\ on_conflict = "reject" => \A r \in Req : Remembers(req[r], db)

\* An id that is in use stays what it is, a link or not, until it is deleted.
Kept == \A i \in Id : db[i] # Fresh =>
            /\ db'[i] # Fresh
            /\ db'[i] \in Row => db[i] \in Row /\ db'[i].linked = db[i].linked

\* A step of the database that keeps the invariant.
GoodDb ==
    /\ db' \in [Id -> Row \cup {Fresh, Gone}]
    /\ \A i \in Id : RowFits(db'[i])
    /\ on_conflict = "reject" => Kept

-----------------------------------------------------------------------------
(* Values.                                                                  *)

LEMMA Apart == /\ Fresh \notin Row /\ Gone \notin Row /\ Fresh # Gone
               /\ Idle \notin Request /\ Fresh # Nothing /\ Nothing \notin Row
<1>1. Fresh \notin Row /\ Gone \notin Row
  BY NoneAssumption DEF Fresh, Gone, Row
<1>2. DOMAIN Fresh = {"path"} /\ DOMAIN Gone = {"path", "file"}
  BY DEF Fresh, Gone
<1>3. Fresh # Gone
  BY <1>2
<1>4. Idle \notin Request
  BY DEF Idle, Request, Step
<1> QED
  BY <1>1, <1>3, <1>4 DEF Nothing

\* A row, as far as its fields are concerned.
LEMMA RowFields == ASSUME NEW x \in Row
                   PROVE  x.path \in Path /\ x.file \in File /\ x.linked \in BOOLEAN
BY DEF Row

\* What a lookup returns is one of the rows it looked for, or nothing.
LEMMA FoundRow ==
    ASSUME NEW S, S \subseteq Rows, NEW x \in Found(S), x # Nothing
    PROVE  \E i \in S : x = db[i] /\ x \in Row
BY DEF Found, Rows

\* Going on to a step other than a removal or a move forgets nothing.
LEMMA StepShaped ==
    ASSUME NEW q \in Request, Shaped(q), NEW s \in Step \ {"remove", "move"}
    PROVE  Shaped([q EXCEPT !.step = s])
<1> DEFINE m == [q EXCEPT !.step = s]
<1>1. m \in Request /\ m.step = s
  BY DEF Request
<1>2. /\ m.op = q.op /\ m.path = q.path /\ m.id = q.id /\ m.file = q.file
      /\ m.linked = q.linked /\ m.flag = q.flag
  BY DEF Request
<1>3. q # Idle /\ m # Idle /\ s \notin {"remove", "move"}
  BY <1>1, Apart
<1> HIDE DEF m
<1>4. Shaped(m)
  BY <1>1, <1>2, <1>3 DEF Shaped
<1> QED
  BY <1>4 DEF m

-----------------------------------------------------------------------------
(* The database.                                                            *)

LEMMA SameDb == ASSUME IInv, db' = db PROVE GoodDb
<1>1. db' \in [Id -> Row \cup {Fresh, Gone}] /\ \A i \in Id : RowFits(db'[i])
  BY DEF IInv, TypeOK
<1>2. Kept
  BY DEF Kept
<1> QED
  BY <1>1, <1>2 DEF GoodDb

LEMMA RegisteredDb ==
    ASSUME IInv, NEW row \in Row, RowFits(row), Registered(row)
    PROVE  GoodDb
<1>1. db \in [Id -> Row \cup {Fresh, Gone}] /\ \A i \in Id : RowFits(db[i])
  BY DEF IInv, TypeOK
<1>2. PICK i \in Id : /\ db' = [db EXCEPT ![i] = row]
                      /\ db[i] = Fresh \/ on_conflict = "replace"
  BY DEF Registered, RowsAt, Rows
<1>3. db' \in [Id -> Row \cup {Fresh, Gone}] /\ \A j \in Id : RowFits(db'[j])
  BY <1>1, <1>2
<1>4. on_conflict = "reject" => Kept
  <2> SUFFICES ASSUME on_conflict = "reject" PROVE Kept
    OBVIOUS
  <2>1. db[i] = Fresh /\ \A j \in Id : j # i => db'[j] = db[j]
    BY <1>1, <1>2
  <2> QED
    BY <2>1 DEF Kept
<1> QED
  BY <1>3, <1>4 DEF GoodDb

LEMMA DeletedDb == ASSUME IInv, NEW S, Deleted(S) \/ DeleteFails(S) PROVE GoodDb
<1>1. CASE DeleteFails(S)
  BY <1>1, SameDb DEF DeleteFails
<1>2. CASE Deleted(S)
  <2>1. \A i \in Id : db'[i] = db[i] \/ db'[i] = Gone
    BY <1>2 DEF Deleted
  <2>2. db \in [Id -> Row \cup {Fresh, Gone}] /\ \A i \in Id : RowFits(db[i])
    BY DEF IInv, TypeOK
  <2>3. db' \in [Id -> Row \cup {Fresh, Gone}]
    BY <1>2, <2>2 DEF Deleted
  <2>4. \A i \in Id : RowFits(db'[i])
    BY <2>1, <2>2, Apart DEF RowFits
  <2>5. Kept
    BY <2>1, Apart DEF Kept
  <2> QED
    BY <2>3, <2>4, <2>5 DEF GoodDb
<1> QED
  BY <1>1, <1>2

-----------------------------------------------------------------------------
(* A step of one request.                                                   *)

LEMMA OneRequest ==
    ASSUME IInv, NEW r \in Req, NEW q, NEW risky \in BOOLEAN, Continue(r, q, risky),
           GoodDb, disk' \subseteq File, Shaped(q),
           on_conflict = "reject" => Remembers(q, db')
    PROVE  IInv'
<1>1. on_conflict' = on_conflict /\ req' = [req EXCEPT ![r] = q] /\ disturbed' \in BOOLEAN
  <2>1. disturbed' = (disturbed \/ risky \/ Overlap)
    BY DEF Continue
  <2> QED
    BY <2>1 DEF Continue
<1>2. \A s \in Req : Shaped(req[s]) /\ req \in [Req -> Request \cup {Idle}]
  BY DEF IInv, TypeOK
<1>3. req' \in [Req -> Request \cup {Idle}]
  BY <1>1, <1>2 DEF Shaped
<1>4. TypeOK'
  BY <1>1, <1>3 DEF IInv, TypeOK, GoodDb
<1>5. \A s \in Req : Shaped(req'[s])
  BY <1>1, <1>2
<1>6. \A i \in Id : RowFits(db[i])'
  BY <1>1 DEF GoodDb, RowFits
<1>7. ASSUME on_conflict = "reject", NEW s \in Req PROVE Remembers(req'[s], db')
  <2>1. CASE s = r
    BY <1>1, <1>2, <1>7, <2>1
  <2>2. CASE s # r
    <3>1. req'[s] = req[s] /\ Remembers(req[s], db) /\ Shaped(req[s]) /\ Kept
      BY <1>1, <1>2, <1>7, <2>2 DEF IInv, GoodDb
    <3> QED
      BY <3>1 DEF Remembers, Kept, Shaped
  <2> QED
    BY <2>1, <2>2
<1> QED
  BY <1>1, <1>4, <1>5, <1>6, <1>7 DEF IInv, Shaped, Remembers

LEMMA AnswerInv ==
    ASSUME IInv, NEW r \in Req, Answer(r) \/ AnswerError(r), GoodDb, disk' \subseteq File
    PROVE  IInv'
<1>1. Shaped(Idle) /\ Remembers(Idle, db')
  BY DEF Shaped, Remembers
<1>2. PICK risky \in BOOLEAN : Continue(r, Idle, risky)
  BY DEF Answer, AnswerError
<1> QED
  BY <1>1, <1>2, OneRequest

LEMMA GoToInv ==
    ASSUME IInv, NEW r \in Req, req[r] # Idle, NEW s \in Step \ {"remove", "move"},
           GoTo(r, s), GoodDb, disk' \subseteq File,
           req[r].op = "rename" => req[r].step = "move"
    PROVE  IInv'
<1> DEFINE q == req[r]
           m == [q EXCEPT !.step = s]
<1>1. q \in Request /\ Shaped(q)
  BY DEF IInv, TypeOK
<1>2. Shaped(m)
  BY <1>1, StepShaped
<1>3. m.op = q.op /\ m.id = q.id /\ m.linked = q.linked
  BY <1>1 DEF Request
<1>4. on_conflict = "reject" => Remembers(m, db')
  <2> SUFFICES ASSUME on_conflict = "reject", q.op = "rename" PROVE Remembers(m, db')
    BY <1>3 DEF Remembers
  <2>1. Remembers(q, db) /\ Kept
    BY DEF IInv, GoodDb
  <2>2. q.step = "move" /\ q.id \in Id
    BY <1>1 DEF Shaped
  <2> HIDE DEF m
  <2> QED
    BY <1>3, <2>1, <2>2 DEF Remembers, Kept
<1>5. Continue(r, m, FALSE)
  BY DEF GoTo
<1> HIDE DEF m
<1> QED
  BY <1>2, <1>4, <1>5, OneRequest

-----------------------------------------------------------------------------
(* The handlers.                                                            *)

\* A handler in the middle of a request.
LEMMA Running ==
    ASSUME IInv, NEW r \in Req, req[r] # Idle
    PROVE  /\ req[r] \in Request /\ Shaped(req[r])
           /\ req[r].op # "delete" => req[r].path \in Path
           /\ db \in [Id -> Row \cup {Fresh, Gone}] /\ disk \subseteq File
           /\ \A i \in Id : RowFits(db[i])
BY DEF IInv, TypeOK, Shaped

\* The request a client sends, whatever it asks for.
LEMMA ArgsShaped ==
    ASSUME NEW op \in Op, NEW p \in Path \cup {None}, NEW i \in Id \cup {None},
           NEW f \in File \cup {None}, NEW flag \in BOOLEAN,
           op # "delete" => p \in Path,
           op = "link" => f \in File,
           op = "rename" => i \in Id
    PROVE  Shaped(Args(op, p, i, f, flag)) /\ Remembers(Args(op, p, i, f, flag), db')
<1> DEFINE q == Args(op, p, i, f, flag)
<1>1. /\ q \in Request /\ q.step \in {"lookup", "stat"}
      /\ q.op = op /\ q.path = p /\ q.id = i /\ q.file = f
  BY DEF Args, Request, Step
<1> HIDE DEF q
<1>2. Shaped(q) /\ Remembers(q, db')
  BY <1>1 DEF Shaped, Remembers
<1> QED
  BY <1>2 DEF q

LEMMA ArriveInv == ASSUME IInv, NEW r \in Req, Arrive(r) PROVE IInv'
<1>1. GoodDb /\ disk' \subseteq File
  BY SameDb DEF Arrive, IInv, TypeOK
<1>2. PICK p \in Path, i \in Id, f \in File, flag \in BOOLEAN :
          \E q \in {Args("upload", p, None, None, flag), Args("link", p, None, f, FALSE),
                    Args("delete", None, i, None, flag), Args("delete_by_path", p, None, None, flag),
                    Args("rename", p, i, None, FALSE)} : Continue(r, q, FALSE)
  BY DEF Arrive
<1> DEFINE Good(q) == Shaped(q) /\ Remembers(q, db')
<1>3. /\ Good(Args("upload", p, None, None, flag))
      /\ Good(Args("link", p, None, f, FALSE))
      /\ Good(Args("delete", None, i, None, flag))
      /\ Good(Args("delete_by_path", p, None, None, flag))
      /\ Good(Args("rename", p, i, None, FALSE))
  BY ArgsShaped DEF Op
<1>4. PICK q : Good(q) /\ Continue(r, q, FALSE)
  <2> HIDE DEF Good
  <2> QED
    BY <1>2, <1>3
<1> QED
  BY <1>1, <1>4, OneRequest

LEMMA UploadInv ==
    ASSUME IInv, NEW r \in Req,
           \/ UploadLookup(r) \/ UploadRemoveOld(r) \/ UploadUnregisterOld(r) \/ UploadOpen(r)
           \/ UploadReceive(r) \/ UploadRegister(r) \/ UploadDiscard(r)
    PROVE  IInv'
<1> DEFINE q == req[r]
<1>1. req[r] # Idle /\ q.op = "upload"
  BY DEF UploadLookup, UploadRemoveOld, UploadUnregisterOld, UploadOpen, UploadReceive,
         UploadRegister, UploadDiscard, At
<1>2. q \in Request /\ Shaped(q) /\ q.path \in Path /\ q.path \in File /\ disk \subseteq File
  BY <1>1, Running DEF File
<1>3. CASE UploadLookup(r)
  <2>1. GoodDb /\ disk' \subseteq File
    BY <1>2, <1>3, SameDb DEF UploadLookup
  <2>2. PICK found \in Found(RowsAt(q.path)) :
          \/ found = Nothing /\ GoTo(r, "open")
          \/ found # Nothing /\ ~q.flag /\ Answer(r)
          \/ /\ found # Nothing /\ q.flag
             /\ Continue(r, [q EXCEPT !.step = "remove", !.file = found.file], found.linked)
    BY <1>3 DEF UploadLookup
  <2>3. CASE GoTo(r, "open")
    BY <1>1, <2>1, <2>3, GoToInv DEF Step
  <2>4. CASE Answer(r)
    BY <2>1, <2>4, AnswerInv
  <2>5. CASE /\ found # Nothing /\ q.flag
             /\ Continue(r, [q EXCEPT !.step = "remove", !.file = found.file], found.linked)
    <3> DEFINE m == [q EXCEPT !.step = "remove", !.file = found.file]
    <3>1. found \in Row /\ found.file \in File /\ found.linked \in BOOLEAN
      BY <2>5, FoundRow, RowFields DEF RowsAt
    <3>2. /\ m \in Request /\ m.op = "upload" /\ m.path \in Path /\ m.flag
      BY <1>1, <1>2, <2>5, <3>1 DEF Request, Step
    <3>3. Continue(r, m, found.linked)
      BY <2>5
    <3> HIDE DEF m
    <3>4. Shaped(m) /\ Remembers(m, db')
      BY <3>2 DEF Shaped, Remembers
    <3> QED
      BY <2>1, <3>1, <3>3, <3>4, OneRequest
  <2> QED
    BY <2>2, <2>3, <2>4, <2>5
<1>4. CASE UploadRemoveOld(r)
  <2>1. GoodDb /\ disk' \subseteq File
    BY <1>2, <1>4, SameDb DEF UploadRemoveOld
  <2> QED
    BY <1>1, <1>4, <2>1, GoToInv DEF UploadRemoveOld, Step
<1>5. CASE UploadUnregisterOld(r)
  <2>1. GoodDb /\ disk' \subseteq File
    BY <1>2, <1>5, DeletedDb DEF UploadUnregisterOld
  <2> QED
    BY <1>1, <1>5, <2>1, GoToInv DEF UploadUnregisterOld, Step
<1>6. CASE UploadOpen(r)
  <2>1. GoodDb /\ disk' \subseteq File
    BY <1>2, <1>6, SameDb DEF UploadOpen
  <2>2. CASE AnswerError(r)
    BY <2>1, <2>2, AnswerInv
  <2>3. CASE Continue(r, [q EXCEPT !.step = "receive", !.file = q.path], FALSE)
    <3> DEFINE m == [q EXCEPT !.step = "receive", !.file = q.path]
    <3>1. m \in Request /\ m.op = "upload" /\ m.path \in Path /\ m.step = "receive"
      BY <1>1, <1>2 DEF Request, Step
    <3>2. Continue(r, m, FALSE)
      BY <2>3
    <3> HIDE DEF m
    <3>3. Shaped(m) /\ Remembers(m, db')
      BY <3>1 DEF Shaped, Remembers
    <3> QED
      BY <2>1, <3>2, <3>3, OneRequest
  <2> QED
    BY <1>6, <2>2, <2>3 DEF UploadOpen
<1>7. CASE UploadReceive(r)
  <2>1. GoodDb /\ disk' \subseteq File
    BY <1>2, <1>7, SameDb DEF UploadReceive
  <2>2. CASE GoTo(r, "register")
    BY <1>1, <2>1, <2>2, GoToInv DEF Step
  <2>3. CASE AnswerError(r)
    BY <2>1, <2>3, AnswerInv
  <2> QED
    BY <1>7, <2>2, <2>3 DEF UploadReceive
<1>8. CASE UploadRegister(r)
  <2> DEFINE row == [path |-> q.path, file |-> q.path, linked |-> FALSE]
  <2>1. row \in Row /\ RowFits(row)
    BY <1>2 DEF Row, RowFits
  <2>2. disk' \subseteq File
    BY <1>2, <1>8 DEF UploadRegister
  <2>3. \/ Registered(row) /\ Answer(r)
        \/ RegisterFails(row) /\ GoTo(r, "discard")
    BY <1>8 DEF UploadRegister
  <2> HIDE DEF row
  <2>4. CASE Registered(row) /\ Answer(r)
    BY <2>1, <2>2, <2>4, RegisteredDb, AnswerInv
  <2>5. CASE RegisterFails(row) /\ GoTo(r, "discard")
    <3>1. GoodDb
      BY <2>5, SameDb DEF RegisterFails
    <3> QED
      BY <1>1, <2>2, <2>5, <3>1, GoToInv DEF Step
  <2> QED
    BY <2>3, <2>4, <2>5
<1>9. CASE UploadDiscard(r)
  <2>1. GoodDb /\ disk' \subseteq File
    BY <1>2, <1>9, SameDb DEF UploadDiscard
  <2> QED
    BY <1>9, <2>1, AnswerInv DEF UploadDiscard
<1> QED
  BY <1>3, <1>4, <1>5, <1>6, <1>7, <1>8, <1>9

LEMMA LinkInv == ASSUME IInv, NEW r \in Req, LinkStat(r) \/ LinkRegister(r) PROVE IInv'
<1> DEFINE q == req[r]
<1>1. req[r] # Idle /\ q.op = "link"
  BY DEF LinkStat, LinkRegister, At
<1>2. q \in Request /\ q.path \in Path /\ q.file \in File /\ disk \subseteq File
  BY <1>1, Running DEF Shaped
<1>3. CASE LinkStat(r)
  <2>1. GoodDb /\ disk' \subseteq File
    BY <1>2, <1>3, SameDb DEF LinkStat
  <2>2. GoTo(r, "register") \/ Answer(r)
    BY <1>3 DEF LinkStat
  <2>3. CASE GoTo(r, "register")
    BY <1>1, <2>1, <2>3, GoToInv DEF Step
  <2>4. CASE Answer(r)
    BY <2>1, <2>4, AnswerInv
  <2> QED
    BY <2>2, <2>3, <2>4
<1>4. CASE LinkRegister(r)
  <2> DEFINE row == [path |-> q.path, file |-> q.file, linked |-> TRUE]
  <2>1. row \in Row /\ RowFits(row)
    BY <1>2 DEF Row, RowFits
  <2>2. disk' \subseteq File
    BY <1>2, <1>4 DEF LinkRegister
  <2>3. (Registered(row) /\ Answer(r)) \/ (RegisterFails(row) /\ AnswerError(r))
    BY <1>4 DEF LinkRegister
  <2> HIDE DEF row
  <2>4. GoodDb
    BY <2>1, <2>3, RegisteredDb, SameDb DEF RegisterFails
  <2> QED
    BY <2>2, <2>3, <2>4, AnswerInv
<1> QED
  BY <1>3, <1>4

LEMMA DeleteInv ==
    ASSUME IInv, NEW r \in Req, DeleteLookup(r) \/ DeleteRemove(r) \/ DeleteUnregister(r)
    PROVE  IInv'
<1> DEFINE q == req[r]
<1>1. req[r] # Idle /\ q.op \in {"delete", "delete_by_path"}
  BY DEF DeleteLookup, DeleteRemove, DeleteUnregister, DeleteAt, At
<1>2. q \in Request /\ Shaped(q) /\ disk \subseteq File /\ \A i \in Id : RowFits(db[i])
  BY <1>1, Running
<1>3. CASE DeleteLookup(r)
  <2>1. GoodDb /\ disk' \subseteq File
    BY <1>2, <1>3, SameDb DEF DeleteLookup
  <2>2. CASE GoTo(r, "unregister")
    BY <1>1, <2>1, <2>2, GoToInv DEF Step
  <2>3. ASSUME NEW found \in Found(Chosen(q)), found # Nothing, ~found.linked,
               Continue(r, [q EXCEPT !.step = "remove", !.file = found.file], FALSE)
        PROVE  IInv'
    <3> DEFINE m == [q EXCEPT !.step = "remove", !.file = found.file]
    <3>1. PICK i \in Rows : found = db[i] /\ found \in Row
      BY <2>3, FoundRow DEF Chosen, RowsAt
    <3>2. found.file \in Path
      BY <1>2, <2>3, <3>1 DEF RowFits, Rows
    <3>3. /\ m \in Request /\ m.op = q.op /\ m.path = q.path /\ m.file \in Path
      BY <1>2, <3>2 DEF Request, Step, File
    <3>4. Continue(r, m, FALSE)
      BY <2>3
    <3> HIDE DEF m
    <3>5. q # Idle /\ (q.op # "delete" => q.path \in Path)
      BY <1>1, <1>2 DEF Shaped
    <3>6. Shaped(m) /\ Remembers(m, db')
      BY <1>1, <3>3, <3>5 DEF Shaped, Remembers
    <3> QED
      BY <2>1, <3>4, <3>6, OneRequest
  <2> QED
    BY <1>3, <2>2, <2>3 DEF DeleteLookup
<1>4. CASE DeleteRemove(r)
  <2>1. GoodDb /\ disk' \subseteq File
    BY <1>2, <1>4, SameDb DEF DeleteRemove
  <2> QED
    BY <1>1, <1>4, <2>1, GoToInv DEF DeleteRemove, Step
<1>5. CASE DeleteUnregister(r)
  <2>1. GoodDb /\ disk' \subseteq File
    BY <1>2, <1>5, DeletedDb DEF DeleteUnregister
  <2> QED
    BY <1>5, <2>1, AnswerInv DEF DeleteUnregister
<1> QED
  BY <1>3, <1>4, <1>5

LEMMA RenameInv ==
    ASSUME IInv, NEW r \in Req, RenameLookup(r) \/ RenameMove(r) \/ RenameUpdate(r)
    PROVE  IInv'
<1> DEFINE q == req[r]
<1>1. req[r] # Idle /\ q.op = "rename"
  BY DEF RenameLookup, RenameMove, RenameUpdate, At
<1>2. /\ q \in Request /\ Shaped(q) /\ q.path \in Path /\ q.id \in Id /\ disk \subseteq File
      /\ db \in [Id -> Row \cup {Fresh, Gone}] /\ \A i \in Id : RowFits(db[i])
  BY <1>1, Running DEF Shaped
<1>3. CASE RenameLookup(r)
  <2>1. GoodDb /\ disk' \subseteq File /\ db' = db
    BY <1>2, <1>3, SameDb DEF RenameLookup
  <2>2. CASE Answer(r)
    BY <2>1, <2>2, AnswerInv
  <2>3. ASSUME NEW found \in Found({q.id} \cap Rows), found # Nothing,
               Continue(r, [q EXCEPT !.step = "move", !.file = found.file,
                                     !.linked = found.linked], FALSE)
        PROVE  IInv'
    <3> DEFINE m == [q EXCEPT !.step = "move", !.file = found.file, !.linked = found.linked]
    <3>1. q.id \in Rows /\ found = db[q.id] /\ found \in Row
      BY <2>3, FoundRow
    <3>2. found.file \in File /\ found.linked \in BOOLEAN /\ (~found.linked => found.file \in Path)
      BY <1>2, <3>1, RowFields DEF RowFits
    <3>3. /\ m \in Request /\ m.op = "rename" /\ m.step = "move" /\ m.path \in Path
          /\ m.id = q.id /\ m.file = found.file /\ m.linked = found.linked
      BY <1>1, <1>2, <3>2 DEF Request, Step
    <3>4. Continue(r, m, FALSE)
      BY <2>3
    <3> HIDE DEF m
    <3>5. Shaped(m)
      BY <1>2, <3>2, <3>3 DEF Shaped
    <3>6. Remembers(m, db')
      BY <2>1, <3>1, <3>3, Apart DEF Remembers
    <3> QED
      BY <2>1, <3>4, <3>5, <3>6, OneRequest
  <2> QED
    BY <1>3, <2>2, <2>3 DEF RenameLookup
<1>4. CASE RenameMove(r)
  <2>1. GoodDb /\ disk' \subseteq File
    BY <1>2, <1>4, SameDb DEF RenameMove, File
  <2>2. q.step = "move"
    BY <1>4 DEF RenameMove, At
  <2>3. GoTo(r, "register") \/ AnswerError(r)
    BY <1>4 DEF RenameMove
  <2> QED
    BY <1>1, <2>1, <2>2, <2>3, GoToInv, AnswerInv DEF Step
<1>5. CASE RenameUpdate(r)
  <2> DEFINE i == q.id
             file == IF q.linked THEN db[i].file ELSE q.path
             row == [db[i] EXCEPT !.path = q.path, !.file = file]
  <2>1. disk' \subseteq File
    BY <1>2, <1>5 DEF RenameUpdate
  <2>2. CASE AnswerError(r) /\ UNCHANGED db
    BY <2>1, <2>2, SameDb, AnswerInv
  <2>3. CASE i \in Rows /\ db' = [db EXCEPT ![i].path = q.path,
                                            ![i].file = IF q.linked THEN @ ELSE q.path]
    <3>1. db[i] \in Row
      BY <2>3 DEF Rows
    <3>2. row \in Row /\ row.path = q.path /\ row.file = file /\ row.linked = db[i].linked
      BY <1>2, <3>1 DEF Row, File
    <3>3. db' = [db EXCEPT ![i] = row]
      BY <1>2, <2>3
    <3> HIDE DEF row
    <3>4. q.step = "register"
      BY <1>5 DEF RenameUpdate, At
    <3>5. on_conflict = "reject" => db[i].linked = q.linked
      BY <1>1, <3>1, <3>4 DEF IInv, Remembers
    <3>6. db[i].linked \in BOOLEAN /\ q.linked \in BOOLEAN
      BY <1>2, <3>1 DEF Row, Request
    <3>7. RowFits(row)
      BY <1>2, <3>1, <3>2, <3>5, <3>6 DEF RowFits
    <3>8. db' \in [Id -> Row \cup {Fresh, Gone}] /\ \A j \in Id : RowFits(db'[j])
      BY <1>2, <3>2, <3>3, <3>7
    <3>9. Kept
      BY <1>2, <3>1, <3>2, <3>3, Apart DEF Kept
    <3>10. GoodDb
      BY <3>8, <3>9 DEF GoodDb
    <3>11. Answer(r) \/ AnswerError(r)
      BY <1>5 DEF RenameUpdate
    <3> QED
      BY <2>1, <3>10, <3>11, AnswerInv
  <2> QED
    BY <1>5, <2>2, <2>3 DEF RenameUpdate
<1> QED
  BY <1>3, <1>4, <1>5

-----------------------------------------------------------------------------
(* The invariant and the theorems.                                          *)

LEMMA InitInv == Init => IInv
<1> SUFFICES ASSUME Init PROVE IInv
  OBVIOUS
<1>1. \A i \in Id : db[i] = Fresh
  BY DEF Init
<1>2. \A r \in Req : req[r] = Idle
  BY DEF Init
<1>3. TypeOK
  BY DEF Init, TypeOK, File
<1> QED
  BY <1>1, <1>2, <1>3, Apart DEF IInv, Shaped, RowFits, Remembers

LEMMA NextInv == IInv /\ [Next]_vars => IInv'
<1> SUFFICES ASSUME IInv, [Next]_vars PROVE IInv'
  OBVIOUS
<1>1. CASE UNCHANGED vars
  <2>1. db' = db /\ disk' = disk /\ req' = req /\ on_conflict' = on_conflict
        /\ disturbed' = disturbed
    BY <1>1 DEF vars
  <2> QED
    BY <2>1 DEF IInv, TypeOK, RowFits
<1>2. CASE Next
  BY <1>2, ArriveInv, UploadInv, LinkInv, DeleteInv, RenameInv DEF Next, Handle
<1> QED
  BY <1>1, <1>2

\* The invariant holds in every reachable state.
LEMMA Invariant == Spec => []IInv
<1>1. Init => IInv
  BY InitInv
<1>2. IInv /\ [Next]_vars => IInv'
  BY NextInv
<1> QED
  BY <1>1, <1>2, PTL DEF Spec

\* The handlers never write a row without a path and a file.
THEOREM TypeCorrect == Spec => []TypeOK
<1>1. IInv => TypeOK
  BY DEF IInv
<1> QED
  BY <1>1, Invariant, PTL

\* An uploaded entry names the storage file of its own path through every
\* interleaving of uploads, links, deletes and renames, where the table
\* refuses a path that is taken.
THEOREM EntriesOwnTheirFiles == Spec => []UploadedEntryOwnsFile
<1>1. IInv => UploadedEntryOwnsFile
  BY DEF IInv, UploadedEntryOwnsFile, RowFits, Rows
<1> QED
  BY <1>1, Invariant, PTL

\* Deletes and renames never remove a file outside the storage directory;
\* only an upload that asked to overwrite can.
THEOREM OnlyOverwritesLoseOriginals == Spec => OriginalsLostToOverwrite
<1>1. IInv /\ [Next]_vars =>
          [\A f \in Original : f \in disk /\ f \notin disk'
              => \E r \in Req : At(r, "upload", "remove") /\ req[r].flag]_vars
  <2> SUFFICES ASSUME IInv, Next, NEW f \in Original, f \in disk, f \notin disk'
               PROVE  \E r \in Req : At(r, "upload", "remove") /\ req[r].flag
    BY DEF vars
  <2>1. PICK r \in Req : Arrive(r) \/ Handle(r)
    BY DEF Next
  <2>2. f \notin Path
    BY FileAssumption
  <2>3. req[r] # Idle => req[r] \in Request /\ Shaped(req[r])
    BY Running
  <2>4. CASE UploadRemoveOld(r)
    <3>1. At(r, "upload", "remove")
      BY <2>4 DEF UploadRemoveOld
    <3> QED
      BY <2>3, <3>1 DEF At, Shaped
  <2>5. CASE UploadOpen(r) \/ UploadReceive(r) \/ UploadDiscard(r)
    <3>1. req[r] # Idle /\ req[r].op = "upload"
      BY <2>5 DEF UploadOpen, UploadReceive, UploadDiscard, At
    <3>2. req[r].path # f
      BY <2>2, <2>3, <3>1 DEF Shaped
    <3> QED
      BY <2>5, <3>2 DEF UploadOpen, UploadReceive, UploadDiscard
  <2>6. CASE DeleteRemove(r)
    <3>1. /\ req[r] # Idle /\ req[r].op \in {"delete", "delete_by_path"}
          /\ req[r].step = "remove" /\ disk' = disk \ {req[r].file}
      BY <2>6 DEF DeleteRemove, DeleteAt, At
    <3> QED
      BY <2>2, <2>3, <3>1 DEF Shaped
  <2>7. CASE RenameMove(r)
    <3>1. req[r] # Idle /\ req[r].op = "rename" /\ req[r].step = "move"
      BY <2>7 DEF RenameMove, At
    <3>2. ~req[r].linked /\ disk' = (disk \ {req[r].file}) \cup {req[r].path}
      BY <2>7 DEF RenameMove
    <3> QED
      BY <2>2, <2>3, <3>1, <3>2 DEF Shaped
  <2>8. CASE disk' = disk
    BY <2>8
  <2> QED
    BY <2>1, <2>4, <2>5, <2>6, <2>7, <2>8
       DEF Handle, Arrive, UploadLookup, UploadUnregisterOld, UploadRegister, LinkStat,
           LinkRegister, DeleteLookup, DeleteUnregister, RenameLookup, RenameUpdate
<1> QED
  BY <1>1, Invariant, PTL DEF Spec, OriginalsLostToOverwrite

-----------------------------------------------------------------------------
(* Nothing is lost silently: the invariant.                                 *)

Uploaded(i) == i \in Rows /\ ~db[i].linked

\* A path has one row, and an uploaded one names the file of its path.
Owned ==
    /\ \A i \in Id : Uploaded(i) => db[i].file = db[i].path
    /\ \A i, j \in Rows : db[i].path = db[j].path => i = j

\* What a request read still holds: the file it is about to remove or to move
\* is that of the entry it works on, and the file it is about to register is
\* on disk.
Deletes(q) == q.op \in {"delete", "delete_by_path"}
Memory(q) ==
    /\ q.op = "upload" /\ q.step = "remove" => q.file = q.path
    /\ q.op = "upload" /\ q.step \in {"receive", "register", "discard"} => q.path \in disk
    /\ Deletes(q) /\ q.step = "remove" =>
          \A i \in Id : Uploaded(i) /\ db[i].file = q.file => i \in Chosen(q)
    /\ q.op = "rename" /\ q.step \in {"move", "register"} =>
          /\ db[q.id] # Fresh
          /\ q.id \in Rows => db[q.id].linked = q.linked /\ (~q.linked => db[q.id].file = q.file)
    /\ q.op = "rename" /\ q.step = "move" /\ ~q.linked =>
          \A i \in Id : Uploaded(i) /\ db[i].file = q.file => i = q.id
    /\ q.op = "rename" /\ q.step = "register" /\ ~q.linked /\ q.id \in Rows => q.path \in disk

\* The request that took the file of entry i will take the entry, or give it
\* a file again.
InCharge(q, i) ==
    /\ q # Idle
    /\ \/ q.op = "upload" /\ q.step \in {"unregister", "open"} /\ q.path = db[i].path
       \/ Deletes(q) /\ q.step = "unregister" /\ i \in Chosen(q)
       \/ q.op = "rename" /\ q.step = "register" /\ q.id = i

Accounted ==
    /\ Owned
    /\ \A r \in Req : req[r] # Idle => Memory(req[r])
    /\ \A i \in Dangling : \E r \in Req : InCharge(req[r], i)

NothingLost == ~disturbed => Accounted

\* A step of s touches the rows and the files it names, and no other.
Local(s) ==
    /\ \A i \in Id : db'[i] # db[i] =>
          /\ db[i] \in Row => db[i].path \in Names(req[s])
          /\ db'[i] \in Row => db'[i].path \in Names(req[s])
          /\ db[i] # Gone /\ db'[i] # Fresh
    /\ \A f : f \in Names(req[s]) \/ (f \in disk <=> f \in disk')

-----------------------------------------------------------------------------
(* Requests that do not overlap leave each other alone.                     *)

\* The path, the file and the row of a request are what it names.
LEMMA NamesOf ==
    ASSUME IInv, NEW r \in Req, req[r] # Idle
    PROVE  /\ req[r].path \in Path => req[r].path \in Names(req[r])
           /\ req[r].file \in File => req[r].file \in Names(req[r])
           /\ req[r].id \in Rows => db[req[r].id].path \in Names(req[r])
<1> DEFINE q == req[r]
<1>1. Names(q) = ({q.path, q.file} \cup {db[i].path : i \in {q.id} \cap Rows}) \ {None}
  BY DEF Names
<1>2. q.id \in Rows => db[q.id].path \in Path
  BY RowFields DEF Rows
<1>3. None \notin Path /\ None \notin File
  BY NoneAssumption DEF File
<1> HIDE DEF q
<1> QED
  BY <1>1, <1>2, <1>3 DEF q

\* A step that goes on undisturbed was not risky and met no overlap.
LEMMA Goes ==
    ASSUME NEW s \in Req, NEW q, NEW risky \in BOOLEAN, Continue(s, q, risky), IInv
    PROVE  /\ req' = [req EXCEPT ![s] = q] /\ req'[s] = q
           /\ \A r \in Req \ {s} : req'[r] = req[r]
           /\ ~disturbed' => ~disturbed /\ ~risky /\ ~Overlap
<1>1. req' = [req EXCEPT ![s] = q] /\ disturbed' = (disturbed \/ risky \/ Overlap)
  BY DEF Continue
<1>2. req \in [Req -> Request \cup {Idle}]
  BY DEF IInv, TypeOK
<1> QED
  BY <1>1, <1>2

\* The same of the next step of a handler.
LEMMA GoesTo ==
    ASSUME NEW s \in Req, NEW step, GoTo(s, step), IInv
    PROVE  /\ req'[s] = [req[s] EXCEPT !.step = step]
           /\ \A r \in Req \ {s} : req'[r] = req[r]
           /\ ~disturbed' => ~disturbed /\ ~Overlap
BY Goes DEF GoTo

\* The same of an answer; one with an error disturbs.
LEMMA Answers ==
    ASSUME NEW s \in Req, Answer(s) \/ AnswerError(s), IInv
    PROVE  /\ req'[s] = Idle
           /\ \A r \in Req \ {s} : req'[r] = req[r]
           /\ ~disturbed' => ~disturbed /\ ~Overlap /\ ~AnswerError(s)
<1>1. CASE Answer(s) /\ ~AnswerError(s)
  BY <1>1, Goes DEF Answer
<1>2. CASE AnswerError(s)
  BY <1>2, Goes DEF AnswerError
<1> QED
  BY <1>1, <1>2

\* A step of s leaves what r names as it is.
LEMMA Untouched ==
    ASSUME IInv, NEW s \in Req, NEW r \in Req \ {s}, req'[r] = req[r], ~Overlap, Local(s)
    PROVE  /\ req'[r] = req[r]
           /\ \A i \in Id : \/ db[i] \in Row /\ db[i].path \in Names(req[r])
                            \/ db'[i] \in Row /\ db'[i].path \in Names(req[r])
                            => db'[i] = db[i]
           /\ \A i \in Id : (db[i] # Fresh => db'[i] # Fresh) /\ (db[i] = Gone => db'[i] = Gone)
           /\ \A f \in Names(req[r]) : f \in disk <=> f \in disk'
<1>1. Names(req[r]) \cap Names(req[s]) = {}
  BY DEF Overlap
<1> QED
  BY <1>1 DEF Local

\* What request r remembers, a step of s leaves true.
LEMMA OthersRemember ==
    ASSUME IInv, NEW s \in Req, NEW r \in Req \ {s}, req'[r] = req[r], ~Overlap, Local(s),
           Owned', req[r] # Idle, Memory(req[r])
    PROVE  Memory(req[r])'
<1> DEFINE q == req[r]
<1>1. /\ q' = q
      /\ \A i \in Id : \/ db[i] \in Row /\ db[i].path \in Names(q)
                       \/ db'[i] \in Row /\ db'[i].path \in Names(q)
                       => db'[i] = db[i]
      /\ \A i \in Id : (db[i] # Fresh => db'[i] # Fresh) /\ (db[i] = Gone => db'[i] = Gone)
      /\ \A f \in Names(q) : f \in disk <=> f \in disk'
  BY Untouched
<1>2. /\ q.path \in Path => q.path \in Names(q)
      /\ q.file \in File => q.file \in Names(q)
      /\ q.id \in Rows => db[q.id].path \in Names(q)
  BY NamesOf
<1>3. /\ q \in Request /\ Shaped(q) /\ q # Idle
  BY Running
<1> HIDE DEF q
<1>4. ASSUME NEW i \in Id, Uploaded(i)', db'[i].file = q.file, q.file \in File
      PROVE  db'[i] = db[i] /\ Uploaded(i)
  <2>1. db'[i] \in Row /\ ~db'[i].linked /\ db'[i].path \in Names(q)
    BY <1>2, <1>4 DEF Owned, Uploaded, Rows
  <2>2. db'[i] = db[i]
    BY <1>1, <2>1
  <2> QED
    BY <2>1, <2>2 DEF Uploaded, Rows
<1>5. ASSUME q.id \in Id, db[q.id] # Fresh, (q.id \in Rows)'
      PROVE  q.id \in Rows /\ db'[q.id] = db[q.id]
  <2>1. CASE q.id \in Rows
    BY <1>1, <1>2, <2>1 DEF Rows
  <2>2. CASE q.id \notin Rows
    <3>1. db[q.id] = Gone
      BY <1>3, <1>5, <2>2, Running DEF Rows
    <3> QED
      BY <1>1, <1>5, <3>1, Apart DEF Rows
  <2> QED
    BY <2>1, <2>2
<1>6. q.op \in Op /\ (q.op # "delete" => q.path \in Path)
  BY <1>3 DEF Shaped, Request
<1>7. \A i \in Id : i \in Chosen(q) /\ db'[i] = db[i] => (i \in Chosen(q))'
  BY <1>1 DEF Chosen, Rows, RowsAt, q
<1>8. Memory(q)
  BY DEF q
<1> SUFFICES Memory(q)'
  BY DEF q
<1>9. CASE q.op = "upload"
  <2>1. q.path \in disk <=> q.path \in disk'
    BY <1>1, <1>2, <1>6, <1>9
  <2> QED
    BY <1>1, <1>8, <1>9, <2>1 DEF Memory, Deletes
<1>10. CASE Deletes(q)
  <2>1. q.step = "remove" => q.file \in File
    BY <1>3, <1>10 DEF Shaped, Deletes, File
  <2>2. ASSUME q.step = "remove", NEW i \in Id, Uploaded(i)', db'[i].file = q.file
        PROVE  (i \in Chosen(q))'
    BY <1>4, <1>7, <1>8, <1>10, <2>1, <2>2 DEF Memory
  <2> QED
    BY <1>1, <1>10, <2>2 DEF Memory, Deletes
<1>11. CASE q.op = "rename"
  <2>1. q.id \in Id /\ (q.path \in disk <=> q.path \in disk')
    BY <1>1, <1>2, <1>3, <1>6, <1>11 DEF Shaped
  <2>2. q.step = "move" /\ ~q.linked => q.file \in File
    BY <1>3, <1>11 DEF Shaped, File
  <2>3. ASSUME q.step \in {"move", "register"}
        PROVE  /\ db'[q.id] # Fresh
               /\ (q.id \in Rows)' => q.id \in Rows /\ db'[q.id] = db[q.id]
    BY <1>1, <1>5, <1>8, <1>11, <2>1, <2>3 DEF Memory
  <2>4. ASSUME q.step = "move", ~q.linked, NEW i \in Id, Uploaded(i)', db'[i].file = q.file
        PROVE  i = q.id
    BY <1>4, <1>8, <1>11, <2>2, <2>4 DEF Memory
  <2> QED
    BY <1>1, <1>8, <1>11, <2>1, <2>3, <2>4 DEF Memory, Deletes
<1>12. CASE q.op = "link"
  BY <1>1, <1>12 DEF Memory, Deletes
<1> QED
  BY <1>6, <1>9, <1>10, <1>11, <1>12 DEF Op, Deletes

\* Who is in charge of an entry names its path.
LEMMA ChargeNames ==
    ASSUME IInv, NEW r \in Req, NEW i \in Id, i \in Rows, InCharge(req[r], i)
    PROVE  db[i].path \in Names(req[r])
<1>1. req[r] # Idle /\ db[i].path \in Path
  BY RowFields DEF InCharge, Rows
<1> QED
  BY <1>1, NamesOf DEF InCharge, Chosen, Deletes, RowsAt

\* An entry that r is in charge of, it still is after a step of s.
LEMMA OthersCharge ==
    ASSUME IInv, NEW s \in Req, NEW r \in Req \ {s}, req'[r] = req[r], ~Overlap, Local(s),
           NEW i \in Id, i \in Rows, (i \in Rows)', InCharge(req[r], i)
    PROVE  InCharge(req[r], i)'
<1> DEFINE q == req[r]
<1>1. db[i] \in Row
  BY DEF Rows
<1>2. db[i].path \in Names(q)
  BY ChargeNames
<1>3. q' = q /\ db'[i] = db[i]
  BY <1>1, <1>2, Untouched
<1>4. InCharge(q, i)
  OBVIOUS
<1> HIDE DEF q
<1> QED
  BY <1>3, <1>4 DEF InCharge, Deletes, Chosen, Rows, RowsAt, q

-----------------------------------------------------------------------------
(* What a step touches.                                                     *)

LEMMA RegisteredLocal ==
    ASSUME IInv, NEW s \in Req, NEW row \in Row, Registered(row),
           row.path \in Names(req[s]), disk' = disk
    PROVE  Local(s)
<1>1. db \in [Id -> Row \cup {Fresh, Gone}]
  BY DEF IInv, TypeOK
<1>2. PICK i \in Id : /\ db' = [db EXCEPT ![i] = row]
                      /\ db[i] = Fresh \/ i \in RowsAt(row.path)
  BY DEF Registered, RowsAt, Rows
<1>3. db'[i] = row /\ \A j \in Id \ {i} : db'[j] = db[j]
  BY <1>1, <1>2
<1>4. db[i] # Gone /\ (db[i] \in Row => db[i].path \in Names(req[s]))
  BY <1>2, Apart DEF RowsAt, Rows
<1> QED
  BY <1>3, <1>4, Apart DEF Local

LEMMA DeletedLocal ==
    ASSUME IInv, NEW s \in Req, NEW S, S \subseteq Rows, Deleted(S) \/ DeleteFails(S),
           \A i \in S : db[i].path \in Names(req[s]), disk' = disk
    PROVE  Local(s)
<1>1. \A i \in Id : db'[i] = db[i] \/ (i \in S /\ db'[i] = Gone)
  BY DEF Deleted, DeleteFails
<1> QED
  BY <1>1, Apart DEF Local, Rows

LEMMA DiskLocal ==
    ASSUME NEW s \in Req, db' = db,
           \A f : f \in Names(req[s]) \/ (f \in disk <=> f \in disk')
    PROVE  Local(s)
BY DEF Local

LEMMA UploadLocal ==
    ASSUME IInv, NEW s \in Req,
           \/ UploadLookup(s) \/ UploadRemoveOld(s) \/ UploadUnregisterOld(s) \/ UploadOpen(s)
           \/ UploadReceive(s) \/ UploadRegister(s) \/ UploadDiscard(s)
    PROVE  Local(s)
<1> DEFINE q == req[s]
<1>1. q # Idle /\ q.op = "upload"
  BY DEF UploadLookup, UploadRemoveOld, UploadUnregisterOld, UploadOpen, UploadReceive,
         UploadRegister, UploadDiscard, At
<1>2. q.path \in Path /\ q.path \in Names(q)
  BY <1>1, Running, NamesOf
<1>3. CASE UploadRemoveOld(s)
  <2>1. disk' = disk \ {q.file} /\ db' = db /\ disk \subseteq File
    BY <1>1, <1>3, Running DEF UploadRemoveOld
  <2>2. q.file \in Names(q) \/ q.file \notin disk
    BY <1>1, <2>1, NamesOf
  <2> QED
    BY <2>1, <2>2, DiskLocal
<1>4. CASE UploadUnregisterOld(s)
  BY <1>2, <1>4, DeletedLocal DEF UploadUnregisterOld, RowsAt
<1>5. CASE UploadRegister(s)
  <2> DEFINE row == [path |-> q.path, file |-> q.path, linked |-> FALSE]
  <2>1. row \in Row /\ row.path = q.path /\ disk' = disk
    BY <1>2, <1>5 DEF Row, File, UploadRegister
  <2>2. Registered(row) \/ db' = db
    BY <1>5 DEF UploadRegister, RegisterFails
  <2> HIDE DEF row
  <2> QED
    BY <1>2, <2>1, <2>2, RegisteredLocal, DiskLocal
<1>6. CASE UploadLookup(s) \/ UploadOpen(s) \/ UploadReceive(s) \/ UploadDiscard(s)
  BY <1>2, <1>6, DiskLocal DEF UploadLookup, UploadOpen, UploadReceive, UploadDiscard
<1> QED
  BY <1>3, <1>4, <1>5, <1>6

LEMMA DeleteLocal ==
    ASSUME IInv, NEW s \in Req, DeleteLookup(s) \/ DeleteRemove(s) \/ DeleteUnregister(s)
    PROVE  Local(s)
<1> DEFINE q == req[s]
<1>1. q # Idle /\ q.op \in {"delete", "delete_by_path"}
  BY DEF DeleteLookup, DeleteRemove, DeleteUnregister, DeleteAt, At
<1>2. CASE DeleteLookup(s)
  BY <1>2, DiskLocal DEF DeleteLookup
<1>3. CASE DeleteRemove(s)
  <2>1. disk' = disk \ {q.file} /\ db' = db /\ disk \subseteq File
    BY <1>1, <1>3, Running DEF DeleteRemove
  <2>2. q.file \in Names(q) \/ q.file \notin disk
    BY <1>1, <2>1, NamesOf
  <2> QED
    BY <2>1, <2>2, DiskLocal
<1>4. CASE DeleteUnregister(s)
  <2>1. Chosen(q) \subseteq Rows
    BY DEF Chosen, RowsAt
  <2>2. q.op # "delete" => q.path \in Names(q)
    BY <1>1, Running, NamesOf
  <2>3. \A i \in Chosen(q) : db[i].path \in Names(q)
    BY <1>1, <2>2, NamesOf DEF Chosen, RowsAt
  <2> QED
    BY <1>4, <2>1, <2>3, DeletedLocal DEF DeleteUnregister
<1> QED
  BY <1>2, <1>3, <1>4

LEMMA RenameLocal ==
    ASSUME IInv, NEW s \in Req, RenameLookup(s) \/ RenameMove(s) \/ RenameUpdate(s)
    PROVE  Local(s)
<1> DEFINE q == req[s]
<1>1. q # Idle /\ q.op = "rename"
  BY DEF RenameLookup, RenameMove, RenameUpdate, At
<1>2. q.path \in Path /\ q.path \in Names(q) /\ q.id \in Id /\ disk \subseteq File
  BY <1>1, Running, NamesOf DEF Shaped
<1>3. CASE RenameLookup(s)
  BY <1>3, DiskLocal DEF RenameLookup
<1>4. CASE RenameMove(s)
  <2>1. q.file \in Names(q) \/ q.file \notin disk
    BY <1>1, <1>2, NamesOf
  <2> QED
    BY <1>2, <1>4, <2>1, DiskLocal DEF RenameMove
<1>5. CASE RenameUpdate(s)
  <2>1. disk' = disk /\ (db' = db \/ (q.id \in Rows /\
          db' = [db EXCEPT ![q.id].path = q.path,
                           ![q.id].file = IF q.linked THEN @ ELSE q.path]))
    BY <1>5 DEF RenameUpdate
  <2>2. CASE db' = db
    BY <2>1, <2>2, DiskLocal
  <2>3. CASE q.id \in Rows /\ db' # db
    <3> DEFINE row == [db[q.id] EXCEPT !.path = q.path,
                                       !.file = IF q.linked THEN db[q.id].file ELSE q.path]
    <3>1. db[q.id] \in Row /\ db \in [Id -> Row \cup {Fresh, Gone}]
      BY <1>1, <2>3, Running DEF Rows
    <3>2. row \in Row /\ row.path = q.path
      BY <1>2, <3>1 DEF Row, File
    <3>3. db' = [db EXCEPT ![q.id] = row]
      BY <1>2, <2>1, <2>3, <3>1
    <3> HIDE DEF row
    <3>4. db'[q.id] = row /\ \A j \in Id \ {q.id} : db'[j] = db[j]
      BY <1>2, <3>1, <3>3
    <3>5. db[q.id].path \in Names(q)
      BY <1>1, <2>3, NamesOf
    <3> QED
      BY <1>2, <2>1, <3>1, <3>2, <3>4, <3>5, Apart DEF Local
  <2> QED
    BY <2>1, <2>2, <2>3
<1> QED
  BY <1>3, <1>4, <1>5

LEMMA Framed == ASSUME IInv, NEW s \in Req, Arrive(s) \/ Handle(s) PROVE Local(s)
<1>1. CASE Arrive(s)
  BY <1>1, DiskLocal DEF Arrive
<1>2. CASE LinkStat(s) \/ LinkRegister(s)
  <2> DEFINE q == req[s]
             row == [path |-> q.path, file |-> q.file, linked |-> TRUE]
  <2>1. q # Idle /\ q.op = "link" /\ disk' = disk
    BY <1>2 DEF LinkStat, LinkRegister, At
  <2>2. row \in Row /\ row.path = q.path /\ q.path \in Names(q)
    BY <2>1, Running, NamesOf DEF Row, Shaped
  <2>3. Registered(row) \/ db' = db
    BY <1>2 DEF LinkStat, LinkRegister, RegisterFails
  <2> HIDE DEF row
  <2> QED
    BY <2>1, <2>2, <2>3, RegisteredLocal, DiskLocal
<1> QED
  BY <1>1, <1>2, UploadLocal, DeleteLocal, RenameLocal DEF Handle

-----------------------------------------------------------------------------
(* The handlers keep every entry accounted for.                             *)

\* What is left to show of a step of s.
LEMMA Preserved ==
    ASSUME IInv, Accounted, ~Overlap, NEW s \in Req, Arrive(s) \/ Handle(s),
           \A r \in Req \ {s} : req'[r] = req[r],
           Owned', req'[s] # Idle => Memory(req[s])',
           \A i \in Id : (i \in Dangling)' => \/ i \in Dangling /\ ~InCharge(req[s], i)
                                              \/ InCharge(req[s], i)'
    PROVE  Accounted'
<1>1. Local(s)
  BY Framed
<1>2. ASSUME NEW r \in Req, req'[r] # Idle PROVE Memory(req[r])'
  <2>1. CASE r = s
    BY <1>2, <2>1
  <2>2. CASE r # s
    <3>1. req'[r] = req[r] /\ req[r] # Idle /\ Memory(req[r])
      BY <1>2, <2>2 DEF Accounted
    <3> QED
      BY <1>1, <2>2, <3>1, OthersRemember
  <2> QED
    BY <2>1, <2>2
<1>3. ASSUME NEW i \in Id, (i \in Dangling)' PROVE \E r \in Req : InCharge(req[r], i)'
  <2>1. CASE InCharge(req[s], i)'
    BY <2>1
  <2>2. CASE i \in Dangling /\ ~InCharge(req[s], i)
    <3>1. PICK r \in Req : InCharge(req[r], i)
      BY <2>2 DEF Accounted
    <3>2. r # s /\ i \in Rows /\ (i \in Rows)'
      BY <1>3, <2>2, <3>1 DEF Dangling
    <3>3. req'[r] = req[r]
      BY <3>2
    <3>4. InCharge(req[r], i)'
      BY <1>1, <3>1, <3>2, <3>3, OthersCharge
    <3> QED
      BY <3>4
  <2> QED
    BY <1>3, <2>1, <2>2
<1>4. \A i \in Dangling' : i \in Id
  BY DEF Dangling, Rows
<1> QED
  BY <1>2, <1>3, <1>4 DEF Accounted

\* A step that only reads.
LEMMA SameTable == ASSUME Owned, db' = db PROVE Owned'
BY DEF Owned, Uploaded, Rows

\* A step that removes neither a row nor a file leaves no entry without its file.
LEMMA SameDangling == ASSUME db' = db, disk \subseteq disk' PROVE Dangling' \subseteq Dangling
BY DEF Dangling, Rows

\* Before these steps there is nothing to remember.
LEMMA NoMemory ==
    ASSUME NEW s \in Req, req'[s].step \in {"lookup", "stat", "unregister", "open"}
    PROVE  Memory(req[s])'
BY DEF Memory

\* A row that is registered names its own path's file, or links; if that file is
\* there, no entry lost its own.
LEMMA RegisteredOwned ==
    ASSUME IInv, Owned, NEW row \in Row, row.linked \/ row.file = row.path, Registered(row)
    PROVE  /\ Owned'
           /\ disk' = disk /\ (row.linked \/ row.path \in disk) =>
                 \A i \in Id : (i \in Dangling)' => i \in Dangling
<1>1. db \in [Id -> Row \cup {Fresh, Gone}]
  BY DEF IInv, TypeOK
<1>2. PICK k \in Id : /\ db' = [db EXCEPT ![k] = row]
                      /\ RowsAt(row.path) = {} \/ k \in RowsAt(row.path)
  BY DEF Registered, RowsAt, Rows
<1>3. db'[k] = row /\ \A j \in Id \ {k} : db'[j] = db[j]
  BY <1>1, <1>2
<1>4. \A j \in Rows : db[j].path = row.path => j = k
  BY <1>2 DEF Owned, RowsAt
<1>5. \A j \in Id : (j \in Rows)' => j = k \/ j \in Rows
  BY <1>3 DEF Rows
<1>6. (\A j \in Id : Uploaded(j) => db[j].file = db[j].path)'
  BY <1>3 DEF Owned, Uploaded, Rows
<1>7. (\A i, j \in Rows : db[i].path = db[j].path => i = j)'
  BY <1>3, <1>4, <1>5 DEF Owned, Rows
<1>8. ASSUME disk' = disk, row.linked \/ row.path \in disk, NEW i \in Id, (i \in Dangling)'
      PROVE  i \in Dangling
  BY <1>3, <1>8 DEF Dangling, Rows
<1> QED
  BY <1>6, <1>7, <1>8 DEF Owned

\* A deletion of rows leaves no entry without its file.
LEMMA DeletedOwned ==
    ASSUME Owned, NEW S, Deleted(S)
    PROVE  /\ Owned'
           /\ disk' = disk => \A i \in Id : (i \in Dangling)' => i \in Dangling \ S
<1>1. \A i \in Id : db'[i] = IF i \in S THEN Gone ELSE db[i]
  BY DEF Deleted
<1>2. \A i \in Id : (i \in Rows)' => i \in Rows \ S /\ db'[i] = db[i]
  BY <1>1, Apart DEF Rows
<1>3. (\A i \in Id : Uploaded(i) => db[i].file = db[i].path)'
  BY <1>2 DEF Owned, Uploaded
<1>4. (\A i, j \in Rows : db[i].path = db[j].path => i = j)'
  BY <1>2 DEF Owned, Rows
<1>5. disk' = disk => \A i \in Id : (i \in Dangling)' => i \in Dangling \ S
  BY <1>2 DEF Dangling
<1> QED
  BY <1>3, <1>4, <1>5 DEF Owned

LEMMA ArriveAccounted ==
    ASSUME IInv, Accounted, NEW s \in Req, Arrive(s), ~disturbed' PROVE Accounted'
<1>1. PICK p \in Path, i \in Id, f \in File, flag \in BOOLEAN :
          \E q \in {Args("upload", p, None, None, flag), Args("link", p, None, f, FALSE),
                    Args("delete", None, i, None, flag), Args("delete_by_path", p, None, None, flag),
                    Args("rename", p, i, None, FALSE)} : Continue(s, q, FALSE)
  BY DEF Arrive
<1> DEFINE Early(q) == q.step \in {"lookup", "stat"}
<1>2. PICK q : Early(q) /\ Continue(s, q, FALSE)
  <2>1. /\ Early(Args("upload", p, None, None, flag))
        /\ Early(Args("link", p, None, f, FALSE))
        /\ Early(Args("delete", None, i, None, flag))
        /\ Early(Args("delete_by_path", p, None, None, flag))
        /\ Early(Args("rename", p, i, None, FALSE))
    BY DEF Args
  <2> HIDE DEF Early
  <2> QED
    BY <1>1, <2>1
<1>3. req'[s] = q /\ (\A r \in Req \ {s} : req'[r] = req[r]) /\ ~Overlap
  BY <1>2, Goes
<1>4. Memory(req[s])'
  BY <1>2, <1>3, NoMemory
<1>5. Owned' /\ Dangling' \subseteq Dangling /\ req[s] = Idle
  BY SameTable, SameDangling DEF Arrive, Accounted
<1> QED
  BY <1>3, <1>4, <1>5, Preserved DEF InCharge

LEMMA LinkAccounted ==
    ASSUME IInv, Accounted, NEW s \in Req, LinkStat(s) \/ LinkRegister(s), ~disturbed'
    PROVE  Accounted'
<1> DEFINE q == req[s]
<1>1. q # Idle /\ q.op = "link" /\ q \in Request /\ Shaped(q) /\ disk' = disk /\ Handle(s)
  BY Running DEF LinkStat, LinkRegister, At, Handle
<1>2. \A i : ~InCharge(q, i)
  BY <1>1 DEF InCharge, Deletes
<1>3. CASE GoTo(s, "register") /\ db' = db
  <2>1. req'[s] = [q EXCEPT !.step = "register"]
        /\ (\A r \in Req \ {s} : req'[r] = req[r]) /\ ~Overlap
    BY <1>3, GoesTo
  <2>2. req'[s].op = "link"
    BY <1>1, <2>1 DEF Request
  <2>3. Memory(req[s])'
    BY <2>2 DEF Memory, Deletes
  <2> QED
    BY <1>1, <1>2, <1>3, <2>1, <2>3, SameTable, SameDangling, Preserved DEF Accounted
<1>4. CASE Answer(s) /\ ~AnswerError(s)
  <2>1. req'[s] = Idle /\ (\A r \in Req \ {s} : req'[r] = req[r]) /\ ~Overlap
    BY <1>4, Answers
  <2>2. CASE db' = db
    BY <1>1, <1>2, <2>1, <2>2, SameTable, SameDangling, Preserved DEF Accounted
  <2>3. CASE LinkRegister(s)
    <3> DEFINE row == [path |-> q.path, file |-> q.file, linked |-> TRUE]
    <3>1. row \in Row /\ row.linked
      BY <1>1 DEF Row, Shaped
    <3>2. Registered(row)
      BY <1>4, <2>3 DEF LinkRegister
    <3> HIDE DEF row
    <3>3. Owned' /\ \A i \in Id : (i \in Dangling)' => i \in Dangling
      BY <1>1, <3>1, <3>2, RegisteredOwned DEF Accounted
    <3> QED
      BY <1>1, <1>2, <2>1, <3>3, Preserved
  <2> QED
    BY <2>2, <2>3 DEF LinkStat
<1>5. ~AnswerError(s)
  BY Answers
<1> QED
  BY <1>3, <1>4, <1>5 DEF LinkStat, LinkRegister

LEMMA UploadAccounted ==
    ASSUME IInv, Accounted, NEW s \in Req, ~disturbed',
           \/ UploadLookup(s) \/ UploadRemoveOld(s) \/ UploadUnregisterOld(s) \/ UploadOpen(s)
           \/ UploadReceive(s) \/ UploadRegister(s) \/ UploadDiscard(s)
    PROVE  Accounted'
<1> DEFINE q == req[s]
<1>1. /\ q # Idle /\ q.op = "upload" /\ q \in Request /\ q.path \in Path
      /\ Memory(q) /\ Owned /\ Handle(s)
  BY Running DEF UploadLookup, UploadRemoveOld, UploadUnregisterOld, UploadOpen, UploadReceive,
         UploadRegister, UploadDiscard, At, Handle, Accounted
<1>2. \A i \in Id : InCharge(q, i) => q.step \in {"unregister", "open"} /\ q.path = db[i].path
  BY <1>1 DEF InCharge, Deletes
<1>3. ~AnswerError(s)
  BY Answers
<1>4. ASSUME NEW step \in Step, GoTo(s, step)
      PROVE  /\ req'[s] # Idle /\ req'[s].op = "upload" /\ req'[s].step = step
             /\ req'[s].path = q.path
             /\ (\A r \in Req \ {s} : req'[r] = req[r]) /\ ~Overlap
  <2>1. req'[s] = [q EXCEPT !.step = step]
        /\ (\A r \in Req \ {s} : req'[r] = req[r]) /\ ~Overlap
    BY <1>4, GoesTo
  <2>2. [q EXCEPT !.step = step] \in Request
    BY <1>1 DEF Request
  <2>3. [q EXCEPT !.step = step] # Idle
    BY <2>2, Apart
  <2> QED
    BY <1>1, <2>1, <2>3 DEF Request
<1>5. CASE UploadLookup(s)
  <2>1. PICK found \in Found(RowsAt(q.path)) :
          \/ found = Nothing /\ GoTo(s, "open")
          \/ found # Nothing /\ ~q.flag /\ Answer(s)
          \/ /\ found # Nothing /\ q.flag
             /\ Continue(s, [q EXCEPT !.step = "remove", !.file = found.file], found.linked)
    BY <1>5 DEF UploadLookup
  <2>2. Owned' /\ Dangling' \subseteq Dangling /\ \A i \in Id : ~InCharge(q, i)
    BY <1>1, <1>2, <1>5, SameTable, SameDangling DEF UploadLookup, At
  <2>3. CASE GoTo(s, "open")
    <3>1. Memory(req[s])'
      BY <1>4, <2>3, NoMemory DEF Step
    <3> QED
      BY <1>1, <1>4, <2>2, <2>3, <3>1, Preserved DEF Step
  <2>4. CASE Answer(s)
    BY <1>1, <2>2, <2>4, Answers, Preserved
  <2>5. CASE /\ found # Nothing
             /\ Continue(s, [q EXCEPT !.step = "remove", !.file = found.file], found.linked)
    <3>1. PICK k \in RowsAt(q.path) : found = db[k] /\ found \in Row
      BY <2>5, FoundRow DEF RowsAt
    <3>2. found.linked \in BOOLEAN
      BY <3>1, RowFields
    <3>3. /\ req'[s] = [q EXCEPT !.step = "remove", !.file = found.file]
          /\ (\A r \in Req \ {s} : req'[r] = req[r]) /\ ~Overlap /\ ~found.linked
      BY <2>5, <3>2, Goes
    <3>4. found.file = q.path
      BY <1>1, <3>1, <3>3 DEF Owned, Uploaded, RowsAt, Rows
    <3>5. /\ req'[s].op = "upload" /\ req'[s].step = "remove"
          /\ req'[s].file = q.path /\ req'[s].path = q.path
      BY <1>1, <3>3, <3>4 DEF Request
    <3>6. Memory(req[s])'
      BY <3>5 DEF Memory, Deletes
    <3> QED
      BY <1>1, <2>2, <3>3, <3>6, Preserved
  <2> QED
    BY <2>1, <2>3, <2>4, <2>5
<1>6. CASE UploadRemoveOld(s)
  <2>1. /\ disk' = disk \ {q.file} /\ db' = db /\ GoTo(s, "unregister")
        /\ q.step = "remove" /\ q.file = q.path
    BY <1>1, <1>6 DEF UploadRemoveOld, At, Memory
  <2>2. Memory(req[s])' /\ Owned'
    BY <1>1, <1>4, <2>1, NoMemory, SameTable DEF Step
  <2>3. ASSUME NEW i \in Id, (i \in Dangling)', i \notin Dangling
        PROVE  InCharge(req[s], i)'
    <3>1. Uploaded(i) /\ db[i].file = q.path /\ db'[i] = db[i]
      BY <2>1, <2>3 DEF Dangling, Uploaded, Rows
    <3>2. q.path = db[i].path
      BY <1>1, <3>1 DEF Owned
    <3> QED
      BY <1>4, <2>1, <3>1, <3>2 DEF InCharge, Step
  <2> QED
    BY <1>1, <1>2, <1>4, <2>1, <2>2, <2>3, Preserved DEF Step
<1>7. CASE UploadUnregisterOld(s)
  <2>1. /\ disk' = disk /\ GoTo(s, "open")
        /\ Deleted(RowsAt(q.path)) \/ db' = db
    BY <1>7 DEF UploadUnregisterOld, DeleteFails
  <2>2. Memory(req[s])'
    BY <1>4, <2>1, NoMemory DEF Step
  <2>3. CASE Deleted(RowsAt(q.path))
    <3>1. Owned' /\ \A i \in Id : (i \in Dangling)' => i \in Dangling \ RowsAt(q.path)
      BY <1>1, <2>1, <2>3, DeletedOwned
    <3>2. \A i \in Id : i \in Dangling \ RowsAt(q.path) => ~InCharge(q, i)
      BY <1>2 DEF RowsAt, Dangling
    <3> QED
      BY <1>1, <1>4, <2>1, <2>2, <3>1, <3>2, Preserved DEF Step
  <2>4. CASE db' = db
    <3>1. Owned' /\ Dangling' \subseteq Dangling
      BY <1>1, <2>1, <2>4, SameTable, SameDangling
    <3>2. \A i \in Id : InCharge(q, i) => InCharge(req[s], i)'
      BY <1>2, <1>4, <2>1, <2>4 DEF InCharge, Step
    <3> QED
      BY <1>1, <1>4, <2>1, <2>2, <3>1, <3>2, Preserved DEF Step
  <2> QED
    BY <2>1, <2>3, <2>4
<1>8. CASE UploadOpen(s)
  <2>1. /\ disk' = disk \cup {q.path} /\ db' = db
        /\ Continue(s, [q EXCEPT !.step = "receive", !.file = q.path], FALSE)
    BY <1>3, <1>8 DEF UploadOpen
  <2>2. /\ req'[s] = [q EXCEPT !.step = "receive", !.file = q.path]
        /\ (\A r \in Req \ {s} : req'[r] = req[r]) /\ ~Overlap
    BY <2>1, Goes
  <2>3. req'[s].op = "upload" /\ req'[s].step = "receive" /\ req'[s].path = q.path
    BY <1>1, <2>2 DEF Request
  <2>4. Memory(req[s])'
    BY <2>1, <2>3 DEF Memory, Deletes
  <2>5. Owned' /\ Dangling' \subseteq Dangling
    BY <1>1, <2>1, SameTable, SameDangling
  <2>6. ASSUME NEW i \in Id, (i \in Dangling)' PROVE ~InCharge(q, i)
    <3>1. Uploaded(i) /\ db[i].file # q.path
      BY <2>1, <2>6 DEF Dangling, Uploaded, Rows
    <3> QED
      BY <1>1, <1>2, <3>1 DEF Owned
  <2> QED
    BY <1>1, <2>2, <2>4, <2>5, <2>6, Preserved
<1>9. CASE UploadReceive(s)
  <2>1. disk' = disk /\ db' = db /\ GoTo(s, "register") /\ q.step = "receive"
    BY <1>3, <1>9 DEF UploadReceive, At
  <2>2. Memory(req[s])'
    BY <1>1, <1>4, <2>1 DEF Memory, Deletes, Step
  <2> QED
    BY <1>1, <1>2, <1>4, <2>1, <2>2, SameTable, SameDangling, Preserved DEF Step
<1>10. CASE UploadRegister(s)
  <2> DEFINE row == [path |-> q.path, file |-> q.path, linked |-> FALSE]
  <2>1. row \in Row /\ row.file = row.path /\ row.path = q.path
    BY <1>1 DEF Row, File
  <2>2. /\ (Registered(row) /\ Answer(s)) \/ (db' = db /\ GoTo(s, "discard"))
        /\ disk' = disk /\ q.step = "register" /\ q.path \in disk
    BY <1>1, <1>10 DEF UploadRegister, RegisterFails, At, Memory
  <2> HIDE DEF row
  <2>3. CASE Registered(row) /\ Answer(s)
    <3>1. Owned' /\ \A i \in Id : (i \in Dangling)' => i \in Dangling
      BY <1>1, <2>1, <2>2, <2>3, RegisteredOwned
    <3> QED
      BY <1>1, <1>2, <2>2, <2>3, <3>1, Answers, Preserved
  <2>4. CASE db' = db /\ GoTo(s, "discard")
    <3>1. Memory(req[s])'
      BY <1>1, <1>4, <2>2, <2>4 DEF Memory, Deletes, Step
    <3> QED
      BY <1>1, <1>2, <1>4, <2>2, <2>4, <3>1, SameTable, SameDangling, Preserved DEF Step
  <2> QED
    BY <2>2, <2>3, <2>4
<1> QED
  BY <1>3, <1>5, <1>6, <1>7, <1>8, <1>9, <1>10 DEF UploadDiscard

LEMMA DeleteAccounted ==
    ASSUME IInv, Accounted, NEW s \in Req, ~disturbed',
           DeleteLookup(s) \/ DeleteRemove(s) \/ DeleteUnregister(s)
    PROVE  Accounted'
<1> DEFINE q == req[s]
<1>1. q # Idle /\ Deletes(q) /\ q \in Request /\ Memory(q) /\ Owned /\ Handle(s)
  BY Running DEF DeleteLookup, DeleteRemove, DeleteUnregister, DeleteAt, At, Deletes, Handle,
                 Accounted
<1>2. \A i \in Id : InCharge(q, i) => q.step = "unregister" /\ i \in Chosen(q)
  BY <1>1 DEF InCharge, Deletes
<1>3. ASSUME GoTo(s, "unregister")
      PROVE  /\ req'[s] # Idle /\ Deletes(req'[s]) /\ req'[s].step = "unregister"
             /\ req'[s].op = q.op /\ req'[s].path = q.path /\ req'[s].id = q.id
             /\ (\A r \in Req \ {s} : req'[r] = req[r]) /\ ~Overlap
             /\ Memory(req[s])'
  <2>1. req'[s] = [q EXCEPT !.step = "unregister"]
        /\ (\A r \in Req \ {s} : req'[r] = req[r]) /\ ~Overlap
    BY <1>3, GoesTo
  <2>2. [q EXCEPT !.step = "unregister"] \in Request
    BY <1>1 DEF Request, Step
  <2>3. [q EXCEPT !.step = "unregister"] # Idle
    BY <2>2, Apart
  <2>4. /\ req'[s].step = "unregister"
        /\ req'[s].op = q.op /\ req'[s].path = q.path /\ req'[s].id = q.id
    BY <1>1, <2>1 DEF Request
  <2> QED
    BY <1>1, <2>1, <2>3, <2>4, NoMemory DEF Deletes
<1>4. CASE DeleteLookup(s)
  <2>1. Owned' /\ Dangling' \subseteq Dangling /\ \A i \in Id : ~InCharge(q, i)
    BY <1>1, <1>2, <1>4, SameTable, SameDangling DEF DeleteLookup, DeleteAt, At
  <2>2. CASE GoTo(s, "unregister")
    BY <1>1, <1>3, <2>1, <2>2, Preserved
  <2>3. ASSUME NEW found \in Found(Chosen(q)), found # Nothing, ~found.linked,
               Continue(s, [q EXCEPT !.step = "remove", !.file = found.file], FALSE)
        PROVE  Accounted'
    <3>1. PICK k \in Chosen(q) : found = db[k] /\ k \in Rows
      BY <2>3, FoundRow DEF Chosen, RowsAt
    <3>2. /\ req'[s] = [q EXCEPT !.step = "remove", !.file = found.file]
          /\ (\A r \in Req \ {s} : req'[r] = req[r]) /\ ~Overlap
      BY <2>3, Goes
    <3>3. /\ req'[s].op = q.op /\ req'[s].path = q.path /\ req'[s].id = q.id
          /\ req'[s].step = "remove" /\ req'[s].file = found.file
      BY <1>1, <3>2 DEF Request
    <3>4. Chosen(req[s])' = Chosen(q)
      BY <1>4, <3>3 DEF Chosen, RowsAt, Rows, DeleteLookup
    <3>5. ASSUME NEW i \in Id, Uploaded(i)', db'[i].file = found.file PROVE i \in Chosen(q)
      <4>1. Uploaded(i) /\ Uploaded(k) /\ db[i].file = db[k].file
        BY <1>4, <2>3, <3>1, <3>5 DEF DeleteLookup, Uploaded, Rows
      <4>2. i = k
        BY <1>1, <3>1, <4>1 DEF Owned, Uploaded, Rows
      <4> QED
        BY <3>1, <4>2
    <3>6. Memory(req[s])'
      BY <1>1, <3>3, <3>4, <3>5 DEF Memory, Deletes
    <3> QED
      BY <1>1, <2>1, <3>2, <3>6, Preserved
  <2> QED
    BY <1>4, <2>2, <2>3 DEF DeleteLookup
<1>5. CASE DeleteRemove(s)
  <2>1. disk' = disk \ {q.file} /\ db' = db /\ GoTo(s, "unregister") /\ q.step = "remove"
    BY <1>5 DEF DeleteRemove, DeleteAt, At
  <2>2. ASSUME NEW i \in Id, (i \in Dangling)', i \notin Dangling
        PROVE  InCharge(req[s], i)'
    <3>1. Uploaded(i) /\ db[i].file = q.file
      BY <2>1, <2>2 DEF Dangling, Uploaded, Rows
    <3>2. i \in Chosen(q)
      BY <1>1, <2>1, <3>1 DEF Memory
    <3>3. (i \in Chosen(req[s]))'
      BY <1>3, <2>1, <3>2 DEF Chosen, RowsAt, Rows
    <3> QED
      BY <1>3, <2>1, <3>3 DEF InCharge
  <2> QED
    BY <1>1, <1>2, <1>3, <2>1, <2>2, SameTable, Preserved
<1>6. CASE DeleteUnregister(s)
  <2>1. Deleted(Chosen(q)) /\ Answer(s) /\ disk' = disk
    BY <1>6, Answers DEF DeleteUnregister
  <2>2. Owned' /\ \A i \in Id : (i \in Dangling)' => i \in Dangling \ Chosen(q)
    BY <1>1, <2>1, DeletedOwned
  <2> QED
    BY <1>1, <1>2, <2>1, <2>2, Answers, Preserved
<1> QED
  BY <1>4, <1>5, <1>6

LEMMA RenameAccounted ==
    ASSUME IInv, Accounted, NEW s \in Req, ~disturbed',
           RenameLookup(s) \/ RenameMove(s) \/ RenameUpdate(s)
    PROVE  Accounted'
<1> DEFINE q == req[s]
<1>1. /\ q # Idle /\ q.op = "rename" /\ q \in Request /\ q.path \in Path /\ q.id \in Id
      /\ Memory(q) /\ Owned /\ Handle(s) /\ db \in [Id -> Row \cup {Fresh, Gone}]
  BY Running DEF RenameLookup, RenameMove, RenameUpdate, At, Handle, Accounted, Shaped
<1>2. \A i \in Id : InCharge(q, i) => q.step = "register" /\ i = q.id
  BY <1>1 DEF InCharge, Deletes
<1>3. ~AnswerError(s)
  BY Answers
<1>4. CASE RenameLookup(s)
  <2>1. Owned' /\ Dangling' \subseteq Dangling /\ (\A i \in Id : ~InCharge(q, i)) /\ db' = db
    BY <1>1, <1>2, <1>4, SameTable, SameDangling DEF RenameLookup, At
  <2>2. CASE Answer(s)
    BY <1>1, <2>1, <2>2, Answers, Preserved
  <2>3. ASSUME NEW found \in Found({q.id} \cap Rows), found # Nothing,
               Continue(s, [q EXCEPT !.step = "move", !.file = found.file,
                                     !.linked = found.linked], FALSE)
        PROVE  Accounted'
    <3>1. q.id \in Rows /\ found = db[q.id] /\ found \in Row
      BY <2>3, FoundRow
    <3>2. /\ req'[s] = [q EXCEPT !.step = "move", !.file = found.file, !.linked = found.linked]
          /\ (\A r \in Req \ {s} : req'[r] = req[r]) /\ ~Overlap
      BY <2>3, Goes
    <3>3. /\ req'[s].op = "rename" /\ req'[s].id = q.id /\ req'[s].step = "move"
          /\ req'[s].file = found.file /\ req'[s].linked = found.linked
      BY <1>1, <3>2 DEF Request
    <3>4. ASSUME NEW i \in Id, Uploaded(i)', db'[i].file = found.file, ~found.linked
          PROVE  i = q.id
      <4>1. Uploaded(i) /\ Uploaded(q.id) /\ db[i].file = db[q.id].file
        BY <2>1, <3>1, <3>4 DEF Uploaded, Rows
      <4> QED
        BY <1>1, <4>1 DEF Owned, Uploaded
    <3>5. Memory(req[s])'
      BY <2>1, <3>1, <3>3, <3>4, Apart DEF Memory, Deletes
    <3> QED
      BY <1>1, <2>1, <3>2, <3>5, Preserved
  <2> QED
    BY <1>4, <2>2, <2>3 DEF RenameLookup
<1>5. CASE RenameMove(s)
  <2>1. /\ q.step = "move" /\ db' = db /\ GoTo(s, "register")
        /\ \/ (q.linked \/ q.file \notin disk) /\ disk' = disk
           \/ ~q.linked /\ disk' = (disk \ {q.file}) \cup {q.path}
    BY <1>3, <1>5 DEF RenameMove, At
  <2>2. req'[s] = [q EXCEPT !.step = "register"]
        /\ (\A r \in Req \ {s} : req'[r] = req[r]) /\ ~Overlap
    BY <2>1, GoesTo
  <2>3. /\ req'[s].op = "rename" /\ req'[s].id = q.id /\ req'[s].step = "register"
        /\ req'[s].file = q.file /\ req'[s].path = q.path /\ req'[s].linked = q.linked
    BY <1>1, <2>2 DEF Request
  <2>4. [q EXCEPT !.step = "register"] \in Request
    BY <1>1 DEF Request, Step
  <2>5. req'[s] # Idle
    BY <2>2, <2>4, Apart
  <2>6. ASSUME ~q.linked, q.id \in Rows PROVE q.path \in disk'
    <3>1. SUFFICES ASSUME q.file \notin disk PROVE FALSE
      BY <2>1, <2>6
    <3>2. q.id \in Dangling
      BY <1>1, <2>1, <2>6, <3>1 DEF Memory, Dangling
    <3>3. PICK r \in Req : InCharge(req[r], q.id)
      BY <3>2 DEF Accounted
    <3>4. r # s
      BY <1>1, <1>2, <2>1, <3>3
    <3>5. db[q.id].path \in Names(req[r]) /\ db[q.id].path \in Names(q)
      BY <1>1, <2>6, <3>3, ChargeNames, NamesOf
    <3> QED
      BY <2>2, <3>4, <3>5 DEF Overlap
  <2>7. Memory(req[s])'
    BY <1>1, <2>1, <2>3, <2>6 DEF Memory, Deletes, Rows
  <2>8. ASSUME NEW i \in Id, (i \in Dangling)', i \notin Dangling PROVE InCharge(req[s], i)'
    <3>1. Uploaded(i) /\ db[i].file = q.file /\ ~q.linked
      BY <2>1, <2>8 DEF Dangling, Uploaded, Rows
    <3>2. i = q.id
      BY <1>1, <2>1, <3>1 DEF Memory
    <3> QED
      BY <2>3, <2>5, <3>2 DEF InCharge
  <2> QED
    BY <1>1, <1>2, <2>1, <2>2, <2>7, <2>8, SameTable, Preserved
<1>6. CASE RenameUpdate(s)
  <2> DEFINE row == [db[q.id] EXCEPT !.path = q.path,
                                     !.file = IF q.linked THEN db[q.id].file ELSE q.path]
  <2>1. /\ q.step = "register" /\ Answer(s) /\ disk' = disk /\ q.id \in Rows
        /\ RowsAt(q.path) \subseteq {q.id}
        /\ db' = [db EXCEPT ![q.id].path = q.path,
                            ![q.id].file = IF q.linked THEN @ ELSE q.path]
    BY <1>3, <1>6 DEF RenameUpdate, At
  <2>2. db[q.id] \in Row
    BY <2>1 DEF Rows
  <2>3. /\ row.path = q.path /\ row.linked = db[q.id].linked /\ row \in Row
        /\ ~q.linked => row.file = q.path
    BY <1>1, <2>2 DEF Row, File
  <2>4. db' = [db EXCEPT ![q.id] = row]
    BY <1>1, <2>1
  <2> HIDE DEF row
  <2>5. db'[q.id] = row /\ \A j \in Id \ {q.id} : db'[j] = db[j]
    BY <1>1, <2>4
  <2>6. row.linked = q.linked /\ (~q.linked => q.path \in disk')
    BY <1>1, <2>1, <2>3 DEF Memory
  <2>7. \A j \in Id : (j \in Rows)' <=> j \in Rows
    BY <1>1, <2>2, <2>3, <2>5 DEF Rows
  <2>8. (\A i \in Id : Uploaded(i) => db[i].file = db[i].path)'
    BY <1>1, <2>3, <2>5, <2>6, <2>7 DEF Owned, Uploaded
  <2>9. (\A i, j \in Rows : db[i].path = db[j].path => i = j)'
    BY <1>1, <2>1, <2>3, <2>5, <2>7 DEF Owned, RowsAt, Rows
  <2>10. ASSUME NEW i \in Id, (i \in Dangling)' PROVE i \in Dangling /\ i # q.id
    <3>1. i # q.id
      BY <2>3, <2>5, <2>6, <2>10 DEF Dangling
    <3> QED
      BY <2>1, <2>5, <2>7, <2>10, <3>1 DEF Dangling
  <2> QED
    BY <1>1, <1>2, <2>1, <2>8, <2>9, <2>10, Answers, Preserved DEF Owned
<1> QED
  BY <1>4, <1>5, <1>6

\* The invariant of NoSilentDamage holds in every reachable state.
LEMMA EntriesAccounted == Spec => []NothingLost
<1>1. Init => NothingLost
  <2> SUFFICES ASSUME Init PROVE Accounted
    BY DEF NothingLost
  <2>1. Rows = {} /\ \A r \in Req : req[r] = Idle
    BY Apart DEF Init, Rows
  <2> QED
    BY <2>1 DEF Accounted, Owned, Uploaded, Dangling
<1>2. IInv /\ NothingLost /\ [Next]_vars => NothingLost'
  <2> SUFFICES ASSUME IInv, NothingLost, [Next]_vars, ~disturbed' PROVE Accounted'
    BY DEF NothingLost
  <2>1. CASE UNCHANGED vars
    <3>1. db' = db /\ disk' = disk /\ req' = req /\ Accounted
      BY <2>1 DEF vars, NothingLost
    <3> QED
      BY <3>1 DEF Accounted, Owned, Uploaded, Dangling, Rows, RowsAt, Chosen, Memory, InCharge,
                  Deletes
  <2>2. CASE Next
    <3>1. PICK s \in Req : Arrive(s) \/ Handle(s)
      BY <2>2 DEF Next
    <3>2. ~disturbed
      BY <3>1 DEF Arrive, Handle, UploadLookup, UploadRemoveOld, UploadUnregisterOld, UploadOpen,
         UploadReceive, UploadRegister, UploadDiscard, LinkStat, LinkRegister, DeleteLookup,
         DeleteRemove, DeleteUnregister, RenameLookup, RenameMove, RenameUpdate, GoTo, Answer,
         AnswerError, Continue
    <3> QED
      BY <3>1, <3>2, ArriveAccounted, LinkAccounted, UploadAccounted, DeleteAccounted,
         RenameAccounted DEF Handle, NothingLost
  <2> QED
    BY <2>1, <2>2
<1> QED
  BY <1>1, <1>2, Invariant, PTL DEF Spec

\* Requests on different paths cost no uploaded entry its file, however many
\* there are and whatever their interleaving and the failures of the database.
THEOREM NothingDamaged == Spec => []NoSilentDamage
<1>1. NothingLost => NoSilentDamage
  <2> SUFFICES ASSUME NothingLost, Quiet, ~disturbed PROVE Dangling = {}
    BY DEF NoSilentDamage
  <2> QED
    BY DEF NothingLost, Accounted, Quiet, InCharge
<1> QED
  BY <1>1, EntriesAccounted, PTL
=============================================================================
