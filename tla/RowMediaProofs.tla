--------------------------- MODULE RowMediaProofs ---------------------------
(***************************************************************************)
(* Proofs about RowMedia, for any requests, parents and assets.            *)
(*                                                                         *)
(* The argument: a hook that archives or removes a file is run long after  *)
(* it was registered, so what made it right then has to last.  It lasts    *)
(* because ids are never used twice: an asset whose row is gone stays      *)
(* gone, a parent that was deleted stays deleted, and an asset whose       *)
(* insert was rolled back is nobody else's.  Until the transaction ends    *)
(* the row locks keep the others away.  Only what Spared says depends on   *)
(* whether a reply to COMMIT can be lost.                                  *)
(***************************************************************************)
EXTENDS RowMedia, SequenceTheorems, WellFoundedInduction, TLAPS

\* A step of one request.
RequestStep(r) ==
  \/ RequestArrives(r) \/ Fails(r)
  \/ InsertAsset(r) \/ SaveFile(r) \/ FinishUpload(r)
  \/ UpdateAsset(r)
  \/ PlanDelete(r) \/ DeleteAsset(r)
  \/ FetchPreferred(r) \/ UpdateCached(r)
  \/ DeleteParent(r)
  \/ TxCommits(r) \/ TxRollsBack(r) \/ RunHook(r) \/ Ends(r)

\* The hooks in a list.
Pending(list) == {list[i] : i \in 1..Len(list)}

\* The rows an operation is about, once they are known.
Given ==
  \A r \in Requests :
    /\ phase[r] = "idle" => step[r] = "start"
    /\ op[r].kind \in {"update", "delete"} => op[r].asset \in Assets
    /\ op[r].kind = "upload" /\ step[r] # "start" => op[r].asset \in Assets
    /\ op[r].kind \in {"upload", "update", "deleteParent"} => op[r].parent \in Parents
    /\ op[r].kind = "delete" /\ step[r] # "start" => op[r].parent \in Parents

\* What the middleware and the handler hold between and during requests.
Shape ==
  \A r \in Requests :
    /\ phase[r] \in {"idle", "hooks"} =>
         /\ op[r] = NoOperation /\ step[r] = "start"
         /\ afterCommitHooks[r] = << >> /\ afterRollbackHooks[r] = << >>
    /\ phase[r] # "hooks" => tx[r] \in {"none", "open"}
    /\ step[r] # "start" => tx[r] = "open" /\ op[r].kind # "none"
    /\ phase[r] = "responded" /\ CommitsOn(status[r]) /\ op[r].kind = "upload"
         => step[r] = "cached"

\* A row refers to a parent, was committed, and its id was handed out.
Rows ==
  \A a \in Assets :
    /\ row[a] # NoParent => row[a] \in parents /\ a \in everCommitted
    /\ a \in everCommitted => home[a] # NoParent

\* The asset of an upload is in no other request and was never committed.
Uploads ==
  \A r \in Requests :
    (op[r].kind = "upload" /\ op[r].asset \in Assets) =>
      /\ op[r].asset \notin everCommitted
      /\ home[op[r].asset] # NoParent
      /\ home[op[r].asset] = op[r].parent
      /\ step[r] \in {"saved", "cached"} => op[r].asset \in live
      /\ \A x \in Requests \ {r} :
           op[x].kind = "upload" => op[x].asset # op[r].asset

\* What an open transaction has written exists, and stays until it ends.
Written ==
  \A r \in Requests : Wrote(r) =>
    /\ op[r].kind \in {"upload", "update", "deleteParent"} => op[r].parent \in parents
    /\ op[r].kind \in {"update", "delete"} =>
         row[op[r].asset] # NoParent

\* Two open transactions have not written the same rows.
Locks ==
  \A r, x \in Requests : r # x /\ Wrote(r) /\ Wrote(x) =>
    /\ op[r].kind \in {"update", "delete"} /\ op[x].kind \in {"update", "delete"}
         => op[r].asset # op[x].asset
    /\ op[x].kind = "deleteParent" =>
         /\ op[r].kind \in {"upload", "update", "deleteParent"} => op[r].parent # op[x].parent
         /\ op[r].kind \in {"update", "delete"} => row[op[r].asset] # op[x].parent

\* The hooks that are registered belong to what the handler has done.
Registered ==
  \A r \in Requests :
    /\ \A a \in Assets :
         /\ <<"archiveFile", a>> \in Pending(afterCommitHooks[r]) =>
              Wrote(r) /\ op[r].kind = "delete" /\ op[r].asset = a
         /\ <<"cleanup", a>> \in Pending(afterRollbackHooks[r]) =>
              op[r].kind = "upload" /\ op[r].asset = a /\ step[r] \in {"saved", "cached"}
    /\ \A p \in Parents :
         <<"archiveFolder", p>> \in Pending(afterCommitHooks[r]) =>
           Wrote(r) /\ op[r].kind = "deleteParent" /\ op[r].parent = p

\* The hooks that are left to run are right for ever.
Left ==
  \A r \in Requests :
    /\ \A a \in Assets :
         /\ <<"archiveFile", a>> \in Pending(hooks[r]) =>
              row[a] = NoParent /\ a \in everCommitted
         /\ <<"cleanup", a>> \in Pending(hooks[r]) =>
              /\ home[a] # NoParent
              /\ \A x \in Requests : op[x].kind = "upload" => op[x].asset # a
    /\ \A p \in Parents :
         <<"archiveFolder", p>> \in Pending(hooks[r]) => p \notin parents

\* What holds whether or not replies to COMMIT are lost.
Base ==
  /\ TypeOK /\ Given /\ Shape /\ Rows /\ Uploads /\ Written /\ Locks /\ Registered /\ Left

\* The files a clean-up is about to remove are not of committed rows.  This is
\* what a lost reply breaks.
Spared ==
  \A r \in Requests, a \in Assets :
    <<"cleanup", a>> \in Pending(hooks[r]) => a \notin everCommitted

IInv == Base /\ Spared /\ LiveRowHasFile /\ MediaNeverDestroyed

-----------------------------------------------------------------------------
(* Sequences of hooks.                                                     *)

LEMMA PendingEmpty == Pending(<< >>) = {} BY DEF Pending

LEMMA PendingAppend ==
  ASSUME NEW S, NEW s \in Seq(S), NEW e \in S
  PROVE  Pending(Append(s, e)) = Pending(s) \cup {e}
<1>1. Len(Append(s, e)) = Len(s) + 1 /\ Len(s) \in Nat BY AppendProperties, LenProperties
<1>2. \A i \in 1..Len(s) : Append(s, e)[i] = s[i] BY AppendProperties
<1>3. Append(s, e)[Len(s) + 1] = e BY AppendProperties
<1>4. Pending(Append(s, e)) \subseteq Pending(s) \cup {e}
 <2>1. SUFFICES ASSUME NEW i \in 1..Len(s) + 1
                PROVE  Append(s, e)[i] \in Pending(s) \cup {e} BY <1>1 DEF Pending
 <2>2. i \in 1..Len(s) \/ i = Len(s) + 1 BY <1>1
 <2> QED BY <1>2, <1>3, <2>2 DEF Pending
<1>5. Pending(s) \subseteq Pending(Append(s, e))
 <2>1. SUFFICES ASSUME NEW i \in 1..Len(s)
                PROVE  s[i] \in Pending(Append(s, e)) BY DEF Pending
 <2>2. i \in 1..Len(Append(s, e)) /\ Append(s, e)[i] = s[i] BY <1>1, <1>2
 <2> QED BY <2>2 DEF Pending
<1>6. e \in Pending(Append(s, e))
 <2>1. Len(s) + 1 \in 1..Len(Append(s, e)) BY <1>1
 <2> QED BY <1>3, <2>1 DEF Pending
<1> QED BY <1>4, <1>5, <1>6

LEMMA PendingTail ==
  ASSUME NEW S, NEW s \in Seq(S), s # << >>
  PROVE  Pending(Tail(s)) \subseteq Pending(s) /\ Head(s) \in Pending(s)
<1>1. Len(s) \in Nat /\ Len(s) # 0 BY EmptySeq, LenProperties
<1>2. Len(Tail(s)) = Len(s) - 1 BY HeadTailProperties
<1>3. \A i \in 1..Len(Tail(s)) : Tail(s)[i] = s[i + 1] BY <1>1
<1>4. ASSUME NEW i \in 1..Len(Tail(s))
      PROVE  Tail(s)[i] \in Pending(s)
 <2>1. i + 1 \in 1..Len(s) BY <1>1, <1>2
 <2> QED BY <1>3, <2>1 DEF Pending
<1>5. Pending(Tail(s)) \subseteq Pending(s) BY <1>4 DEF Pending
<1>6. 1 \in 1..Len(s) /\ Head(s) = s[1] BY <1>1
<1> QED BY <1>5, <1>6 DEF Pending

LEMMA PendingType ==
  ASSUME NEW S, NEW s \in Seq(S)
  PROVE  Pending(s) \subseteq S
<1>1. \A i \in 1..Len(s) : s[i] \in S BY ElementOfSeq
<1> QED BY <1>1 DEF Pending

\* A sequence over a set is a sequence over a larger set.
LEMMA SeqOfLarger ==
  ASSUME NEW S, NEW T, S \subseteq T, NEW s \in Seq(S)
  PROVE  s \in Seq(T) BY SeqDef

-----------------------------------------------------------------------------
(* Type correctness.                                                       *)

\* A nonempty set of ids has a least one, and that is the preferred one.
LEMMA PreferredIsOneOf ==
  ASSUME NEW S \in SUBSET Assets
  PROVE  Preferred(S) \in S \cup {NoAsset}
<1>1. CASE S = {} BY <1>1 DEF Preferred
<1>2. CASE S # {}
 <2>1. S \subseteq Nat BY MediaAssumption
 <2>2. PICK a \in S : \A b \in S : <<b, a>> \notin OpToRel(<, Nat)
   BY <1>2, <2>1, NatLessThanWellFounded, WFMin
 <2>3. ASSUME NEW b \in S PROVE a <= b
  <3>1. ~(b < a) BY <2>1, <2>2 DEF OpToRel
  <3> QED BY <2>1, <3>1
 <2>4. (CHOOSE x \in S : \A b \in S : x <= b) \in S BY <2>3
 <2> QED BY <1>2, <2>4 DEF Preferred
<1> QED BY <1>1, <1>2

LEMMA PreferredType ==
  ASSUME NEW S \in SUBSET Assets
  PROVE  Preferred(S) \in Assets \cup {NoAsset} BY PreferredIsOneOf

LEMMA NoOperationType == NoOperation \in Operation BY DEF NoOperation, Operation, Kind

LEMMA HookTypes ==
  /\ \A a \in Assets : <<"cleanup", a>> \in Cleanup
  /\ \A a \in Assets : <<"archiveFile", a>> \in Archive \cup Publish
  /\ \A p \in Parents : <<"archiveFolder", p>> \in Archive \cup Publish
  /\ \A e \in Event : <<"publish", e>> \in Archive \cup Publish
  /\ \A a \in Assets : <<"create", a>> \in Event
  /\ \A a \in Assets : <<"update", a>> \in Event /\ <<"delete", a>> \in Event
  /\ \A p \in Parents : <<"deleteParent", p>> \in Event BY DEF Cleanup, Archive, Publish, Event

\* The lists that are chosen from hold hooks that may be run.
LEMMA HookLists ==
  ASSUME TypeOK, NEW r \in Requests
  PROVE  /\ afterCommitHooks[r] \in Seq(Archive \cup Publish)
         /\ afterRollbackHooks[r] \in Seq(Cleanup)
         /\ hooks[r] \in Seq(Archive \cup Publish \cup Cleanup)
         /\ afterCommitHooks[r] \in Seq(Archive \cup Publish \cup Cleanup)
         /\ afterRollbackHooks[r] \in Seq(Archive \cup Publish \cup Cleanup)
         /\ << >> \in Seq(Archive \cup Publish) /\ << >> \in Seq(Cleanup)
         /\ << >> \in Seq(Archive \cup Publish \cup Cleanup)
<1>1. /\ afterCommitHooks[r] \in Seq(Archive \cup Publish)
      /\ afterRollbackHooks[r] \in Seq(Cleanup)
      /\ hooks[r] \in Seq(Archive \cup Publish \cup Cleanup) BY DEF TypeOK
<1>2. Archive \cup Publish \subseteq Archive \cup Publish \cup Cleanup OBVIOUS
<1>3. Cleanup \subseteq Archive \cup Publish \cup Cleanup OBVIOUS
<1>4. afterCommitHooks[r] \in Seq(Archive \cup Publish \cup Cleanup) BY <1>1, <1>2, SeqOfLarger
<1>5. afterRollbackHooks[r] \in Seq(Archive \cup Publish \cup Cleanup) BY <1>1, <1>3, SeqOfLarger
<1> HIDE DEF Archive, Publish, Cleanup
<1> QED BY <1>1, <1>4, <1>5, EmptySeq

\* The end of a transaction keeps the types of the middleware's state.
LEMMA EndTxType ==
  ASSUME TypeOK, NEW r \in Requests, NEW o \in TxState, NEW l, EndTx(r, o, l),
         l \in {afterCommitHooks[r], afterRollbackHooks[r]}
  PROVE  /\ phase' \in [Requests -> Phase]
         /\ status' \in [Requests -> Status]
         /\ tx' \in [Requests -> TxState]
         /\ afterCommitHooks' \in [Requests -> Seq(Archive \cup Publish)]
         /\ afterRollbackHooks' \in [Requests -> Seq(Cleanup)]
         /\ hooks' \in [Requests -> Seq(Archive \cup Publish \cup Cleanup)]
<1>1. l \in Seq(Archive \cup Publish \cup Cleanup) BY HookLists
<1>2. << >> \in Seq(Archive \cup Publish) /\ << >> \in Seq(Cleanup) BY HookLists
<1>3. phase' \in [Requests -> Phase] /\ status' \in [Requests -> Status]
      /\ tx' \in [Requests -> TxState] BY DEF TypeOK, EndTx, Phase
<1>4. hooks' \in [Requests -> Seq(Archive \cup Publish \cup Cleanup)] BY <1>1 DEF TypeOK, EndTx
<1>5. afterCommitHooks' \in [Requests -> Seq(Archive \cup Publish)]
      /\ afterRollbackHooks' \in [Requests -> Seq(Cleanup)] BY <1>2 DEF TypeOK, EndTx
<1> QED BY <1>3, <1>4, <1>5

\* The handler is gone: no operation, no statement.
LEMMA HandlerGoneType ==
  ASSUME TypeOK, NEW r \in Requests, HandlerGone(r)
  PROVE  op' \in [Requests -> Operation] /\ step' \in [Requests -> Step]
BY NoOperationType DEF TypeOK, HandlerGone, Step

\* A transaction sees asset rows of the right type.
LEMMA RowViewType ==
  ASSUME TypeOK, NEW r \in Requests
  PROVE  RowView(r) \in [Assets -> Parents \cup {NoParent}]
<1>1. op[r] \in Operation BY DEF TypeOK
<1>2. op[r].parent \in Parents \cup {NoParent} BY <1>1 DEF Operation
<1>3. \A a \in Assets : row[a] \in Parents \cup {NoParent} BY DEF TypeOK
<1> QED BY <1>2, <1>3 DEF RowView

LEMMA TypeArrive ==
  ASSUME TypeOK, NEW r \in Requests, RequestArrives(r)
  PROVE  TypeOK'
<1>1. PICK kind \in Kind, a \in Assets \cup {NoAsset}, p \in Parents \cup {NoParent} :
        Request(r, kind, a, p) BY DEF RequestArrives, Kind
<1>2. [kind |-> kind, asset |-> a, parent |-> p, preferred |-> NoAsset] \in Operation BY DEF Operation
<1>3. op' \in [Requests -> Operation] BY <1>1, <1>2 DEF TypeOK, Request
<1> QED BY <1>1, <1>3 DEF TypeOK, Request, Arrive, Phase, dbVars, fileVars, historyVars

LEMMA TypeFails ==
  ASSUME TypeOK, NEW r \in Requests, Fails(r)
  PROVE  TypeOK' BY DEF TypeOK, Fails, Respond, Phase, Status, dbVars, fileVars, opVars, historyVars

\* A handler that responds, or goes on, keeps the types of what is told.
LEMMA RespondType ==
  ASSUME TypeOK, NEW r \in Requests, NEW code \in Status,
         Respond(r, code) \/ UNCHANGED <<phase, status>>
  PROVE  phase' \in [Requests -> Phase] /\ status' \in [Requests -> Status] BY DEF TypeOK, Respond, Phase

\* The foreign key, the file and the cached image of an upload.
LEMMA TypeUpload ==
  ASSUME TypeOK, Given, NEW r \in Requests,
         InsertAsset(r) \/ SaveFile(r) \/ FinishUpload(r)
  PROVE  TypeOK'
<1>0. op[r] \in Operation BY DEF TypeOK
<1>1. CASE InsertAsset(r)
 <2>1. PICK a \in Assets :
         /\ home' = [home EXCEPT ![a] = op[r].parent]
         /\ op' = [op EXCEPT ![r].asset = a] BY <1>1 DEF InsertAsset
 <2>2. [op[r] EXCEPT !.asset = a] \in Operation BY <1>0 DEF Operation
 <2>3. op' \in [Requests -> Operation] BY <2>1, <2>2 DEF TypeOK
 <2>4. home' \in [Assets -> Parents \cup {NoParent}] BY <1>0, <2>1 DEF TypeOK, Operation
 <2> QED BY <1>1, <2>3, <2>4
     DEF TypeOK, InsertAsset, Begin, Goto, TxState, Step, dbVars, historyVars
<1>2. CASE SaveFile(r)
 <2>1. op[r].asset \in Assets BY <1>2 DEF SaveFile, Handling, Given
 <2>2. Append(afterRollbackHooks[r], <<"cleanup", op[r].asset>>) \in Seq(Cleanup)
   BY <2>1, HookTypes, HookLists, AppendProperties
 <2>3. afterRollbackHooks' \in [Requests -> Seq(Cleanup)]
   BY <1>2, <2>2 DEF TypeOK, SaveFile, AddAfterRollbackHook
 <2>4. live' \subseteq Assets BY <1>2, <2>1 DEF TypeOK, SaveFile
 <2> QED BY <1>2, <2>3, <2>4
     DEF TypeOK, SaveFile, Goto, Step, dbVars, historyVars
<1>3. CASE FinishUpload(r)
 <2>1. op[r].asset \in Assets BY <1>3 DEF FinishUpload, Handling, Given
 <2>2. [op[r] EXCEPT !.preferred = op[r].asset] \in Operation BY <1>0, <2>1 DEF Operation
 <2>3. op' \in [Requests -> Operation] BY <1>3, <2>2 DEF TypeOK, FinishUpload
 <2>4. <<"publish", <<"create", op[r].asset>> >> \in Archive \cup Publish BY <2>1, HookTypes
 <2>5. Append(afterCommitHooks[r], <<"publish", <<"create", op[r].asset>> >>)
         \in Seq(Archive \cup Publish) BY <2>4, HookLists, AppendProperties
 <2>6. afterCommitHooks' \in [Requests -> Seq(Archive \cup Publish)]
   BY <1>3, <2>5 DEF TypeOK, FinishUpload, AddAfterCommitHook
 <2> QED BY <1>3, <2>3, <2>6
     DEF TypeOK, FinishUpload, Respond, Goto, Phase, Status, Step, dbVars, fileVars,
         historyVars
<1> QED BY <1>1, <1>2, <1>3

LEMMA TypeUpdate ==
  ASSUME TypeOK, Given, NEW r \in Requests, UpdateAsset(r)
  PROVE  TypeOK'
<1>1. phase' \in [Requests -> Phase] /\ status' \in [Requests -> Status]
 <2>1. Respond(r, 403) \/ UNCHANGED <<phase, status>> BY DEF UpdateAsset
 <2>2. 403 \in Status BY DEF Status
 <2> QED BY <2>1, <2>2, RespondType
<1>2. step' \in [Requests -> Step] BY DEF TypeOK, UpdateAsset, Goto, Step
<1>3. tx' \in [Requests -> TxState] BY DEF TypeOK, UpdateAsset, Begin, TxState
<1> QED BY <1>1, <1>2, <1>3 DEF TypeOK, UpdateAsset, dbVars, fileVars, historyVars

LEMMA TypeDelete ==
  ASSUME TypeOK, Given, NEW r \in Requests, PlanDelete(r) \/ DeleteAsset(r)
  PROVE  TypeOK'
<1>0. op[r] \in Operation BY DEF TypeOK
<1>1. CASE PlanDelete(r)
 <2>1. op[r].asset \in Assets BY <1>1 DEF PlanDelete, Handling, Given
 <2>2. [op[r] EXCEPT !.parent = row[op[r].asset]] \in Operation BY <1>0, <2>1 DEF TypeOK, Operation
 <2>3. op' \in [Requests -> Operation] BY <1>1, <2>2 DEF TypeOK, PlanDelete, opVars
 <2>4. phase' \in [Requests -> Phase] /\ status' \in [Requests -> Status]
  <3>1. Respond(r, 403) \/ UNCHANGED <<phase, status>> BY <1>1 DEF PlanDelete
  <3>2. 403 \in Status BY DEF Status
  <3> QED BY <3>1, <3>2, RespondType
 <2>5. step' \in [Requests -> Step] BY <1>1 DEF TypeOK, PlanDelete, Goto, Step, opVars
 <2>6. tx' \in [Requests -> TxState] BY <1>1 DEF TypeOK, PlanDelete, Begin, TxState
 <2> QED BY <1>1, <2>3, <2>4, <2>5, <2>6
     DEF TypeOK, PlanDelete, dbVars, fileVars, historyVars
<1>2. CASE DeleteAsset(r)
 <2>1. op[r].asset \in Assets BY <1>2 DEF DeleteAsset, Handling, Given
 <2>2. Append(afterCommitHooks[r], <<"archiveFile", op[r].asset>>)
         \in Seq(Archive \cup Publish) BY <2>1, HookTypes, HookLists, AppendProperties
 <2>3. afterCommitHooks' \in [Requests -> Seq(Archive \cup Publish)]
   BY <1>2, <2>2 DEF TypeOK, DeleteAsset, AddAfterCommitHook
 <2>4. phase' \in [Requests -> Phase] /\ status' \in [Requests -> Status]
  <3>1. Respond(r, 403) \/ UNCHANGED <<phase, status>> BY <1>2 DEF DeleteAsset
  <3>2. 403 \in Status BY DEF Status
  <3> QED BY <3>1, <3>2, RespondType
 <2>5. step' \in [Requests -> Step] BY <1>2 DEF TypeOK, DeleteAsset, Goto, Step
 <2> QED BY <1>2, <2>3, <2>4, <2>5
     DEF TypeOK, DeleteAsset, dbVars, fileVars, historyVars
<1> QED BY <1>1, <1>2

LEMMA TypeResync ==
  ASSUME TypeOK, Given, NEW r \in Requests, FetchPreferred(r) \/ UpdateCached(r)
  PROVE  TypeOK'
<1>0. op[r] \in Operation BY DEF TypeOK
<1>1. CASE FetchPreferred(r)
 <2> DEFINE S == {a \in Assets : RowView(r)[a] = op[r].parent}
 <2>1. Preferred(S) \in Assets \cup {NoAsset} BY PreferredType
 <2>2. op' = [op EXCEPT ![r].preferred = Preferred(S)] BY <1>1 DEF FetchPreferred
 <2> HIDE DEF S
 <2>3. [op[r] EXCEPT !.preferred = Preferred(S)] \in Operation BY <1>0, <2>1 DEF Operation
 <2>4. op' \in [Requests -> Operation] BY <2>2, <2>3 DEF TypeOK
 <2> QED BY <1>1, <2>4
     DEF TypeOK, FetchPreferred, Goto, Step, lazyVars, dbVars, fileVars, historyVars
<1>2. CASE UpdateCached(r)
 <2>1. op[r].asset \in Assets /\ op[r].kind \in {"update", "delete"}
   BY <1>2 DEF UpdateCached, Handling, Given
 <2>2. <<"publish", <<op[r].kind, op[r].asset>> >> \in Archive \cup Publish BY <2>1, HookTypes
 <2>3. Append(afterCommitHooks[r], <<"publish", <<op[r].kind, op[r].asset>> >>)
         \in Seq(Archive \cup Publish) BY <2>2, HookLists, AppendProperties
 <2>4. afterCommitHooks' \in [Requests -> Seq(Archive \cup Publish)]
   BY <1>2, <2>3 DEF TypeOK, UpdateCached, AddAfterCommitHook
 <2> QED BY <1>2, <2>4
     DEF TypeOK, UpdateCached, Respond, Goto, Phase, Status, Step,
         dbVars, fileVars, historyVars
<1> QED BY <1>1, <1>2

LEMMA TypeDeleteParent ==
  ASSUME TypeOK, Given, NEW r \in Requests, DeleteParent(r)
  PROVE  TypeOK'
<1> DEFINE p == op[r].parent
<1>1. p \in Parents BY DEF DeleteParent, Handling, Given
<1>2. Append(afterCommitHooks[r], <<"archiveFolder", p>>) \in Seq(Archive \cup Publish)
  BY <1>1, HookTypes, HookLists, AppendProperties
<1>3. <<"publish", <<"deleteParent", p>> >> \in Archive \cup Publish BY <1>1, HookTypes
<1>4. Append(Append(afterCommitHooks[r], <<"archiveFolder", p>>),
             <<"publish", <<"deleteParent", p>> >>) \in Seq(Archive \cup Publish)
  BY <1>2, <1>3, AppendProperties
<1>5. afterCommitHooks' \in [Requests -> Seq(Archive \cup Publish)] BY <1>4 DEF TypeOK, DeleteParent
<1>6. phase' \in [Requests -> Phase] /\ status' \in [Requests -> Status]
 <2>1. Respond(r, 200) \/ Respond(r, 403) BY DEF DeleteParent
 <2>2. 200 \in Status /\ 403 \in Status BY DEF Status
 <2> QED BY <2>1, <2>2, RespondType
<1>7. step' \in [Requests -> Step] BY DEF TypeOK, DeleteParent, Goto, Step
<1>8. tx' \in [Requests -> TxState] BY DEF TypeOK, DeleteParent, Begin, TxState
<1> QED BY <1>5, <1>6, <1>7, <1>8
    DEF TypeOK, DeleteParent, dbVars, fileVars, historyVars

LEMMA TypeCommit ==
  ASSUME TypeOK, Given, NEW r \in Requests, TxCommits(r)
  PROVE  TypeOK'
<1>1. PICK l \in {afterCommitHooks[r], afterRollbackHooks[r]} : EndTx(r, "committed", l)
  BY DEF TxCommits, Commit, CommitReplyLost
<1>2. /\ phase' \in [Requests -> Phase] /\ status' \in [Requests -> Status]
      /\ tx' \in [Requests -> TxState]
      /\ afterCommitHooks' \in [Requests -> Seq(Archive \cup Publish)]
      /\ afterRollbackHooks' \in [Requests -> Seq(Cleanup)]
      /\ hooks' \in [Requests -> Seq(Archive \cup Publish \cup Cleanup)] BY <1>1, EndTxType DEF TxState
<1>3. op' \in [Requests -> Operation] /\ step' \in [Requests -> Step] BY HandlerGoneType DEF TxCommits
<1>4. row' \in [Assets -> Parents \cup {NoParent}] BY RowViewType DEF TxCommits, Install
<1>5. parents' \subseteq Parents BY DEF TypeOK, TxCommits, Install
<1>6. cached' \in [Parents -> Assets \cup {NoAsset}]
 <2>1. op[r].preferred \in Assets \cup {NoAsset} BY DEF TypeOK, Operation
 <2>2. \A p \in Parents : cached[p] \in Assets \cup {NoAsset} BY DEF TypeOK
 <2> QED BY <2>1, <2>2 DEF TxCommits, Install
<1>7. everCommitted' \subseteq Assets BY DEF TypeOK, TxCommits, Install
<1> QED BY <1>2, <1>3, <1>4, <1>5, <1>6, <1>7 DEF TypeOK, TxCommits, fileVars

LEMMA TypeRollBack ==
  ASSUME TypeOK, Given, NEW r \in Requests, TxRollsBack(r)
  PROVE  TypeOK'
<1>1. EndTx(r, "rolledBack", afterRollbackHooks[r]) BY DEF TxRollsBack, Rollback, CommitFails
<1>2. /\ phase' \in [Requests -> Phase] /\ status' \in [Requests -> Status]
      /\ tx' \in [Requests -> TxState]
      /\ afterCommitHooks' \in [Requests -> Seq(Archive \cup Publish)]
      /\ afterRollbackHooks' \in [Requests -> Seq(Cleanup)]
      /\ hooks' \in [Requests -> Seq(Archive \cup Publish \cup Cleanup)] BY <1>1, EndTxType DEF TxState
<1>3. op' \in [Requests -> Operation] /\ step' \in [Requests -> Step] BY HandlerGoneType DEF TxRollsBack
<1> QED BY <1>2, <1>3 DEF TypeOK, TxRollsBack, dbVars, fileVars, historyVars

LEMMA TypeRunHook ==
  ASSUME TypeOK, Given, NEW r \in Requests, RunHook(r)
  PROVE  TypeOK'
<1>1. hooks' \in [Requests -> Seq(Archive \cup Publish \cup Cleanup)]
 <2>1. Tail(hooks[r]) \in Seq(Archive \cup Publish \cup Cleanup)
   BY HookLists, HeadTailProperties DEF RunHook, HookReturns
 <2> QED BY <2>1 DEF TypeOK, RunHook, HookReturns
<1>2. published' \in Event \cup {NoEvent}
  BY DEF TypeOK, RunHook, RunCleanup, RunArchiveFile, RunArchiveFolder, RunPublish,
         FileHookFails, historyVars
<1>3. live' \subseteq Assets /\ archived' \subseteq Assets
  BY DEF TypeOK, RunHook, RunCleanup, RunArchiveFile, RunArchiveFolder, RunPublish,
         FileHookFails, fileVars
<1>4. everCommitted' \subseteq Assets /\ faulted' \in BOOLEAN
  BY DEF TypeOK, RunHook, RunCleanup, RunArchiveFile, RunArchiveFolder, RunPublish,
         FileHookFails, historyVars
<1>5. UNCHANGED <<dbVars, home, opVars>>
  BY DEF RunHook, RunCleanup, RunArchiveFile, RunArchiveFolder, RunPublish,
         FileHookFails, dbVars, fileVars, opVars
<1> QED BY <1>1, <1>2, <1>3, <1>4, <1>5
    DEF TypeOK, RunHook, HookReturns, dbVars, opVars

LEMMA TypeEnds ==
  ASSUME TypeOK, Given, NEW r \in Requests, Ends(r)
  PROVE  TypeOK'
<1>1. op' \in [Requests -> Operation] /\ step' \in [Requests -> Step] BY HandlerGoneType DEF Ends
<1>2. << >> \in Seq(Archive \cup Publish) /\ << >> \in Seq(Cleanup) BY HookLists
<1>3. afterCommitHooks' \in [Requests -> Seq(Archive \cup Publish)]
      /\ afterRollbackHooks' \in [Requests -> Seq(Cleanup)]
      /\ hooks' \in [Requests -> Seq(Archive \cup Publish \cup Cleanup)]
  BY <1>2 DEF TypeOK, Ends, EndWithoutTx, RequestEnds
<1>4. /\ phase' \in [Requests -> Phase] /\ status' \in [Requests -> Status]
      /\ tx' \in [Requests -> TxState]
 <2>1. Forget(r) BY DEF Ends, EndWithoutTx, RequestEnds
 <2> QED BY <2>1 DEF TypeOK, Forget, Phase, Status, TxState
<1> QED BY <1>1, <1>3, <1>4 DEF TypeOK, Ends, dbVars, fileVars, historyVars

LEMMA TypeCrash ==
  ASSUME TypeOK, Crash
  PROVE  TypeOK'
<1>1. << >> \in Seq(Archive \cup Publish) /\ << >> \in Seq(Cleanup)
      /\ << >> \in Seq(Archive \cup Publish \cup Cleanup) BY EmptySeq
<1>2. afterCommitHooks' \in [Requests -> Seq(Archive \cup Publish)]
      /\ afterRollbackHooks' \in [Requests -> Seq(Cleanup)]
      /\ hooks' \in [Requests -> Seq(Archive \cup Publish \cup Cleanup)] BY <1>1 DEF Crash, ProcessDies
<1> QED BY <1>2, NoOperationType
    DEF TypeOK, Crash, ProcessDies, Phase, Status, TxState, Step, dbVars, fileVars

\* Every step keeps the types.
LEMMA TypeNext ==
  ASSUME TypeOK, Given, [Next]_vars
  PROVE  TypeOK'
<1>1. CASE Crash BY <1>1, TypeCrash
<1>2. ASSUME NEW r \in Requests, RequestStep(r)
      PROVE  TypeOK' BY <1>2, TypeArrive, TypeFails, TypeUpload, TypeUpdate, TypeDelete, TypeResync,
     TypeDeleteParent, TypeCommit, TypeRollBack, TypeRunHook, TypeEnds DEF RequestStep
<1>3. CASE UNCHANGED vars BY <1>3 DEF TypeOK, vars, lazyVars, dbVars, fileVars, opVars, historyVars
<1> QED BY <1>1, <1>2, <1>3 DEF Next, RequestStep

-----------------------------------------------------------------------------
(* What a step of one request leaves alone, and the rows that are given.   *)

Untouched(x) ==
  /\ phase'[x] = phase[x] /\ status'[x] = status[x] /\ tx'[x] = tx[x]
  /\ afterCommitHooks'[x] = afterCommitHooks[x]
  /\ afterRollbackHooks'[x] = afterRollbackHooks[x]
  /\ hooks'[x] = hooks[x]
  /\ op'[x] = op[x] /\ step'[x] = step[x]

\* A step of a request leaves what the middleware and the handlers of the
\* other requests hold as it is.
LEMMA Frame ==
  ASSUME TypeOK, NEW r \in Requests, RequestStep(r), NEW x \in Requests \ {r}
  PROVE  Untouched(x)
<1>1. CASE RequestArrives(r) BY <1>1 DEF TypeOK, RequestArrives, Request, Arrive, Untouched
<1>2. CASE Fails(r) BY <1>2 DEF TypeOK, Fails, Respond, opVars, Untouched
<1>3. CASE InsertAsset(r) BY <1>3 DEF TypeOK, InsertAsset, Begin, Goto, Untouched
<1>4. CASE SaveFile(r) BY <1>4 DEF TypeOK, SaveFile, AddAfterRollbackHook, Goto, Untouched
<1>5. CASE FinishUpload(r) BY <1>5 DEF TypeOK, FinishUpload, AddAfterCommitHook, Respond, Goto, Untouched
<1>6. CASE UpdateAsset(r) BY <1>6 DEF TypeOK, UpdateAsset, Begin, Respond, Goto, Untouched
<1>7. CASE PlanDelete(r) BY <1>7 DEF TypeOK, PlanDelete, Begin, Respond, Goto, opVars, Untouched
<1>8. CASE DeleteAsset(r) BY <1>8 DEF TypeOK, DeleteAsset, AddAfterCommitHook, Respond, Goto, Untouched
<1>9. CASE FetchPreferred(r) BY <1>9 DEF TypeOK, FetchPreferred, Goto, lazyVars, Untouched
<1>10. CASE UpdateCached(r) BY <1>10 DEF TypeOK, UpdateCached, AddAfterCommitHook, Respond, Goto, Untouched
<1>11. CASE DeleteParent(r) BY <1>11 DEF TypeOK, DeleteParent, Begin, Respond, Goto, Untouched
<1>12. CASE TxCommits(r)
  BY <1>12 DEF TypeOK, TxCommits, Commit, CommitReplyLost, EndTx, HandlerGone, Untouched
<1>13. CASE TxRollsBack(r)
  BY <1>13 DEF TypeOK, TxRollsBack, Rollback, CommitFails, EndTx, HandlerGone, Untouched
<1>14. CASE RunHook(r)
 <2>1. UNCHANGED opVars BY <1>14 DEF RunHook, RunCleanup, RunArchiveFile, RunArchiveFolder, RunPublish,
                FileHookFails
 <2> QED BY <1>14, <2>1 DEF TypeOK, RunHook, HookReturns, opVars, Untouched
<1>15. CASE Ends(r) BY <1>15 DEF TypeOK, Ends, EndWithoutTx, RequestEnds, Forget, HandlerGone, Untouched
<1> QED BY <1>1, <1>2, <1>3, <1>4, <1>5, <1>6, <1>7, <1>8, <1>9, <1>10, <1>11, <1>12,
      <1>13, <1>14, <1>15 DEF RequestStep

\* The rows of an operation stay given.
LEMMA GivenNext ==
  ASSUME TypeOK, Given, [Next]_vars
  PROVE  Given'
<1> DEFINE G(x) ==
      /\ phase'[x] = "idle" => step'[x] = "start"
      /\ op'[x].kind \in {"update", "delete"} => op'[x].asset \in Assets
      /\ op'[x].kind = "upload" /\ step'[x] # "start" => op'[x].asset \in Assets
      /\ op'[x].kind \in {"upload", "update", "deleteParent"} => op'[x].parent \in Parents
      /\ op'[x].kind = "delete" /\ step'[x] # "start" => op'[x].parent \in Parents
<1>1. ASSUME NEW r \in Requests, RequestStep(r) PROVE G(r)
 <2>0. op[r] \in Operation BY DEF TypeOK
 <2>1. CASE RequestArrives(r)
  <3>1. phase[r] = "idle" /\ phase'[r] # "idle" /\ step' = step
    BY <2>1 DEF TypeOK, RequestArrives, Request, Arrive
  <3>2. PICK kind \in Kind, a \in Assets \cup {NoAsset}, p \in Parents \cup {NoParent} :
          /\ Request(r, kind, a, p)
          /\ kind \in {"update", "delete"} => a \in Assets
          /\ kind \in {"upload", "update", "deleteParent"} => p \in Parents BY <2>1 DEF RequestArrives, Kind
  <3>3. op'[r] = [kind |-> kind, asset |-> a, parent |-> p, preferred |-> NoAsset]
    BY <3>2 DEF TypeOK, Request
  <3> QED BY <3>1, <3>2, <3>3 DEF Given
 <2>2. CASE Fails(r) BY <2>2 DEF TypeOK, Given, Fails, Respond, opVars
 <2>3. CASE InsertAsset(r)
  <3>1. PICK a \in Assets : op' = [op EXCEPT ![r].asset = a] BY <2>3 DEF InsertAsset
  <3>2. op'[r] = [op[r] EXCEPT !.asset = a] BY <3>1 DEF TypeOK
  <3> QED BY <2>0, <2>3, <3>2 DEF TypeOK, Given, InsertAsset, Handling, Operation
 <2>4. CASE SaveFile(r) BY <2>4 DEF TypeOK, Given, SaveFile, Handling, Goto
 <2>5. CASE FinishUpload(r)
  <3>1. op'[r] = [op[r] EXCEPT !.preferred = op[r].asset] BY <2>5 DEF TypeOK, FinishUpload
  <3> QED BY <2>0, <2>5, <3>1
      DEF TypeOK, Given, FinishUpload, Handling, Respond, Goto, Operation
 <2>6. CASE UpdateAsset(r)
  <3>1. op' = op /\ op[r].kind = "update" /\ phase'[r] # "idle"
    BY <2>6 DEF TypeOK, UpdateAsset, Handling, Respond
  <3> QED BY <3>1 DEF Given
 <2>7. CASE PlanDelete(r)
  <3>1. op[r].kind = "delete" /\ phase'[r] # "idle" /\ step[r] = "start"
    BY <2>7 DEF TypeOK, PlanDelete, Handling, Respond
  <3>2. CASE UNCHANGED opVars BY <3>1, <3>2 DEF Given, opVars
  <3>3. CASE ~UNCHANGED opVars
   <4>1. row[op[r].asset] \in Parents BY <2>7, <3>1, <3>3 DEF TypeOK, Given, PlanDelete
   <4>2. op'[r] = [op[r] EXCEPT !.parent = row[op[r].asset]] BY <2>7, <3>3 DEF TypeOK, PlanDelete
   <4> QED BY <2>0, <3>1, <4>1, <4>2 DEF Given, Operation
  <3> QED BY <3>2, <3>3
 <2>8. CASE DeleteAsset(r)
  <3>1. op' = op /\ op[r].kind = "delete" /\ phase'[r] # "idle" /\ step[r] # "start"
    BY <2>8 DEF TypeOK, DeleteAsset, Handling, Respond
  <3> QED BY <3>1 DEF Given
 <2>9. CASE FetchPreferred(r)
  <3>1. op'[r] = [op[r] EXCEPT !.preferred =
                    Preferred({a \in Assets : RowView(r)[a] = op[r].parent})]
    BY <2>9 DEF TypeOK, FetchPreferred
  <3>2. step[r] = "wrote" /\ phase'[r] = "handling" BY <2>9 DEF FetchPreferred, Handling, lazyVars
  <3> QED BY <2>0, <2>9, <3>1, <3>2 DEF TypeOK, Given, Operation
 <2>10. CASE UpdateCached(r)
  <3>1. op' = op /\ step[r] # "start" /\ phase'[r] # "idle"
    BY <2>10 DEF TypeOK, UpdateCached, Handling, Respond
  <3> QED BY <3>1 DEF Given
 <2>11. CASE DeleteParent(r)
  <3>1. op' = op /\ op[r].kind = "deleteParent" /\ phase'[r] # "idle"
    BY <2>11 DEF TypeOK, DeleteParent, Handling, Respond
  <3> QED BY <3>1 DEF Given
 <2>12. CASE TxCommits(r) \/ TxRollsBack(r) \/ Ends(r)
  <3>1. op'[r] = NoOperation /\ step'[r] = "start"
    BY <2>12 DEF TypeOK, TxCommits, TxRollsBack, Ends, HandlerGone
  <3> QED BY <3>1 DEF NoOperation
 <2>13. CASE RunHook(r)
  <3>1. op' = op /\ step' = step /\ phase' = phase
    BY <2>13 DEF RunHook, HookReturns, RunCleanup, RunArchiveFile, RunArchiveFolder,
                 RunPublish, FileHookFails, opVars
  <3> QED BY <3>1 DEF Given
 <2> QED BY <1>1, <2>1, <2>2, <2>3, <2>4, <2>5, <2>6, <2>7, <2>8, <2>9, <2>10, <2>11,
       <2>12, <2>13 DEF RequestStep
<1>2. ASSUME NEW r \in Requests, RequestStep(r), NEW x \in Requests \ {r} PROVE G(x)
 <2>1. Untouched(x) BY <1>2, Frame
 <2> QED BY <2>1 DEF Untouched, Given
<1>3. ASSUME NEW r \in Requests, RequestStep(r) PROVE Given'
 <2>1. \A x \in Requests : G(x) BY <1>1, <1>2, <1>3
 <2> QED BY <2>1 DEF Given
<1>4. CASE Crash BY <1>4 DEF Given, Crash, ProcessDies, NoOperation
<1>5. CASE UNCHANGED vars BY <1>5 DEF Given, vars, lazyVars, opVars
<1> QED BY <1>3, <1>4, <1>5 DEF Next, RequestStep

LEMMA Initially ==
  ASSUME Init
  PROVE  TypeOK /\ Given
<1>1. << >> \in Seq(Archive \cup Publish) /\ << >> \in Seq(Cleanup)
      /\ << >> \in Seq(Archive \cup Publish \cup Cleanup) BY EmptySeq
<1>2. /\ afterCommitHooks \in [Requests -> Seq(Archive \cup Publish)]
      /\ afterRollbackHooks \in [Requests -> Seq(Cleanup)]
      /\ hooks \in [Requests -> Seq(Archive \cup Publish \cup Cleanup)] BY <1>1 DEF Init, LazyInit
<1>3. TypeOK BY <1>2, NoOperationType DEF TypeOK, Init, LazyInit, Phase, Status, TxState, Step
<1>4. Given BY DEF Given, Init, LazyInit, NoOperation
<1> QED BY <1>3, <1>4

\* Every variable keeps its type, however requests, rollbacks, hooks, file
\* failures and crashes are interleaved; in particular only the hooks that
\* clean up are ever in a rollback list (LazyTx.AddAfterRollbackHook).
THEOREM TypeCorrect == Spec => []TypeOK
<1>1. Init => TypeOK /\ Given BY Initially
<1>2. TypeOK /\ Given /\ [Next]_vars => (TypeOK /\ Given)' BY TypeNext, GivenNext
<1> QED BY <1>1, <1>2, PTL DEF Spec

-----------------------------------------------------------------------------
(* What a step does to the database, to the files and to the locks.        *)

\* Only a commit changes the database, only an insert hands out an id, and only
\* an upload and the hooks move files.
LEMMA Effects ==
  ASSUME TypeOK, NEW r \in Requests, RequestStep(r)
  PROVE  /\ TxCommits(r) \/ UNCHANGED <<row, parents, everCommitted>>
         /\ TxCommits(r) \/ cached' = cached
         /\ InsertAsset(r) \/ UNCHANGED home
         /\ SaveFile(r) \/ RunHook(r) \/ UNCHANGED <<live, archived>>
<1>1. CASE RunHook(r) BY <1>1 DEF RunHook, RunCleanup, RunArchiveFile, RunArchiveFolder, RunPublish,
              FileHookFails, dbVars, fileVars, historyVars
<1>2. CASE RequestArrives(r) \/ Fails(r) \/ SaveFile(r) \/ FinishUpload(r) \/ UpdateAsset(r)
  BY <1>2 DEF RequestArrives, Request, Fails, SaveFile, FinishUpload, UpdateAsset,
              dbVars, fileVars, historyVars
<1>3. CASE InsertAsset(r) \/ TxCommits(r) BY <1>3 DEF InsertAsset, TxCommits, dbVars, fileVars, historyVars
<1>4. CASE PlanDelete(r) \/ DeleteAsset(r) \/ FetchPreferred(r) \/ UpdateCached(r)
  BY <1>4 DEF PlanDelete, DeleteAsset, FetchPreferred, UpdateCached,
              dbVars, fileVars, historyVars
<1>5. CASE DeleteParent(r) \/ TxRollsBack(r) \/ Ends(r)
  BY <1>5 DEF DeleteParent, TxRollsBack, Ends, dbVars, fileVars, historyVars
<1> QED BY <1>1, <1>2, <1>3, <1>4, <1>5 DEF RequestStep

\* An upload that commits has made its row; another request has made none that
\* was not there.
LEMMA CommitEffect ==
  ASSUME TypeOK, Shape, Rows, Written, NEW r \in Requests, TxCommits(r)
  PROVE  /\ parents' \subseteq parents
         /\ Wrote(r) /\ op[r].kind = "deleteParent" => parents' = parents \ {op[r].parent}
         /\ ~(Wrote(r) /\ op[r].kind = "deleteParent") => parents' = parents
         /\ \A a \in Assets :
              \/ row'[a] = NoParent /\ (row[a] # NoParent => Wrote(r))
              \/ row'[a] = row[a]
              \/ /\ Wrote(r) /\ op[r].kind \in {"upload", "update"}
                 /\ a = op[r].asset /\ row'[a] = op[r].parent
         /\ \A a \in Assets : row'[a] = RowView(r)[a]
         /\ everCommitted \subseteq everCommitted'
         /\ \A a \in Assets : row'[a] # NoParent => a \in everCommitted'
         /\ \A a \in everCommitted' :
              a \in everCommitted \/ (Wrote(r) /\ op[r].kind = "upload" /\ a = op[r].asset)
<1>0. op[r].kind \in Kind BY DEF TypeOK, Operation
<1>1. row' = RowView(r) /\ everCommitted' = everCommitted \cup {a \in Assets : RowView(r)[a] # NoParent}
  BY DEF TxCommits, Install
<1>2. parents' = IF Wrote(r) /\ op[r].kind = "deleteParent"
                   THEN parents \ {op[r].parent} ELSE parents BY DEF TxCommits, Install
<1>3. ASSUME NEW a \in Assets
      PROVE  \/ row'[a] = NoParent /\ (row[a] # NoParent => Wrote(r))
             \/ row'[a] = row[a]
             \/ /\ Wrote(r) /\ op[r].kind \in {"upload", "update"}
                /\ a = op[r].asset /\ row'[a] = op[r].parent
 <2>1. CASE ~Wrote(r) BY <1>1, <2>1 DEF RowView
 <2>2. CASE Wrote(r) /\ op[r].kind \in {"deleteParent", "delete"} BY <1>1, <2>2 DEF RowView
 <2>3. CASE Wrote(r) /\ op[r].kind \in {"upload", "update"} BY <1>1, <2>3 DEF RowView
 <2>4. Wrote(r) => op[r].kind # "none" BY DEF Shape, Wrote
 <2> QED BY <1>0, <2>1, <2>2, <2>3, <2>4 DEF Kind
<1>4. ASSUME NEW a \in everCommitted', a \notin everCommitted
      PROVE  Wrote(r) /\ op[r].kind = "upload" /\ a = op[r].asset
 <2>1. a \in Assets /\ row'[a] # NoParent BY <1>1, <1>4
 <2>2. row[a] = NoParent BY <1>4, <2>1 DEF Rows
 <2> QED BY <1>3, <2>1, <2>2 DEF Written
<1> QED BY <1>1, <1>2, <1>3, <1>4

\* The rows of an operation are not changed.
SameRows(r) ==
  op'[r].kind = op[r].kind /\ op'[r].asset = op[r].asset /\ op'[r].parent = op[r].parent

\* What a transaction that writes first has waited for.
Acquires(r) ==
  /\ op'[r].kind \in {"upload", "update", "deleteParent"} =>
       op'[r].parent \in parents /\ ~ParentDeleted(r, op'[r].parent)
  /\ op'[r].kind \in {"update", "delete"} =>
       row[op'[r].asset] # NoParent /\ ~AssetLocked(r, op'[r].asset)
  /\ op'[r].kind = "deleteParent" =>
       /\ ~ParentReferenced(r, op'[r].parent)
       /\ \A a \in Assets : row[a] = op'[r].parent => ~AssetLocked(r, a)

\* The operation of a request is made when it arrives, is told its asset by the
\* insert or its parent by the plan, and ends with the handler.
LEMMA OpSteps ==
  ASSUME TypeOK, NEW r \in Requests, RequestStep(r)
  PROVE  \/ RequestArrives(r)
         \/ InsertAsset(r)
         \/ PlanDelete(r)
         \/ op'[r] = NoOperation /\ step'[r] = "start"
         \/ SameRows(r)
<1>0. op[r] \in Operation BY DEF TypeOK
<1>1. CASE Fails(r) \/ SaveFile(r) \/ UpdateAsset(r)
  BY <1>1 DEF Fails, SaveFile, UpdateAsset, SameRows, opVars
<1>2. CASE DeleteAsset(r) \/ UpdateCached(r) \/ DeleteParent(r)
  BY <1>2 DEF DeleteAsset, UpdateCached, DeleteParent, SameRows
<1>3. CASE FinishUpload(r)
 <2>1. op'[r] = [op[r] EXCEPT !.preferred = op[r].asset] BY <1>3 DEF TypeOK, FinishUpload
 <2> QED BY <1>0, <2>1 DEF SameRows, Operation
<1>4. CASE FetchPreferred(r)
 <2>1. op'[r] = [op[r] EXCEPT !.preferred =
                   Preferred({a \in Assets : RowView(r)[a] = op[r].parent})]
   BY <1>4 DEF TypeOK, FetchPreferred
 <2> QED BY <1>0, <2>1 DEF SameRows, Operation
<1>5. CASE TxCommits(r) \/ TxRollsBack(r) \/ Ends(r)
  BY <1>5 DEF TypeOK, TxCommits, TxRollsBack, Ends, HandlerGone
<1>6. CASE RunHook(r) BY <1>6 DEF RunHook, RunCleanup, RunArchiveFile, RunArchiveFolder, RunPublish,
              FileHookFails, SameRows, opVars
<1> QED BY <1>1, <1>2, <1>3, <1>4, <1>5, <1>6 DEF RequestStep

\* A transaction that has written had written before, or has just waited for
\* the rows it needed.
LEMMA WroteSteps ==
  ASSUME TypeOK, Shape, NEW r \in Requests, RequestStep(r), Wrote(r)'
  PROVE  (Wrote(r) /\ SameRows(r)) \/ Acquires(r)
<1>0. /\ op[r] \in Operation
      /\ tx'[r] = "open" /\ step'[r] \in {"wrote", "saved", "fetched", "cached"} BY DEF TypeOK, Wrote
<1>1. CASE RequestArrives(r) BY <1>0, <1>1 DEF TypeOK, Shape, RequestArrives, Request, Arrive
<1>2. CASE Fails(r) BY <1>0, <1>2 DEF Fails, Wrote, SameRows, opVars
<1>3. CASE InsertAsset(r)
 <2>1. PICK a \in Assets : op'[r] = [op[r] EXCEPT !.asset = a] BY <1>3 DEF TypeOK, InsertAsset
 <2>2. op'[r].kind = "upload" /\ op'[r].parent = op[r].parent
   BY <1>0, <1>3, <2>1 DEF InsertAsset, Handling, Operation
 <2> QED BY <1>3, <2>2 DEF InsertAsset, Acquires
<1>4. CASE SaveFile(r)
 <2>1. step[r] = "wrote" /\ op' = op /\ tx' = tx BY <1>4 DEF SaveFile, Handling
 <2> QED BY <1>0, <2>1 DEF Wrote, SameRows
<1>5. CASE FinishUpload(r)
 <2>1. step[r] = "saved" /\ tx' = tx BY <1>5 DEF FinishUpload, Handling
 <2>2. op'[r] = [op[r] EXCEPT !.preferred = op[r].asset] BY <1>5 DEF TypeOK, FinishUpload
 <2> QED BY <1>0, <2>1, <2>2 DEF Wrote, SameRows, Operation
<1>6. CASE UpdateAsset(r)
 <2>1. op' = op /\ op[r].kind = "update" /\ step[r] = "start" BY <1>6 DEF UpdateAsset, Handling
 <2>2. /\ row[op[r].asset] # NoParent /\ ~AssetLocked(r, op[r].asset)
       /\ op[r].parent \in parents /\ ~ParentDeleted(r, op[r].parent) BY <1>0, <1>6, <2>1 DEF UpdateAsset
 <2> QED BY <2>1, <2>2 DEF Acquires
<1>7. CASE PlanDelete(r)
 <2>1. step[r] = "start" /\ (UNCHANGED opVars \/ step' = [step EXCEPT ![r] = "planned"])
   BY <1>7 DEF PlanDelete, Handling, Goto
 <2>2. step'[r] \in {"start", "planned"} BY <2>1 DEF TypeOK, opVars
 <2> QED BY <1>0, <2>2
<1>8. CASE DeleteAsset(r)
 <2>1. op' = op /\ op[r].kind = "delete" /\ step[r] = "planned" BY <1>8 DEF DeleteAsset, Handling
 <2>2. row[op[r].asset] # NoParent /\ ~AssetLocked(r, op[r].asset) BY <1>0, <1>8, <2>1 DEF DeleteAsset
 <2> QED BY <2>1, <2>2 DEF Acquires
<1>9. CASE FetchPreferred(r)
 <2>1. step[r] = "wrote" /\ tx' = tx BY <1>9 DEF FetchPreferred, Handling, lazyVars
 <2>2. op'[r] = [op[r] EXCEPT !.preferred =
                   Preferred({a \in Assets : RowView(r)[a] = op[r].parent})]
   BY <1>9 DEF TypeOK, FetchPreferred
 <2> QED BY <1>0, <2>1, <2>2 DEF Wrote, SameRows, Operation
<1>10. CASE UpdateCached(r)
 <2>1. step[r] = "fetched" /\ op' = op /\ tx' = tx BY <1>10 DEF UpdateCached, Handling
 <2> QED BY <1>0, <2>1 DEF Wrote, SameRows
<1>11. CASE DeleteParent(r)
 <2>1. op' = op /\ op[r].kind = "deleteParent" /\ step[r] = "start" BY <1>11 DEF DeleteParent, Handling
 <2>2. op[r].parent \in parents BY <1>0, <1>11, <2>1 DEF DeleteParent
 <2>3. /\ ~ParentDeleted(r, op[r].parent) /\ ~ParentReferenced(r, op[r].parent)
       /\ \A a \in Assets : row[a] = op[r].parent => ~AssetLocked(r, a) BY <1>11 DEF DeleteParent
 <2> QED BY <2>1, <2>2, <2>3 DEF Acquires
<1>12. CASE TxCommits(r) \/ TxRollsBack(r) \/ Ends(r)
 <2>1. step'[r] = "start" BY <1>12 DEF TypeOK, TxCommits, TxRollsBack, Ends, HandlerGone
 <2> QED BY <1>0, <2>1
<1>13. CASE RunHook(r)
 <2>1. op' = op /\ step' = step /\ tx' = tx
   BY <1>13 DEF RunHook, HookReturns, RunCleanup, RunArchiveFile, RunArchiveFolder,
                RunPublish, FileHookFails, opVars
 <2> QED BY <1>0, <2>1 DEF Wrote, SameRows
<1> QED BY <1>1, <1>2, <1>3, <1>4, <1>5, <1>6, <1>7, <1>8, <1>9, <1>10, <1>11, <1>12, <1>13
    DEF RequestStep

\* A transaction that has not been stepped has written what it had written.
LEMMA WroteUntouched ==
  ASSUME NEW x \in Requests, Untouched(x)
  PROVE  Wrote(x)' <=> Wrote(x) BY DEF Untouched, Wrote

-----------------------------------------------------------------------------
(* A step of a request preserves each part of the invariant.               *)

\* Rows refer to parents that exist, and ids are never forgotten.
LEMMA RowsStep ==
  ASSUME TypeOK, Given, Shape, Rows, Uploads, Written, NEW r \in Requests, RequestStep(r)
  PROVE  Rows'
<1>1. CASE TxCommits(r)
 <2>1. home' = home BY <1>1 DEF TxCommits, fileVars
 <2>2. ASSUME NEW a \in Assets, row'[a] # NoParent
       PROVE  row'[a] \in parents' /\ a \in everCommitted'
  <3>1. a \in everCommitted' BY <1>1, <2>2, CommitEffect
  <3>2. CASE Wrote(r) /\ op[r].kind = "deleteParent"
   <4>1. row'[a] = row[a] /\ row[a] # op[r].parent BY <1>1, <2>2, <3>2, CommitEffect DEF RowView
   <4>2. parents' = parents \ {op[r].parent} BY <1>1, <3>2, CommitEffect
   <4> QED BY <2>2, <3>1, <4>1, <4>2 DEF Rows
  <3>3. CASE ~(Wrote(r) /\ op[r].kind = "deleteParent")
   <4>1. parents' = parents BY <1>1, <3>3, CommitEffect
   <4>2. row'[a] = row[a] \/ (Wrote(r) /\ op[r].kind \in {"upload", "update"}
                                /\ row'[a] = op[r].parent) BY <1>1, <2>2, CommitEffect
   <4> QED BY <2>2, <3>1, <4>1, <4>2 DEF Rows, Written
  <3> QED BY <3>2, <3>3
 <2>3. ASSUME NEW a \in Assets, a \in everCommitted'
       PROVE  home'[a] # NoParent
  <3>1. CASE a \in everCommitted BY <2>1, <3>1 DEF Rows
  <3>2. CASE a \notin everCommitted
   <4>1. Wrote(r) /\ op[r].kind = "upload" /\ a = op[r].asset BY <1>1, <2>3, <3>2, CommitEffect
   <4> QED BY <2>1, <4>1 DEF Uploads
  <3> QED BY <3>1, <3>2
 <2> QED BY <2>2, <2>3 DEF Rows
<1>2. CASE InsertAsset(r)
 <2>1. PICK a \in Assets : home' = [home EXCEPT ![a] = op[r].parent] BY <1>2 DEF InsertAsset
 <2>2. op[r].parent # NoParent BY <1>2, MediaAssumption DEF TypeOK, InsertAsset
 <2>3. \A b \in Assets : home[b] # NoParent => home'[b] # NoParent BY <2>1, <2>2 DEF TypeOK
 <2>4. UNCHANGED <<row, parents, everCommitted>> BY <1>2 DEF InsertAsset, dbVars, historyVars
 <2> QED BY <2>3, <2>4 DEF Rows
<1>3. CASE ~TxCommits(r) /\ ~InsertAsset(r)
 <2>1. UNCHANGED <<row, parents, everCommitted, home>> BY <1>3, Effects
 <2> QED BY <2>1 DEF Rows
<1> QED BY <1>1, <1>2, <1>3

\* The middleware and the handler stay in step.
LEMMA ShapeStep ==
  ASSUME TypeOK, Shape, NEW r \in Requests, RequestStep(r)
  PROVE  Shape'
<1> DEFINE S(x) ==
      /\ phase'[x] \in {"idle", "hooks"} =>
           /\ op'[x] = NoOperation /\ step'[x] = "start"
           /\ afterCommitHooks'[x] = << >> /\ afterRollbackHooks'[x] = << >>
      /\ phase'[x] # "hooks" => tx'[x] \in {"none", "open"}
      /\ step'[x] # "start" => tx'[x] = "open" /\ op'[x].kind # "none"
      /\ phase'[x] = "responded" /\ CommitsOn(status'[x]) /\ op'[x].kind = "upload"
           => step'[x] = "cached"
<1>1. S(r)
 <2>0. op[r] \in Operation /\ op[r].kind \in Kind BY DEF TypeOK, Operation
 <2>1. CASE RequestArrives(r)
  <3>1. phase[r] = "idle" /\ phase'[r] = "handling" /\ step' = step /\ tx' = tx
    BY <2>1 DEF TypeOK, RequestArrives, Request, Arrive
  <3> QED BY <3>1 DEF Shape
 <2>2. CASE Fails(r)
  <3>1. /\ phase[r] = "handling" /\ phase'[r] = "responded" /\ status'[r] = 500
        /\ op' = op /\ step' = step /\ tx' = tx BY <2>2 DEF TypeOK, Fails, Respond, opVars
  <3>2. ~CommitsOn(500) BY DEF CommitsOn
  <3> QED BY <3>1, <3>2 DEF Shape
 <2>3. CASE InsertAsset(r)
  <3>1. /\ phase[r] = "handling" /\ phase' = phase
        /\ tx'[r] = IF tx[r] = "none" THEN "open" ELSE tx[r]
    BY <2>3 DEF TypeOK, InsertAsset, Handling, Begin
  <3>2. PICK a \in Assets : op'[r] = [op[r] EXCEPT !.asset = a] BY <2>3 DEF TypeOK, InsertAsset
  <3>3. op'[r].kind = "upload" BY <2>0, <2>3, <3>2 DEF InsertAsset, Handling, Operation
  <3> QED BY <3>1, <3>3 DEF Shape
 <2>4. CASE SaveFile(r)
  <3>1. /\ phase[r] = "handling" /\ phase' = phase /\ tx' = tx /\ op' = op
        /\ step[r] = "wrote" BY <2>4 DEF SaveFile, Handling
  <3> QED BY <3>1 DEF Shape
 <2>5. CASE FinishUpload(r)
  <3>1. /\ phase[r] = "handling" /\ phase'[r] = "responded" /\ tx' = tx
        /\ step[r] = "saved" /\ step'[r] = "cached"
    BY <2>5 DEF TypeOK, FinishUpload, Handling, Respond, Goto
  <3>2. op'[r] = [op[r] EXCEPT !.preferred = op[r].asset] BY <2>5 DEF TypeOK, FinishUpload
  <3> QED BY <2>0, <3>1, <3>2 DEF Shape, Operation
 <2>6. CASE UpdateAsset(r)
  <3>1. phase[r] = "handling" /\ op[r].kind = "update" /\ op' = op BY <2>6 DEF UpdateAsset, Handling
  <3>2. tx'[r] = IF tx[r] = "none" THEN "open" ELSE tx[r] BY <2>6 DEF TypeOK, UpdateAsset, Begin
  <3>3. phase'[r] \in {"handling", "responded"}
   <4>1. UNCHANGED <<phase, status>> \/ Respond(r, 403) BY <2>6 DEF UpdateAsset
   <4> QED BY <3>1, <4>1 DEF TypeOK, Respond
  <3> QED BY <3>1, <3>2, <3>3 DEF Shape
 <2>7. CASE PlanDelete(r)
  <3>1. phase[r] = "handling" /\ op[r].kind = "delete" /\ step[r] = "start" BY <2>7 DEF PlanDelete, Handling
  <3>2. tx'[r] = IF tx[r] = "none" THEN "open" ELSE tx[r] BY <2>7 DEF TypeOK, PlanDelete, Begin
  <3>3. phase'[r] \in {"handling", "responded"}
   <4>1. UNCHANGED <<phase, status>> \/ Respond(r, 403) BY <2>7 DEF PlanDelete
   <4> QED BY <3>1, <4>1 DEF TypeOK, Respond
  <3>4. op'[r].kind = "delete"
   <4>1. UNCHANGED opVars \/ op' = [op EXCEPT ![r].parent = row[op[r].asset]] BY <2>7 DEF PlanDelete
   <4>2. CASE op' = [op EXCEPT ![r].parent = row[op[r].asset]]
    <5>1. op'[r] = [op[r] EXCEPT !.parent = row[op[r].asset]] BY <4>2 DEF TypeOK
    <5> QED BY <2>0, <3>1, <5>1 DEF Operation
   <4> QED BY <3>1, <4>1, <4>2 DEF opVars
  <3> QED BY <3>1, <3>2, <3>3, <3>4 DEF Shape
 <2>8. CASE DeleteAsset(r)
  <3>1. /\ phase[r] = "handling" /\ op[r].kind = "delete" /\ op' = op /\ tx' = tx
        /\ step[r] = "planned" BY <2>8 DEF DeleteAsset, Handling
  <3>2. phase'[r] \in {"handling", "responded"}
   <4>1. UNCHANGED <<phase, status>> \/ Respond(r, 403) BY <2>8 DEF DeleteAsset
   <4> QED BY <3>1, <4>1 DEF TypeOK, Respond
  <3> QED BY <3>1, <3>2 DEF Shape
 <2>9. CASE FetchPreferred(r)
  <3>1. /\ phase[r] = "handling" /\ phase' = phase /\ tx' = tx /\ step[r] = "wrote"
        /\ op[r].kind \in {"update", "delete"} BY <2>9 DEF FetchPreferred, Handling, lazyVars
  <3>2. op'[r] = [op[r] EXCEPT !.preferred =
                    Preferred({a \in Assets : RowView(r)[a] = op[r].parent})]
    BY <2>9 DEF TypeOK, FetchPreferred
  <3> QED BY <2>0, <3>1, <3>2 DEF Shape, Operation
 <2>10. CASE UpdateCached(r)
  <3>1. /\ phase[r] = "handling" /\ phase'[r] = "responded" /\ tx' = tx /\ op' = op
        /\ step[r] = "fetched" /\ op[r].kind \in {"update", "delete"}
    BY <2>10 DEF TypeOK, UpdateCached, Handling, Respond
  <3> QED BY <3>1 DEF Shape
 <2>11. CASE DeleteParent(r)
  <3>1. phase[r] = "handling" /\ op[r].kind = "deleteParent" /\ op' = op BY <2>11 DEF DeleteParent, Handling
  <3>2. tx'[r] = IF tx[r] = "none" THEN "open" ELSE tx[r] BY <2>11 DEF TypeOK, DeleteParent, Begin
  <3>3. phase'[r] = "responded" BY <2>11 DEF TypeOK, DeleteParent, Respond
  <3> QED BY <3>1, <3>2, <3>3 DEF Shape
 <2>12. CASE TxCommits(r) \/ TxRollsBack(r)
  <3>1. /\ op'[r] = NoOperation /\ step'[r] = "start" /\ phase'[r] = "hooks"
        /\ afterCommitHooks'[r] = << >> /\ afterRollbackHooks'[r] = << >>
    BY <2>12 DEF TypeOK, TxCommits, TxRollsBack, Commit, CommitReplyLost, Rollback,
                 CommitFails, EndTx, HandlerGone
  <3> QED BY <3>1
 <2>13. CASE Ends(r)
  <3>1. /\ op'[r] = NoOperation /\ step'[r] = "start" /\ phase'[r] = "idle"
        /\ tx'[r] = "none" BY <2>13 DEF TypeOK, Ends, EndWithoutTx, RequestEnds, Forget, HandlerGone
  <3>2. afterCommitHooks'[r] = << >> /\ afterRollbackHooks'[r] = << >>
    BY <2>13 DEF TypeOK, Shape, Ends, EndWithoutTx, RequestEnds
  <3> QED BY <3>1, <3>2
 <2>14. CASE RunHook(r)
  <3>1. op' = op /\ step' = step
    BY <2>14 DEF RunHook, RunCleanup, RunArchiveFile, RunArchiveFolder, RunPublish,
                 FileHookFails, opVars
  <3>2. UNCHANGED <<phase, status, tx, afterCommitHooks, afterRollbackHooks>>
    BY <2>14 DEF RunHook, HookReturns
  <3> QED BY <3>1, <3>2 DEF Shape
 <2> QED BY <2>1, <2>2, <2>3, <2>4, <2>5, <2>6, <2>7, <2>8, <2>9, <2>10, <2>11, <2>12,
       <2>13, <2>14 DEF RequestStep
<1>2. ASSUME NEW x \in Requests \ {r} PROVE S(x)
 <2>1. Untouched(x) BY Frame
 <2> QED BY <2>1 DEF Untouched, Shape
<1>3. \A x \in Requests : S(x) BY <1>1, <1>2
<1> QED BY <1>3 DEF Shape

\* What an open transaction has written stays written.
LEMMA WrittenStep ==
  ASSUME TypeOK, Given, Shape, Rows, Uploads, Written, Locks,
         NEW r \in Requests, RequestStep(r)
  PROVE  Written'
<1> DEFINE W(x) ==
      /\ op'[x].kind \in {"upload", "update", "deleteParent"} => op'[x].parent \in parents'
      /\ op'[x].kind \in {"update", "delete"} => row'[op'[x].asset] # NoParent
<1>1. ASSUME NEW x \in Requests, Wrote(x)' PROVE W(x)
 <2>1. CASE TxCommits(r)
  <3>1. x # r BY <1>1, <2>1 DEF TypeOK, TxCommits, HandlerGone, Wrote
  <3>2. Wrote(x) /\ op'[x] = op[x] BY <1>1, <3>1, Frame, WroteUntouched DEF Untouched
  <3>3. op[x].kind \in {"upload", "update", "deleteParent"} => op[x].parent \in parents'
    BY <2>1, <3>1, <3>2, CommitEffect DEF Written, Locks
  <3>4. ASSUME op[x].kind \in {"update", "delete"} PROVE row'[op[x].asset] # NoParent
   <4>1. op[x].asset \in Assets /\ row[op[x].asset] # NoParent BY <3>2, <3>4 DEF Given, Written
   <4>2. CASE Wrote(r) /\ op[r].kind \in {"upload", "update"}
    <5>1. op[r].parent # NoParent BY <4>2, MediaAssumption DEF TypeOK, Written
    <5> QED BY <2>1, <4>1, <4>2, <5>1, CommitEffect DEF RowView
   <4>3. CASE Wrote(r) /\ op[r].kind = "delete"
    <5>1. op[r].asset # op[x].asset BY <3>1, <3>2, <3>4, <4>3 DEF Locks
    <5> QED BY <2>1, <4>1, <4>3, <5>1, CommitEffect DEF RowView
   <4>4. CASE Wrote(r) /\ op[r].kind = "deleteParent"
    <5>1. row[op[x].asset] # op[r].parent BY <3>1, <3>2, <3>4, <4>4 DEF Locks
    <5> QED BY <2>1, <4>1, <4>4, <5>1, CommitEffect DEF RowView
   <4>5. CASE ~Wrote(r) BY <2>1, <4>1, <4>5, CommitEffect
   <4>6. Wrote(r) => op[r].kind \in Kind \ {"none"} BY DEF TypeOK, Operation, Shape, Wrote
   <4> QED BY <4>2, <4>3, <4>4, <4>5, <4>6 DEF Kind
  <3> QED BY <3>2, <3>3, <3>4
 <2>2. CASE ~TxCommits(r)
  <3>1. UNCHANGED <<row, parents>> BY <2>2, Effects
  <3>2. CASE x = r
   <4>1. (Wrote(r) /\ SameRows(r)) \/ Acquires(r) BY <1>1, <3>2, WroteSteps
   <4> QED BY <3>1, <3>2, <4>1 DEF Written, SameRows, Acquires
  <3>3. CASE x # r
   <4>1. Wrote(x) /\ op'[x] = op[x] BY <1>1, <3>3, Frame, WroteUntouched DEF Untouched
   <4> QED BY <3>1, <4>1 DEF Written
  <3> QED BY <3>2, <3>3
 <2> QED BY <2>1, <2>2
<1>2. \A x \in Requests : Wrote(x)' => W(x) BY <1>1
<1> QED BY <1>2 DEF Written, Wrote

\* Two open transactions have not written the same rows.
LEMMA LocksStep ==
  ASSUME TypeOK, Given, Shape, Rows, Uploads, Written, Locks, Given',
         NEW r \in Requests, RequestStep(r)
  PROVE  Locks'
<1> DEFINE
      \* the rows of y and z are apart, z being the one that may delete a parent
      Apart(y, z) ==
        /\ op'[y].kind \in {"update", "delete"} /\ op'[z].kind \in {"update", "delete"}
             => op'[y].asset # op'[z].asset
        /\ op'[z].kind = "deleteParent" =>
             /\ op'[y].kind \in {"upload", "update", "deleteParent"} =>
                  op'[y].parent # op'[z].parent
             /\ op'[y].kind \in {"update", "delete"} => row'[op'[y].asset] # op'[z].parent
<1>1. ASSUME NEW y \in Requests, NEW z \in Requests, y # z, Wrote(y)', Wrote(z)',
             ~TxCommits(r)
      PROVE  Apart(y, z)
 <2>0. row' = row BY <1>1, Effects
 <2>1. CASE y # r /\ z # r
  <3>1. Wrote(y) /\ op'[y] = op[y] /\ Wrote(z) /\ op'[z] = op[z]
    BY <1>1, <2>1, Frame, WroteUntouched DEF Untouched
  <3> QED BY <1>1, <2>0, <3>1 DEF Locks
 <2>2. CASE y = r
  <3>1. Wrote(z) /\ op'[z] = op[z] BY <1>1, <2>2, Frame, WroteUntouched DEF Untouched
  <3>2. CASE Wrote(r) /\ SameRows(r) BY <1>1, <2>0, <2>2, <3>1, <3>2 DEF Locks, SameRows
  <3>3. CASE Acquires(r)
   <4>1. z \in Requests \ {r} BY <1>1, <2>2
   <4>2. op'[r].kind \in {"update", "delete"} => ~AssetLocked(r, op'[r].asset) BY <3>3 DEF Acquires
   <4>3. op'[r].kind \in {"update", "delete"} =>
           /\ op[z].kind # "deleteParent" => op[z].asset # op'[r].asset
           /\ op[z].kind = "deleteParent" => row[op'[r].asset] # op[z].parent
     BY <3>1, <4>1, <4>2 DEF AssetLocked
   <4>4. op'[r].kind \in {"upload", "update", "deleteParent"} /\ op[z].kind = "deleteParent"
           => op[z].parent # op'[r].parent BY <3>1, <3>3, <4>1 DEF Acquires, ParentDeleted
   <4> QED BY <2>0, <2>2, <3>1, <4>3, <4>4
  <3> QED BY <1>1, <2>2, <3>2, <3>3, WroteSteps
 <2>3. CASE z = r
  <3>1. Wrote(y) /\ op'[y] = op[y] BY <1>1, <2>3, Frame, WroteUntouched DEF Untouched
  <3>2. CASE Wrote(r) /\ SameRows(r) BY <1>1, <2>0, <2>3, <3>1, <3>2 DEF Locks, SameRows
  <3>3. CASE Acquires(r)
   <4>1. y \in Requests \ {r} BY <1>1, <2>3
   <4>2. op'[r].kind \in {"update", "delete"} /\ op[y].kind \in {"update", "delete"}
           => op[y].asset # op'[r].asset BY <3>1, <3>3, <4>1 DEF Acquires, AssetLocked
   <4>3. ASSUME op'[r].kind = "deleteParent"
         PROVE  /\ op[y].kind \in {"upload", "update"} => op[y].parent # op'[r].parent
                /\ op[y].kind = "deleteParent" => op[y].parent # op'[r].parent
                /\ op[y].kind \in {"update", "delete"} => row[op[y].asset] # op'[r].parent
    <5>1. ~ParentReferenced(r, op'[r].parent) /\ ~ParentDeleted(r, op'[r].parent)
      BY <3>3, <4>3 DEF Acquires
    <5>2. \A a \in Assets : row[a] = op'[r].parent => ~AssetLocked(r, a) BY <3>3, <4>3 DEF Acquires
    <5>3. op[y].kind \in {"upload", "update"} => op[y].parent # op'[r].parent
      BY <3>1, <4>1, <5>1 DEF ParentReferenced
    <5>4. op[y].kind = "deleteParent" => op[y].parent # op'[r].parent
      BY <3>1, <4>1, <5>1 DEF ParentDeleted
    <5>5. ASSUME op[y].kind \in {"update", "delete"}
          PROVE  row[op[y].asset] # op'[r].parent
     <6>1. op[y].asset \in Assets BY <5>5 DEF Given
     <6>2. AssetLocked(r, op[y].asset) BY <3>1, <4>1, <5>5 DEF AssetLocked
     <6> QED BY <5>2, <6>1, <6>2
    <5> QED BY <5>3, <5>4, <5>5
   <4> QED BY <2>0, <2>3, <3>1, <4>2, <4>3
  <3> QED BY <1>1, <2>3, <3>2, <3>3, WroteSteps
 <2> QED BY <2>1, <2>2, <2>3
<1>2. ASSUME NEW y \in Requests, NEW z \in Requests, y # z, Wrote(y)', Wrote(z)',
             TxCommits(r)
      PROVE  Apart(y, z)
 <2>1. ~Wrote(r)' BY <1>2 DEF TypeOK, TxCommits, HandlerGone, Wrote
 <2>2. y # r /\ z # r BY <1>2, <2>1
 <2>3. Wrote(y) /\ op'[y] = op[y] /\ Wrote(z) /\ op'[z] = op[z]
   BY <1>2, <2>2, Frame, WroteUntouched DEF Untouched
 <2>4. ASSUME op[z].kind = "deleteParent", op[y].kind \in {"update", "delete"}
       PROVE  row'[op[y].asset] # op[z].parent
  <3>1. op[y].asset \in Assets /\ row[op[y].asset] # op[z].parent BY <1>2, <2>3, <2>4 DEF Given, Locks
  <3>2. op[z].parent # NoParent BY <2>4, MediaAssumption DEF Given
  <3>3. Wrote(r) /\ op[r].kind \in {"upload", "update"} => op[r].parent # op[z].parent
    BY <2>2, <2>3, <2>4 DEF Locks
  <3>4. \/ row'[op[y].asset] = NoParent
        \/ row'[op[y].asset] = row[op[y].asset]
        \/ /\ Wrote(r) /\ op[r].kind \in {"upload", "update"}
           /\ row'[op[y].asset] = op[r].parent BY <1>2, <3>1, CommitEffect
  <3> QED BY <3>1, <3>2, <3>3, <3>4
 <2> QED BY <1>2, <2>3, <2>4 DEF Locks
<1>3. \A y, z \in Requests : y # z /\ Wrote(y)' /\ Wrote(z)' => Apart(y, z) BY <1>1, <1>2
<1> QED BY <1>3 DEF Locks, Wrote

\* A hook that removes or moves a file finds it where it may.
LEMMA FilesStep ==
  ASSUME TypeOK, Rows, Left, NEW r \in Requests, RequestStep(r)
  PROVE  /\ archived \subseteq archived'
         /\ \A a \in live \ live' :
              /\ Spared => (a \in everCommitted => a \in archived')
              /\ Spared => (row[a] = NoParent \/ home[a] \notin parents)
              /\ \/ \A x \in Requests : op[x].kind = "upload" => op[x].asset # a
                 \/ a \in everCommitted
                 \/ home[a] \notin parents
<1>1. CASE RunHook(r)
 <2>0. Head(hooks[r]) \in Pending(hooks[r]) BY <1>1, HookLists, PendingTail DEF RunHook, HookReturns
 <2>1. CASE RunCleanup(r)
  <3>1. PICK a \in Assets : Head(hooks[r]) = <<"cleanup", a>> /\ live' = live \ {a} BY <2>1 DEF RunCleanup
  <3>2. /\ Spared => a \notin everCommitted
        /\ \A x \in Requests : op[x].kind = "upload" => op[x].asset # a BY <2>0, <3>1 DEF Left, Spared
  <3>3. Spared => row[a] = NoParent BY <3>1, <3>2 DEF Rows
  <3>4. archived' = archived BY <2>1 DEF RunCleanup
  <3> QED BY <3>1, <3>2, <3>3, <3>4
 <2>2. CASE RunArchiveFile(r)
  <3>1. PICK a \in Assets : /\ Head(hooks[r]) = <<"archiveFile", a>>
                            /\ archived' = archived \cup ({a} \cap live)
                            /\ live' = live \ {a} BY <2>2 DEF RunArchiveFile
  <3>2. a \in everCommitted /\ row[a] = NoParent BY <2>0, <3>1 DEF Left
  <3> QED BY <3>1, <3>2
 <2>3. CASE RunArchiveFolder(r)
  <3>1. PICK p \in Parents :
          /\ Head(hooks[r]) = <<"archiveFolder", p>>
          /\ \/ UNCHANGED <<live, archived>>
             \/ /\ live' = live \ {a \in live : home[a] = p}
                /\ archived' = archived \cup {a \in live : home[a] = p} BY <2>3 DEF RunArchiveFolder
  <3>2. p \notin parents BY <2>0, <3>1 DEF Left
  <3> QED BY <3>1, <3>2
 <2>4. CASE RunPublish(r) \/ FileHookFails(r) BY <2>4 DEF RunPublish, FileHookFails, fileVars
 <2> QED BY <1>1, <2>1, <2>2, <2>3, <2>4 DEF RunHook
<1>2. CASE SaveFile(r) BY <1>2 DEF SaveFile
<1>3. CASE ~RunHook(r) /\ ~SaveFile(r) BY <1>3, Effects
<1> QED BY <1>1, <1>2, <1>3

\* The asset of an upload stays its own.
LEMMA UploadsStep ==
  ASSUME TypeOK, Given, Shape, Rows, Uploads, Written, Left,
         NEW r \in Requests, RequestStep(r)
  PROVE  Uploads'
<1> DEFINE Own(y) == op'[y].kind = "upload" /\ op'[y].asset \in Assets
<1>1. ASSUME NEW y \in Requests, Own(y)
      PROVE  \/ op[y].kind = "upload" /\ op'[y].asset = op[y].asset /\ op'[y].parent = op[y].parent
             \/ y = r /\ InsertAsset(r)
 <2>1. CASE y = r
  <3>1. ~PlanDelete(r)
   <4>1. SUFFICES ASSUME PlanDelete(r) PROVE FALSE OBVIOUS
   <4>2. op[r].kind = "delete" /\ op[r] \in Operation BY <4>1 DEF TypeOK, PlanDelete, Handling
   <4>3. op'[r] = op[r] \/ op'[r] = [op[r] EXCEPT !.parent = row[op[r].asset]]
     BY <4>1 DEF TypeOK, PlanDelete, opVars
   <4> QED BY <1>1, <2>1, <4>2, <4>3 DEF Operation
  <3>2. ~RequestArrives(r)
   <4>1. SUFFICES ASSUME RequestArrives(r) PROVE FALSE OBVIOUS
   <4>2. PICK kind \in Kind, a \in Assets \cup {NoAsset}, p \in Parents \cup {NoParent} :
           Request(r, kind, a, p) /\ (kind = "upload" => a = NoAsset) BY <4>1 DEF RequestArrives, Kind
   <4>3. op'[r].kind = kind /\ op'[r].asset = a BY <4>2 DEF TypeOK, Request
   <4> QED BY <1>1, <2>1, <4>2, <4>3, MediaAssumption
  <3>3. op'[r] # NoOperation BY <1>1, <2>1 DEF NoOperation
  <3> QED BY <1>1, <2>1, <3>1, <3>2, <3>3, OpSteps DEF SameRows
 <2>2. CASE y # r BY <1>1, <2>2, Frame DEF Untouched
 <2> QED BY <2>1, <2>2
<1>2. CASE InsertAsset(r)
 <2>1. PICK a \in Assets : /\ home[a] = NoParent
                           /\ home' = [home EXCEPT ![a] = op[r].parent]
                           /\ op'[r] = [op[r] EXCEPT !.asset = a] BY <1>2 DEF TypeOK, InsertAsset
 <2>2. /\ op[r].kind = "upload" /\ op'[r].asset = a /\ op'[r].parent = op[r].parent
       /\ step'[r] = "wrote" /\ op[r].parent # NoParent
   BY <1>2, <2>1, MediaAssumption DEF TypeOK, InsertAsset, Handling, Goto, Operation
 <2>3. a \notin everCommitted BY <2>1 DEF Rows
 <2>4. UNCHANGED <<everCommitted, live>> BY <1>2 DEF InsertAsset, historyVars
 <2>5. ASSUME NEW y \in Requests \ {r} PROVE op'[y] = op[y] /\ step'[y] = step[y] BY Frame DEF Untouched
 <2>6. \A y \in Requests \ {r} : Own(y) => op[y].asset # a BY <2>1, <2>5 DEF Uploads
 <2>7. \A b \in Assets \ {a} : home'[b] = home[b] BY <2>1 DEF TypeOK
 <2>8. home'[a] = op[r].parent BY <2>1 DEF TypeOK
 <2>9. ASSUME NEW y \in Requests, Own(y)
       PROVE  /\ op'[y].asset \notin everCommitted'
              /\ home'[op'[y].asset] # NoParent
              /\ home'[op'[y].asset] = op'[y].parent
              /\ step'[y] \in {"saved", "cached"} => op'[y].asset \in live'
  <3>1. CASE y = r BY <2>2, <2>3, <2>4, <2>8, <3>1
  <3>2. CASE y # r BY <2>4, <2>5, <2>6, <2>7, <2>9, <3>2 DEF Uploads
  <3> QED BY <3>1, <3>2
 <2>10. ASSUME NEW y \in Requests, Own(y), NEW x \in Requests \ {y}, op'[x].kind = "upload"
        PROVE  op'[x].asset # op'[y].asset
  <3>1. CASE y = r BY <2>1, <2>2, <2>5, <2>6, <2>10, <3>1
  <3>2. CASE x = r BY <2>2, <2>5, <2>6, <2>10, <3>2
  <3>3. CASE x # r /\ y # r BY <2>5, <2>10, <3>3 DEF Uploads
  <3> QED BY <3>1, <3>2, <3>3
 <2> QED BY <2>9, <2>10 DEF Uploads
<1>3. CASE ~InsertAsset(r)
 <2>0. home' = home BY <1>3, Effects
 <2>1. ASSUME NEW y \in Requests, Own(y)
       PROVE  /\ op[y].kind = "upload" /\ op[y].asset \in Assets
              /\ op'[y].asset = op[y].asset /\ op'[y].parent = op[y].parent BY <1>1, <1>3, <2>1
 <2>2. ASSUME NEW y \in Requests, Own(y)
       PROVE  op[y].asset \notin everCommitted'
  <3>1. CASE TxCommits(r)
   <4>1. op'[r] = NoOperation BY <3>1 DEF TypeOK, TxCommits, HandlerGone
   <4>2. y # r BY <2>2, <4>1 DEF NoOperation
   <4>3. op[y].asset \notin everCommitted BY <2>1, <2>2 DEF Uploads
   <4>4. op[r].kind = "upload" => op[r].asset # op[y].asset BY <2>1, <2>2, <4>2 DEF Uploads
   <4> QED BY <3>1, <4>3, <4>4, CommitEffect
  <3>2. CASE ~TxCommits(r) BY <2>1, <2>2, <3>2, Effects DEF Uploads
  <3> QED BY <3>1, <3>2
 <2>3. ASSUME NEW y \in Requests, Own(y), step'[y] \in {"saved", "cached"}
       PROVE  op[y].asset \in live'
  <3>1. CASE y = r /\ SaveFile(r) BY <3>1 DEF SaveFile
  <3>2. CASE ~(y = r /\ SaveFile(r))
   <4>1. step[y] \in {"saved", "cached"}
    <5>1. CASE y # r BY <2>3, <5>1, Frame DEF Untouched
    <5>2. CASE y = r /\ ~SaveFile(r)
     <6>1. op[r].kind = "upload" BY <2>1, <2>3, <5>2
     <6>2. CASE FinishUpload(r) BY <5>2, <6>2 DEF FinishUpload, Handling
     <6>3. CASE RequestArrives(r) \/ Fails(r)
       BY <2>3, <5>2, <6>3 DEF RequestArrives, Request, Fails, opVars
     <6>4. CASE RunHook(r) BY <2>3, <5>2, <6>4 DEF RunHook, RunCleanup, RunArchiveFile,
            RunArchiveFolder, RunPublish, FileHookFails, opVars
     <6>5. CASE TxCommits(r) \/ TxRollsBack(r) \/ Ends(r)
       BY <2>3, <5>2, <6>5 DEF TypeOK, TxCommits, TxRollsBack, Ends, HandlerGone
     <6>6. CASE UpdateAsset(r) \/ PlanDelete(r) \/ DeleteAsset(r) \/ DeleteParent(r)
       BY <6>1, <6>6 DEF UpdateAsset, PlanDelete, DeleteAsset, DeleteParent, Handling
     <6>7. CASE FetchPreferred(r) \/ UpdateCached(r)
       BY <6>1, <6>7 DEF FetchPreferred, UpdateCached, Handling
     <6> QED BY <1>3, <5>2, <6>2, <6>3, <6>4, <6>5, <6>6, <6>7 DEF RequestStep
    <5> QED BY <3>2, <5>1, <5>2
   <4>2. /\ op[y].asset \in live /\ op[y].asset \notin everCommitted
         /\ home[op[y].asset] = op[y].parent BY <2>1, <2>3, <4>1 DEF Uploads
   <4>3. op[y].parent \in parents BY <2>1, <2>3, <4>1 DEF Shape, Wrote, Written
   <4> QED BY <2>1, <2>3, <4>2, <4>3, FilesStep
  <3> QED BY <3>1, <3>2
 <2>4. ASSUME NEW y \in Requests, Own(y), NEW x \in Requests \ {y}, op'[x].kind = "upload"
       PROVE  op'[x].asset # op'[y].asset
  <3>1. CASE op'[x].asset \in Assets BY <2>1, <2>4, <3>1 DEF Uploads
  <3> QED BY <2>4, <3>1
 <2>5. ASSUME NEW y \in Requests, Own(y)
       PROVE  home'[op'[y].asset] # NoParent /\ home'[op'[y].asset] = op'[y].parent
   BY <2>0, <2>1, <2>5 DEF Uploads
 <2> QED BY <2>1, <2>2, <2>3, <2>4, <2>5 DEF Uploads
<1> QED BY <1>2, <1>3

\* A hook that is registered belongs to what its handler has done.
LEMMA RegisteredStep ==
  ASSUME TypeOK, Given, Shape, Registered, NEW r \in Requests, RequestStep(r)
  PROVE  Registered'
<1> DEFINE G(x) ==
      /\ \A a \in Assets :
           /\ <<"archiveFile", a>> \in Pending(afterCommitHooks'[x]) =>
                Wrote(x)' /\ op'[x].kind = "delete" /\ op'[x].asset = a
           /\ <<"cleanup", a>> \in Pending(afterRollbackHooks'[x]) =>
                op'[x].kind = "upload" /\ op'[x].asset = a /\ step'[x] \in {"saved", "cached"}
      /\ \A p \in Parents :
           <<"archiveFolder", p>> \in Pending(afterCommitHooks'[x]) =>
             Wrote(x)' /\ op'[x].kind = "deleteParent" /\ op'[x].parent = p
<1>1. G(r)
 <2>0. /\ op[r] \in Operation
       /\ afterCommitHooks[r] \in Seq(Archive \cup Publish)
       /\ afterRollbackHooks[r] \in Seq(Cleanup) BY HookLists DEF TypeOK
 <2>1. CASE RequestArrives(r) \/ TxCommits(r) \/ TxRollsBack(r) \/ Ends(r)
  <3>1. afterCommitHooks'[r] = << >> /\ afterRollbackHooks'[r] = << >>
   <4>1. CASE RequestArrives(r) BY <4>1 DEF TypeOK, Shape, RequestArrives, Request, Arrive
   <4>2. CASE TxCommits(r) \/ TxRollsBack(r)
     BY <4>2 DEF TypeOK, TxCommits, TxRollsBack, Commit, CommitReplyLost, Rollback,
                 CommitFails, EndTx
   <4>3. CASE Ends(r) BY <4>3 DEF TypeOK, Shape, Ends, EndWithoutTx, RequestEnds
   <4> QED BY <2>1, <4>1, <4>2, <4>3
  <3> QED BY <3>1, PendingEmpty
 <2>2. CASE Fails(r) \/ RunHook(r)
  <3>1. /\ afterCommitHooks' = afterCommitHooks /\ afterRollbackHooks' = afterRollbackHooks
        /\ tx' = tx BY <2>2 DEF Fails, RunHook, HookReturns
  <3>2. UNCHANGED opVars BY <2>2 DEF Fails, RunHook, RunCleanup, RunArchiveFile, RunArchiveFolder,
                RunPublish, FileHookFails
  <3> QED BY <3>1, <3>2 DEF Registered, Wrote, opVars
 <2>3. CASE InsertAsset(r) \/ UpdateAsset(r) \/ PlanDelete(r)
  <3>1. /\ afterCommitHooks' = afterCommitHooks /\ afterRollbackHooks' = afterRollbackHooks
        /\ step[r] = "start" BY <2>3 DEF InsertAsset, UpdateAsset, PlanDelete, Handling
  <3>2. ~Wrote(r) BY <3>1 DEF Wrote
  <3> QED BY <3>1, <3>2 DEF Registered
 <2>4. CASE SaveFile(r)
  <3>1. /\ op' = op /\ op[r].kind = "upload" /\ op[r].asset \in Assets
        /\ step[r] = "wrote" /\ step'[r] = "saved" /\ tx' = tx
        /\ afterCommitHooks' = afterCommitHooks
        /\ afterRollbackHooks'[r] = Append(afterRollbackHooks[r], <<"cleanup", op[r].asset>>)
    BY <2>4 DEF TypeOK, Given, SaveFile, Handling, AddAfterRollbackHook, Goto
  <3>2. Pending(afterRollbackHooks'[r]) =
          Pending(afterRollbackHooks[r]) \cup {<<"cleanup", op[r].asset>>}
    BY <2>0, <3>1, HookTypes, PendingAppend
  <3>3. Wrote(r)' <=> Wrote(r) BY <3>1 DEF Wrote
  <3> QED BY <3>1, <3>2, <3>3 DEF Registered
 <2>5. CASE FinishUpload(r)
  <3>1. /\ op[r].kind = "upload" /\ op[r].asset \in Assets /\ tx' = tx
        /\ step[r] = "saved" /\ step'[r] = "cached"
        /\ afterRollbackHooks' = afterRollbackHooks
        /\ afterCommitHooks'[r] =
             Append(afterCommitHooks[r], <<"publish", <<"create", op[r].asset>> >>)
    BY <2>5 DEF TypeOK, Given, FinishUpload, Handling, AddAfterCommitHook, Goto
  <3>2. SameRows(r)
   <4>1. op'[r] = [op[r] EXCEPT !.preferred = op[r].asset] BY <2>5 DEF TypeOK, FinishUpload
   <4> QED BY <2>0, <4>1 DEF SameRows, Operation
  <3>3. Pending(afterCommitHooks'[r]) =
          Pending(afterCommitHooks[r]) \cup {<<"publish", <<"create", op[r].asset>> >>}
   <4> DEFINE hook == <<"publish", <<"create", op[r].asset>> >>
   <4>1. hook \in Archive \cup Publish BY <3>1, HookTypes
   <4>2. afterCommitHooks'[r] = Append(afterCommitHooks[r], hook) BY <3>1
   <4> HIDE DEF hook
   <4>3. Pending(afterCommitHooks'[r]) = Pending(afterCommitHooks[r]) \cup {hook}
     BY <2>0, <4>1, <4>2, PendingAppend
   <4> QED BY <4>3 DEF hook
  <3>4. Wrote(r)' <=> Wrote(r) BY <3>1 DEF Wrote
  <3> QED BY <3>1, <3>2, <3>3, <3>4 DEF Registered, SameRows
 <2>6. CASE DeleteAsset(r)
  <3>1. /\ op' = op /\ op[r].kind = "delete" /\ op[r].asset \in Assets
        /\ step[r] = "planned" /\ tx' = tx /\ afterRollbackHooks' = afterRollbackHooks
    BY <2>6 DEF TypeOK, Given, DeleteAsset, Handling
  <3>2. ~Wrote(r) /\ tx[r] = "open" BY <3>1 DEF Shape, Wrote
  <3>3. CASE afterCommitHooks' = afterCommitHooks BY <3>1, <3>2, <3>3 DEF Registered
  <3>4. CASE AddAfterCommitHook(r, <<"archiveFile", op[r].asset>>) /\ Goto(r, "wrote")
   <4>1. /\ step'[r] = "wrote"
         /\ afterCommitHooks'[r] = Append(afterCommitHooks[r], <<"archiveFile", op[r].asset>>)
     BY <3>4 DEF TypeOK, Goto, AddAfterCommitHook
   <4>2. Pending(afterCommitHooks'[r]) =
           Pending(afterCommitHooks[r]) \cup {<<"archiveFile", op[r].asset>>}
     BY <2>0, <3>1, <4>1, HookTypes, PendingAppend
   <4>3. Wrote(r)' BY <3>1, <3>2, <4>1 DEF Wrote
   <4> QED BY <3>1, <3>2, <4>2, <4>3 DEF Registered
  <3>5. \/ afterCommitHooks' = afterCommitHooks
        \/ AddAfterCommitHook(r, <<"archiveFile", op[r].asset>>) /\ Goto(r, "wrote") BY <2>6 DEF DeleteAsset
  <3> QED BY <3>3, <3>4, <3>5
 <2>7. CASE FetchPreferred(r)
  <3>1. /\ afterCommitHooks' = afterCommitHooks /\ afterRollbackHooks' = afterRollbackHooks
        /\ tx' = tx /\ step[r] = "wrote" /\ step'[r] = "fetched"
    BY <2>7 DEF TypeOK, FetchPreferred, Handling, Goto, lazyVars
  <3>2. SameRows(r)
   <4>1. op'[r] = [op[r] EXCEPT !.preferred =
                     Preferred({a \in Assets : RowView(r)[a] = op[r].parent})]
     BY <2>7 DEF TypeOK, FetchPreferred
   <4> QED BY <2>0, <4>1 DEF SameRows, Operation
  <3>3. Wrote(r)' <=> Wrote(r) BY <3>1 DEF Wrote
  <3> QED BY <3>1, <3>2, <3>3 DEF Registered, SameRows
 <2>8. CASE UpdateCached(r)
  <3>1. /\ op' = op /\ op[r].kind \in {"update", "delete"} /\ op[r].asset \in Assets
        /\ step[r] = "fetched" /\ step'[r] = "cached" /\ tx' = tx
        /\ afterRollbackHooks' = afterRollbackHooks
        /\ afterCommitHooks'[r] =
             Append(afterCommitHooks[r], <<"publish", <<op[r].kind, op[r].asset>> >>)
    BY <2>8 DEF TypeOK, Given, UpdateCached, Handling, AddAfterCommitHook, Goto
  <3>2. <<"publish", <<op[r].kind, op[r].asset>> >> \in Archive \cup Publish BY <3>1, HookTypes
  <3>3. Pending(afterCommitHooks'[r]) =
          Pending(afterCommitHooks[r]) \cup {<<"publish", <<op[r].kind, op[r].asset>> >>}
   <4> DEFINE hook == <<"publish", <<op[r].kind, op[r].asset>> >>
   <4>1. hook \in Archive \cup Publish BY <3>2
   <4>2. afterCommitHooks'[r] = Append(afterCommitHooks[r], hook) BY <3>1
   <4> HIDE DEF hook
   <4>3. Pending(afterCommitHooks'[r]) = Pending(afterCommitHooks[r]) \cup {hook}
     BY <2>0, <4>1, <4>2, PendingAppend
   <4> QED BY <4>3 DEF hook
  <3>4. Wrote(r)' <=> Wrote(r) BY <3>1 DEF Wrote
  <3> QED BY <3>1, <3>3, <3>4 DEF Registered
 <2>9. CASE DeleteParent(r)
  <3> DEFINE q == op[r].parent
             one == Append(afterCommitHooks[r], <<"archiveFolder", q>>)
             two == Append(one, <<"publish", <<"deleteParent", q>> >>)
  <3>1. /\ op' = op /\ op[r].kind = "deleteParent" /\ q \in Parents
        /\ step[r] = "start" /\ afterRollbackHooks' = afterRollbackHooks
    BY <2>9 DEF TypeOK, Given, DeleteParent, Handling
  <3>2. ~Wrote(r) BY <3>1 DEF Wrote
  <3>3. CASE afterCommitHooks' = afterCommitHooks BY <3>1, <3>2, <3>3 DEF Registered
  <3>4. CASE afterCommitHooks' = [afterCommitHooks EXCEPT ![r] = two] /\ Goto(r, "wrote")
   <4>1. step'[r] = "wrote" /\ afterCommitHooks'[r] = two BY <3>4 DEF TypeOK, Goto
   <4>2. one \in Seq(Archive \cup Publish)
         /\ Pending(one) = Pending(afterCommitHooks[r]) \cup {<<"archiveFolder", q>>}
     BY <2>0, <3>1, HookTypes, AppendProperties, PendingAppend
   <4>3. <<"publish", <<"deleteParent", q>> >> \in Archive \cup Publish BY <3>1, HookTypes
   <4>4. Pending(two) = Pending(one) \cup {<<"publish", <<"deleteParent", q>> >>}
    <5> DEFINE hook == <<"publish", <<"deleteParent", q>> >>
    <5>1. hook \in Archive \cup Publish /\ two = Append(one, hook) BY <4>3
    <5> HIDE DEF hook, one, two
    <5>2. Pending(two) = Pending(one) \cup {hook} BY <4>2, <5>1, PendingAppend
    <5> QED BY <5>2 DEF hook
   <4>5. tx[r] \in {"none", "open"} BY <2>9 DEF Shape, DeleteParent, Handling
   <4>6. Wrote(r)' BY <2>9, <4>1, <4>5 DEF TypeOK, DeleteParent, Begin, Wrote
   <4> HIDE DEF one, two
   <4> QED BY <3>1, <3>2, <4>1, <4>2, <4>4, <4>6 DEF Registered
  <3>5. \/ afterCommitHooks' = afterCommitHooks
        \/ afterCommitHooks' = [afterCommitHooks EXCEPT ![r] = two] /\ Goto(r, "wrote")
    BY <2>9 DEF DeleteParent
  <3> QED BY <3>3, <3>4, <3>5
 <2> QED BY <2>1, <2>2, <2>3, <2>4, <2>5, <2>6, <2>7, <2>8, <2>9 DEF RequestStep
<1>2. ASSUME NEW x \in Requests \ {r} PROVE G(x)
 <2>1. Untouched(x) /\ (Wrote(x)' <=> Wrote(x)) BY Frame, WroteUntouched
 <2> QED BY <2>1 DEF Untouched, Registered
<1>3. \A x \in Requests : G(x) BY <1>1, <1>2
<1> QED BY <1>3 DEF Registered, Pending, Wrote

\* How the list of hooks to run changes: it is chosen when the transaction
\* ends, and its first hook is run.
LEMMA HooksSteps ==
  ASSUME TypeOK, NEW r \in Requests, RequestStep(r)
  PROVE  \/ TxCommits(r) /\ hooks'[r] \in {afterCommitHooks[r], afterRollbackHooks[r]}
         \/ TxRollsBack(r) /\ hooks'[r] = afterRollbackHooks[r]
         \/ RunHook(r) /\ hooks[r] # << >> /\ hooks'[r] = Tail(hooks[r])
         \/ ~TxCommits(r) /\ ~TxRollsBack(r) /\ ~RunHook(r) /\ hooks' = hooks
<1>1. CASE TxCommits(r) BY <1>1 DEF TypeOK, TxCommits, Commit, CommitReplyLost, EndTx
<1>2. CASE TxRollsBack(r) BY <1>2 DEF TypeOK, TxRollsBack, Rollback, CommitFails, EndTx
<1>3. CASE RunHook(r) BY <1>3 DEF TypeOK, RunHook, HookReturns
<1>4. CASE RequestArrives(r) \/ Fails(r) \/ UpdateAsset(r) \/ DeleteParent(r)
  BY <1>1, <1>2, <1>3, <1>4 DEF RequestArrives, Request, Arrive, Fails, UpdateAsset, DeleteParent
<1>5. CASE InsertAsset(r) \/ SaveFile(r) \/ FinishUpload(r)
  BY <1>1, <1>2, <1>3, <1>5 DEF InsertAsset, SaveFile, FinishUpload
<1>6. CASE PlanDelete(r) \/ DeleteAsset(r) \/ FetchPreferred(r) \/ UpdateCached(r)
  BY <1>1, <1>2, <1>3, <1>6 DEF PlanDelete, DeleteAsset, FetchPreferred, UpdateCached, lazyVars
<1>7. CASE Ends(r) BY <1>1, <1>2, <1>3, <1>7 DEF Ends, EndWithoutTx, RequestEnds
<1> QED BY <1>1, <1>2, <1>3, <1>4, <1>5, <1>6, <1>7 DEF RequestStep

\* A hook that is left to run stays right, whatever other requests do.
LEMMA LeftStep ==
  ASSUME TypeOK, Given, Shape, Rows, Uploads, Written, Registered, Left,
         NEW r \in Requests, RequestStep(r)
  PROVE  Left'
<1> DEFINE
      L(list) ==
        /\ \A a \in Assets :
             /\ <<"archiveFile", a>> \in Pending(list) =>
                  row'[a] = NoParent /\ a \in everCommitted'
             /\ <<"cleanup", a>> \in Pending(list) =>
                  /\ home'[a] # NoParent
                  /\ \A x \in Requests : op'[x].kind = "upload" => op'[x].asset # a
        /\ \A p \in Parents :
             <<"archiveFolder", p>> \in Pending(list) => p \notin parents'
\* what was left stays right
<1>1. ASSUME NEW y \in Requests PROVE L(hooks[y])
 <2>1. ASSUME NEW a \in Assets, <<"archiveFile", a>> \in Pending(hooks[y])
       PROVE  row'[a] = NoParent /\ a \in everCommitted'
  <3>1. row[a] = NoParent /\ a \in everCommitted BY <2>1 DEF Left
  <3>2. CASE TxCommits(r)
   <4>1. a \in everCommitted' BY <3>1, <3>2, CommitEffect
   <4>2. ~(Wrote(r) /\ op[r].kind \in {"upload", "update"} /\ a = op[r].asset) BY <3>1 DEF Uploads, Written
   <4> QED BY <3>1, <3>2, <4>1, <4>2, CommitEffect
  <3>3. CASE ~TxCommits(r) BY <3>1, <3>3, Effects
  <3> QED BY <3>2, <3>3
 <2>2. ASSUME NEW a \in Assets, <<"cleanup", a>> \in Pending(hooks[y])
       PROVE  /\ home'[a] # NoParent
              /\ \A x \in Requests : op'[x].kind = "upload" => op'[x].asset # a
  <3>1. /\ home[a] # NoParent
        /\ \A x \in Requests : op[x].kind = "upload" => op[x].asset # a BY <2>2 DEF Left
  <3>3. home'[a] # NoParent
   <4>1. CASE InsertAsset(r)
    <5>1. PICK b \in Assets : home[b] = NoParent /\ home' = [home EXCEPT ![b] = op[r].parent]
      BY <4>1 DEF InsertAsset
    <5> QED BY <3>1, <5>1 DEF TypeOK
   <4>2. CASE ~InsertAsset(r) BY <3>1, <4>2, Effects
   <4> QED BY <4>1, <4>2
  <3>4. ASSUME NEW x \in Requests, op'[x].kind = "upload" PROVE op'[x].asset # a
   <4>1. CASE x # r BY <3>1, <3>4, <4>1, Frame DEF Untouched
   <4>2. CASE x = r /\ InsertAsset(r)
    <5>1. PICK b \in Assets : home[b] = NoParent /\ op'[r] = [op[r] EXCEPT !.asset = b]
      BY <4>2 DEF TypeOK, InsertAsset
    <5>2. op'[r].asset = b BY <5>1 DEF TypeOK, Operation
    <5> QED BY <3>1, <4>2, <5>1, <5>2
   <4>3. CASE x = r /\ RequestArrives(r)
    <5>1. PICK kind \in Kind, b \in Assets \cup {NoAsset}, p \in Parents \cup {NoParent} :
            Request(r, kind, b, p) /\ (kind = "upload" => b = NoAsset) BY <4>3 DEF RequestArrives, Kind
    <5>2. op'[r].kind = kind /\ op'[r].asset = b BY <5>1 DEF TypeOK, Request
    <5> QED BY <3>4, <4>3, <5>1, <5>2, MediaAssumption
   <4>4. CASE x = r /\ PlanDelete(r)
    <5>1. op[r].kind = "delete" /\ op[r] \in Operation BY <4>4 DEF TypeOK, PlanDelete, Handling
    <5>2. op'[r] = op[r] \/ op'[r] = [op[r] EXCEPT !.parent = row[op[r].asset]]
      BY <4>4 DEF TypeOK, PlanDelete, opVars
    <5> QED BY <3>4, <4>4, <5>1, <5>2 DEF Operation
   <4>5. op'[r] = NoOperation => op'[r].kind = "none" BY DEF NoOperation
   <4>6. CASE x = r /\ SameRows(r) BY <3>1, <3>4, <4>6 DEF SameRows
   <4> QED BY <3>4, <4>1, <4>2, <4>3, <4>4, <4>5, <4>6, OpSteps
  <3> QED BY <3>3, <3>4
 <2>3. ASSUME NEW p \in Parents, <<"archiveFolder", p>> \in Pending(hooks[y])
       PROVE  p \notin parents'
  <3>1. p \notin parents BY <2>3 DEF Left
  <3>2. CASE TxCommits(r) BY <3>1, <3>2, CommitEffect
  <3>3. CASE ~TxCommits(r) BY <3>1, <3>3, Effects
  <3> QED BY <3>2, <3>3
 <2> QED BY <2>1, <2>2, <2>3
\* the hooks of a transaction that ends become right when it ends
<1>2. CASE TxCommits(r) /\ hooks'[r] = afterCommitHooks[r]
 <2>1. Pending(afterCommitHooks[r]) \subseteq Archive \cup Publish BY HookLists, PendingType
 <2>2. ASSUME NEW a \in Assets, <<"archiveFile", a>> \in Pending(afterCommitHooks[r])
       PROVE  row'[a] = NoParent /\ a \in everCommitted'
  <3>1. Wrote(r) /\ op[r].kind = "delete" /\ op[r].asset = a BY <2>2 DEF Registered
  <3>2. row'[a] = NoParent BY <1>2, <3>1, CommitEffect DEF RowView
  <3>3. a \in everCommitted BY <3>1 DEF Written, Rows
  <3> QED BY <1>2, <3>2, <3>3, CommitEffect
 <2>3. ASSUME NEW a \in Assets PROVE <<"cleanup", a>> \notin Pending(afterCommitHooks[r])
   BY <2>1 DEF Archive, Publish
 <2>4. ASSUME NEW p \in Parents, <<"archiveFolder", p>> \in Pending(afterCommitHooks[r])
       PROVE  p \notin parents'
  <3>1. Wrote(r) /\ op[r].kind = "deleteParent" /\ op[r].parent = p BY <2>4 DEF Registered
  <3> QED BY <1>2, <3>1, CommitEffect
 <2>5. L(hooks'[r]) BY <1>2, <2>2, <2>3, <2>4
 <2>6. ASSUME NEW y \in Requests PROVE L(hooks'[y]) BY <1>1, <2>5, Frame DEF Untouched
 <2> QED BY <2>6 DEF Left, Pending
<1>3. CASE (TxCommits(r) \/ TxRollsBack(r)) /\ hooks'[r] = afterRollbackHooks[r]
 <2>1. op'[r] = NoOperation BY <1>3 DEF TypeOK, TxCommits, TxRollsBack, HandlerGone
 <2>2. Pending(afterRollbackHooks[r]) \subseteq Cleanup BY HookLists, PendingType
 <2>3. home' = home BY <1>3 DEF TxCommits, TxRollsBack, fileVars
 <2>4. ASSUME NEW a \in Assets, <<"cleanup", a>> \in Pending(afterRollbackHooks[r])
       PROVE  /\ home'[a] # NoParent
              /\ \A x \in Requests : op'[x].kind = "upload" => op'[x].asset # a
  <3>1. op[r].kind = "upload" /\ op[r].asset = a BY <2>4 DEF Registered
  <3>2. /\ home[a] # NoParent
        /\ \A x \in Requests \ {r} : op[x].kind = "upload" => op[x].asset # a BY <3>1 DEF Uploads
  <3>3. \A x \in Requests \ {r} : op'[x] = op[x] BY Frame DEF Untouched
  <3>4. op'[r].kind # "upload" BY <2>1 DEF NoOperation
  <3> QED BY <2>3, <3>2, <3>3, <3>4
 <2>5. /\ \A a \in Assets : <<"archiveFile", a>> \notin Pending(afterRollbackHooks[r])
       /\ \A p \in Parents : <<"archiveFolder", p>> \notin Pending(afterRollbackHooks[r]) BY <2>2 DEF Cleanup
 <2>6. L(hooks'[r]) BY <1>3, <2>4, <2>5
 <2>7. ASSUME NEW y \in Requests PROVE L(hooks'[y]) BY <1>1, <2>6, Frame DEF Untouched
 <2> QED BY <2>7 DEF Left, Pending
<1>4. CASE RunHook(r) /\ hooks[r] # << >> /\ hooks'[r] = Tail(hooks[r])
 <2>1. Pending(hooks'[r]) \subseteq Pending(hooks[r]) BY <1>4, HookLists, PendingTail
 <2>2. L(hooks'[r]) BY <1>1, <2>1
 <2>3. ASSUME NEW y \in Requests PROVE L(hooks'[y]) BY <1>1, <2>2, Frame DEF Untouched
 <2> QED BY <2>3 DEF Left, Pending
<1>5. CASE hooks' = hooks
 <2>1. \A y \in Requests : L(hooks'[y]) BY <1>1, <1>5
 <2> QED BY <2>1 DEF Left, Pending
<1> QED BY <1>2, <1>3, <1>4, <1>5, HooksSteps

\* As long as no reply is lost, a clean-up that is left to run is for an upload
\* that was rolled back.
LEMMA SparedStep ==
  ASSUME TypeOK, Given, Shape, Rows, Uploads, Written, Registered, Left, Spared,
         ~LostCommitReply, NEW r \in Requests, RequestStep(r)
  PROVE  Spared'
<1>1. ASSUME NEW y \in Requests, NEW a \in Assets, <<"cleanup", a>> \in Pending(hooks[y])
      PROVE  a \notin everCommitted'
 <2>1. a \notin everCommitted /\ (op[r].kind = "upload" => op[r].asset # a) BY <1>1 DEF Left, Spared
 <2>2. CASE TxCommits(r) BY <2>1, <2>2, CommitEffect
 <2>3. CASE ~TxCommits(r) BY <2>1, <2>3, Effects
 <2> QED BY <2>2, <2>3
<1>2. ASSUME NEW a \in Assets, <<"cleanup", a>> \in Pending(hooks'[r])
      PROVE  a \notin everCommitted'
 <2>1. CASE TxCommits(r)
  <3>1. hooks'[r] = afterCommitHooks[r] BY <2>1 DEF TypeOK, TxCommits, Commit, CommitReplyLost, EndTx
  <3>2. Pending(afterCommitHooks[r]) \subseteq Archive \cup Publish BY HookLists, PendingType
  <3> QED BY <1>2, <3>1, <3>2 DEF Archive, Publish
 <2>2. CASE TxRollsBack(r) /\ hooks'[r] = afterRollbackHooks[r]
  <3>1. op[r].kind = "upload" /\ op[r].asset = a BY <1>2, <2>2 DEF Registered
  <3>2. everCommitted' = everCommitted BY <2>2 DEF TxRollsBack, historyVars
  <3> QED BY <3>1, <3>2 DEF Uploads
 <2>3. CASE hooks[r] # << >> /\ hooks'[r] = Tail(hooks[r])
  <3>1. Pending(hooks'[r]) \subseteq Pending(hooks[r]) BY <2>3, HookLists, PendingTail
  <3> QED BY <1>1, <1>2, <3>1
 <2>4. CASE hooks' = hooks BY <1>1, <1>2, <2>4
 <2> QED BY <2>1, <2>2, <2>3, <2>4, HooksSteps
<1>3. ASSUME NEW y \in Requests, NEW a \in Assets, <<"cleanup", a>> \in Pending(hooks'[y])
      PROVE  a \notin everCommitted'
 <2>1. CASE y = r BY <1>2, <1>3, <2>1
 <2>2. CASE y # r
  <3>1. hooks'[y] = hooks[y] BY <2>2, Frame DEF Untouched
  <3> QED BY <1>1, <1>3, <3>1
 <2> QED BY <2>1, <2>2
<1> QED BY <1>3 DEF Spared, Pending

\* A committed asset keeps its file, under storage/ while its row lives there.
LEMMA FilesInvStep ==
  ASSUME TypeOK, Given, Shape, Rows, Uploads, Written, Left, Spared, LiveRowHasFile,
         MediaNeverDestroyed, NEW r \in Requests, RequestStep(r)
  PROVE  LiveRowHasFile' /\ MediaNeverDestroyed'
<1>1. CASE TxCommits(r)
 <2>1. UNCHANGED <<home, live, archived>> BY <1>1 DEF TxCommits, fileVars
 <2>2. phase[r] = "responded" /\ CommitsOn(status[r]) BY <1>1 DEF TxCommits, Commit, CommitReplyLost
 <2>3. Wrote(r) /\ op[r].kind = "upload" => op[r].asset \in live BY <2>2 DEF Shape, Given, Uploads
 <2>4. ASSUME NEW a \in Assets, row'[a] # NoParent, home'[a] \in parents'
       PROVE  a \in live'
  <3>1. home[a] \in parents BY <1>1, <2>1, <2>4, CommitEffect
  <3>2. CASE row[a] # NoParent BY <2>1, <3>1, <3>2 DEF LiveRowHasFile
  <3>3. CASE row[a] = NoParent
   <4>1. Wrote(r) /\ op[r].kind \in {"upload", "update"} /\ a = op[r].asset
     BY <1>1, <2>4, <3>3, CommitEffect
   <4> QED BY <2>1, <2>3, <3>3, <4>1 DEF Written
  <3> QED BY <3>2, <3>3
 <2>5. ASSUME NEW a \in everCommitted' PROVE a \in live' \cup archived'
   BY <1>1, <2>1, <2>3, CommitEffect DEF MediaNeverDestroyed
 <2> QED BY <2>4, <2>5 DEF LiveRowHasFile, MediaNeverDestroyed
<1>2. CASE ~TxCommits(r)
 <2>1. UNCHANGED <<row, parents, everCommitted>> BY <1>2, Effects
 <2>2. \A a \in Assets : row[a] # NoParent => home'[a] = home[a]
  <3>1. CASE InsertAsset(r)
   <4>1. PICK b \in Assets : home[b] = NoParent /\ home' = [home EXCEPT ![b] = op[r].parent]
     BY <3>1 DEF InsertAsset
   <4> QED BY <4>1 DEF TypeOK, Rows
  <3>2. CASE ~InsertAsset(r) BY <3>2, Effects
  <3> QED BY <3>1, <3>2
 <2>3. LiveRowHasFile' BY <2>1, <2>2, FilesStep DEF LiveRowHasFile
 <2>4. MediaNeverDestroyed' BY <2>1, FilesStep DEF MediaNeverDestroyed
 <2> QED BY <2>3, <2>4
<1> QED BY <1>1, <1>2

-----------------------------------------------------------------------------
(* The invariant, and what it is for.                                      *)

LEMMA BaseInit ==
  ASSUME Init
  PROVE  Base
<1>1. TypeOK /\ Given BY Initially
<1>2. Shape /\ Uploads /\ Rows BY DEF Init, LazyInit, Shape, Uploads, NoOperation, Rows
<1>3. Written /\ Locks BY DEF Init, LazyInit, Written, Locks, Wrote
<1>4. Registered /\ Left BY PendingEmpty DEF Init, LazyInit, Registered, Left
<1> QED BY <1>1, <1>2, <1>3, <1>4 DEF Base

\* A crash leaves the database and the files, and nothing else.
LEMMA CrashEffect ==
  ASSUME Crash
  PROVE  /\ \A r \in Requests :
              /\ phase'[r] = "idle" /\ tx'[r] = "none" /\ op'[r] = NoOperation
              /\ step'[r] = "start" /\ hooks'[r] = << >>
              /\ afterCommitHooks'[r] = << >> /\ afterRollbackHooks'[r] = << >>
         /\ UNCHANGED <<row, parents, cached, home, live, archived, everCommitted, published>>
         /\ faulted' BY DEF Crash, ProcessDies, dbVars, fileVars

LEMMA BaseCrash ==
  ASSUME Base, Crash
  PROVE  Base'
<1>1. TypeOK' /\ Given' BY TypeNext, GivenNext DEF Base, Next
<1>2. Shape' /\ Uploads' BY CrashEffect DEF Shape, Uploads, NoOperation
<1>3. Written' /\ Locks' BY CrashEffect DEF Written, Locks, Wrote
<1>4. Rows' BY CrashEffect DEF Base, Rows
<1>5. \A r \in Requests : /\ Pending(afterCommitHooks'[r]) = {}
                          /\ Pending(afterRollbackHooks'[r]) = {}
                          /\ Pending(hooks'[r]) = {} BY CrashEffect, PendingEmpty
<1>6. Registered' /\ Left' BY <1>5 DEF Registered, Left, Pending
<1> QED BY <1>1, <1>2, <1>3, <1>4, <1>6 DEF Base

LEMMA BaseNext ==
  ASSUME Base, [Next]_vars
  PROVE  Base'
<1>1. CASE Crash BY <1>1, BaseCrash
<1>2. ASSUME NEW r \in Requests, RequestStep(r) PROVE Base'
 <2>1. TypeOK' /\ Given' BY <1>2, TypeNext, GivenNext DEF Base, Next, RequestStep
 <2>2. Shape' BY <1>2, ShapeStep DEF Base
 <2>3. Rows' BY <1>2, RowsStep DEF Base
 <2>4. Uploads' BY <1>2, UploadsStep DEF Base
 <2>5. Written' BY <1>2, WrittenStep DEF Base
 <2>6. Locks' BY <1>2, <2>1, LocksStep DEF Base
 <2>7. Registered' BY <1>2, RegisteredStep DEF Base
 <2>8. Left' BY <1>2, LeftStep DEF Base
 <2> QED BY <2>1, <2>2, <2>3, <2>4, <2>5, <2>6, <2>7, <2>8 DEF Base
<1>3. CASE UNCHANGED vars
 <2>1. UNCHANGED <<phase, status, tx, afterCommitHooks, afterRollbackHooks, hooks, row,
                   parents, home, live, archived, op, step, everCommitted>>
   BY <1>3 DEF vars, lazyVars, dbVars, fileVars, opVars, historyVars
 <2>2. TypeOK' /\ Given' BY TypeNext, GivenNext DEF Base
 <2>3. Shape' /\ Rows' /\ Uploads' BY <2>1 DEF Base, Shape, Rows, Uploads
 <2>4. Written' /\ Locks' BY <2>1 DEF Base, Written, Locks, Wrote
 <2>5. Registered' /\ Left' BY <2>1 DEF Base, Registered, Left, Wrote, Pending
 <2> QED BY <2>2, <2>3, <2>4, <2>5 DEF Base
<1> QED BY <1>1, <1>2, <1>3 DEF Next, RequestStep

\* As long as no reply to COMMIT is lost, the invariant holds for ever.
LEMMA Inductive ==
  ASSUME ~LostCommitReply
  PROVE  Spec => []IInv
<1>1. Init => IInv
 <2> SUFFICES ASSUME Init PROVE IInv OBVIOUS
 <2>1. LiveRowHasFile /\ MediaNeverDestroyed BY DEF Init, LiveRowHasFile, MediaNeverDestroyed
 <2>2. Spared BY PendingEmpty DEF Init, LazyInit, Spared
 <2> QED BY <2>1, <2>2, BaseInit DEF IInv
<1>2. IInv /\ [Next]_vars => IInv'
 <2> SUFFICES ASSUME IInv, [Next]_vars PROVE IInv' OBVIOUS
 <2>1. Base' BY BaseNext DEF IInv
 <2>2. CASE Crash
  <3>1. LiveRowHasFile' /\ MediaNeverDestroyed'
    BY <2>2, CrashEffect DEF IInv, LiveRowHasFile, MediaNeverDestroyed
  <3>2. \A r \in Requests : Pending(hooks'[r]) = {} BY <2>2, CrashEffect, PendingEmpty
  <3>3. Spared' BY <3>2 DEF Spared, Pending
  <3> QED BY <2>1, <3>1, <3>3 DEF IInv
 <2>3. ASSUME NEW r \in Requests, RequestStep(r) PROVE IInv'
  <3>1. Spared' BY <2>3, SparedStep DEF IInv, Base
  <3>2. LiveRowHasFile' /\ MediaNeverDestroyed' BY <2>3, FilesInvStep DEF IInv, Base
  <3> QED BY <2>1, <3>1, <3>2 DEF IInv
 <2>4. CASE UNCHANGED vars
  <3>1. UNCHANGED <<hooks, row, parents, home, live, archived, everCommitted>>
    BY <2>4 DEF vars, lazyVars, dbVars, fileVars, historyVars
  <3>2. Spared' /\ LiveRowHasFile' /\ MediaNeverDestroyed'
    BY <3>1 DEF IInv, Spared, Pending, LiveRowHasFile, MediaNeverDestroyed
  <3> QED BY <2>1, <3>2 DEF IInv
 <2> QED BY <2>2, <2>3, <2>4 DEF Next, RequestStep
<1> QED BY <1>1, <1>2, PTL DEF Spec

\* No interleaving of uploads, re-parentings, deletions, rollbacks, late hooks,
\* failing file operations and crashes takes the file of a committed asset row
\* away from storage/ (delete_row.go, add_row_files.go, tx_context.go).
THEOREM RowsKeepFiles ==
  ASSUME ~LostCommitReply
  PROVE  Spec => []LiveRowHasFile
<1>1. IInv => LiveRowHasFile BY DEF IInv
<1> QED BY <1>1, Inductive, PTL

\* The file of an asset that was once committed is never destroyed: the hook
\* that removes files only ever finds files of uploads that were rolled back.
THEOREM MediaIsKept ==
  ASSUME ~LostCommitReply
  PROVE  Spec => []MediaNeverDestroyed
<1>1. IInv => MediaNeverDestroyed BY DEF IInv
<1> QED BY <1>1, Inductive, PTL

-----------------------------------------------------------------------------
(* What is told, what is shown, and which files are left.  These parts     *)
(* lean on Base, and hold whether or not replies to COMMIT are lost.       *)

\* The event of a request.
Outcome(r) ==
  CASE op[r].kind = "deleteParent" -> <<"deleteParent", op[r].parent>>
    [] op[r].kind = "upload" -> <<"create", op[r].asset>>
    [] OTHER -> <<op[r].kind, op[r].asset>>

\* A subscriber that hears of e finds it in the database.
IsTrue(e) ==
  /\ \A a \in Assets : e = <<"create", a>> => a \in everCommitted
  /\ \A a \in Assets : e = <<"delete", a>> => row[a] = NoParent /\ a \in everCommitted
  /\ \A p \in Parents : e = <<"deleteParent", p>> => p \notin parents

\* A handler announces what its own transaction has written; what is left to
\* be told, and what was told, is true.
Announced ==
  \A r \in Requests, e \in Event :
    <<"publish", e>> \in Pending(afterCommitHooks[r]) => Wrote(r) /\ e = Outcome(r)
ToTell ==
  \A r \in Requests, e \in Event : <<"publish", e>> \in Pending(hooks[r]) => IsTrue(e)
Told == IsTrue(published)

\* The image a handler has chosen was committed, or is the one it uploads.
Chosen ==
  \A r \in Requests : op[r].preferred # NoAsset =>
    \/ op[r].preferred \in everCommitted
    \/ op[r].kind = "upload" /\ step[r] = "cached" /\ op[r].preferred = op[r].asset

\* A file that is not of a committed row has a hook that will remove it.
Watched(a) ==
  \E r \in Requests : \/ <<"cleanup", a>> \in Pending(afterRollbackHooks[r])
                      \/ <<"cleanup", a>> \in Pending(hooks[r])
FilesWatched == ~faulted => \A a \in live : a \in everCommitted \/ Watched(a)
HooksRun == \A r \in Requests : phase[r] # "hooks" => hooks[r] = << >>

TInv ==
  /\ Base /\ Announced /\ ToTell /\ Told
  /\ Chosen /\ PreviewWasCommitted
  /\ FilesWatched /\ HooksRun

\* What a handler announces is what it has written.
LEMMA AnnouncedStep ==
  ASSUME TypeOK, Given, Shape, Announced, NEW r \in Requests, RequestStep(r)
  PROVE  Announced'
<1> DEFINE G(x) ==
      \A e \in Event :
        <<"publish", e>> \in Pending(afterCommitHooks'[x]) => Wrote(x)' /\ e = Outcome(x)'
<1>1. G(r)
 <2>0. /\ op[r] \in Operation
       /\ afterCommitHooks[r] \in Seq(Archive \cup Publish) BY HookLists DEF TypeOK
 <2>a. SameRows(r) => Outcome(r)' = Outcome(r) BY DEF SameRows, Outcome
 <2>1. CASE RequestArrives(r) \/ TxCommits(r) \/ TxRollsBack(r) \/ Ends(r)
  <3>1. afterCommitHooks'[r] = << >>
   <4>1. CASE RequestArrives(r) BY <4>1 DEF TypeOK, Shape, RequestArrives, Request, Arrive
   <4>2. CASE TxCommits(r) \/ TxRollsBack(r)
     BY <4>2 DEF TypeOK, TxCommits, TxRollsBack, Commit, CommitReplyLost, Rollback,
                 CommitFails, EndTx
   <4>3. CASE Ends(r) BY <4>3 DEF TypeOK, Shape, Ends, EndWithoutTx, RequestEnds
   <4> QED BY <2>1, <4>1, <4>2, <4>3
  <3> QED BY <3>1, PendingEmpty
 <2>2. CASE Fails(r) \/ RunHook(r)
  <3>1. afterCommitHooks' = afterCommitHooks /\ tx' = tx BY <2>2 DEF Fails, RunHook, HookReturns
  <3>2. UNCHANGED opVars BY <2>2 DEF Fails, RunHook, RunCleanup, RunArchiveFile, RunArchiveFolder,
                RunPublish, FileHookFails
  <3>3. SameRows(r) /\ (Wrote(r)' <=> Wrote(r)) BY <3>1, <3>2 DEF SameRows, Wrote, opVars
  <3> QED BY <2>a, <3>1, <3>3 DEF Announced
 <2>3. CASE InsertAsset(r) \/ UpdateAsset(r) \/ PlanDelete(r)
  <3>1. afterCommitHooks' = afterCommitHooks /\ step[r] = "start"
    BY <2>3 DEF InsertAsset, UpdateAsset, PlanDelete, Handling
  <3>2. ~Wrote(r) BY <3>1 DEF Wrote
  <3> QED BY <3>1, <3>2 DEF Announced
 <2>4. CASE SaveFile(r)
  <3>1. /\ op' = op /\ step[r] = "wrote" /\ step'[r] = "saved" /\ tx' = tx
        /\ afterCommitHooks' = afterCommitHooks BY <2>4 DEF TypeOK, SaveFile, Handling, Goto
  <3>2. SameRows(r) /\ (Wrote(r)' <=> Wrote(r)) BY <3>1 DEF SameRows, Wrote
  <3> QED BY <2>a, <3>1, <3>2 DEF Announced
 <2>5. CASE FinishUpload(r)
  <3> DEFINE hook == <<"publish", <<"create", op[r].asset>> >>
  <3>1. /\ op[r].kind = "upload" /\ op[r].asset \in Assets /\ tx' = tx
        /\ step[r] = "saved" /\ step'[r] = "cached"
        /\ afterCommitHooks'[r] = Append(afterCommitHooks[r], hook)
    BY <2>5 DEF TypeOK, Given, FinishUpload, Handling, AddAfterCommitHook, Goto
  <3>2. SameRows(r)
   <4>1. op'[r] = [op[r] EXCEPT !.preferred = op[r].asset] BY <2>5 DEF TypeOK, FinishUpload
   <4> QED BY <2>0, <4>1 DEF SameRows, Operation
  <3>3. hook \in Archive \cup Publish BY <3>1, HookTypes
  <3>4. tx[r] = "open" BY <3>1 DEF Shape
  <3>5. Wrote(r) /\ Wrote(r)' /\ Outcome(r) = <<"create", op[r].asset>> BY <3>1, <3>4 DEF Wrote, Outcome
  <3>6. \A e \in Event : hook = <<"publish", e>> => e = Outcome(r) BY <3>5
  <3> HIDE DEF hook
  <3>7. Pending(afterCommitHooks'[r]) = Pending(afterCommitHooks[r]) \cup {hook}
    BY <2>0, <3>1, <3>3, PendingAppend
  <3> QED BY <2>a, <3>2, <3>5, <3>6, <3>7 DEF Announced
 <2>6. CASE DeleteAsset(r)
  <3> DEFINE hook == <<"archiveFile", op[r].asset>>
  <3>1. /\ op[r].asset \in Assets /\ step[r] = "planned" BY <2>6 DEF Given, DeleteAsset, Handling
  <3>2. ~Wrote(r) BY <3>1 DEF Wrote
  <3>3. CASE afterCommitHooks' = afterCommitHooks BY <3>2, <3>3 DEF Announced
  <3>4. CASE AddAfterCommitHook(r, hook)
   <4>1. afterCommitHooks'[r] = Append(afterCommitHooks[r], hook) BY <3>4 DEF TypeOK, AddAfterCommitHook
   <4>2. hook \in Archive \cup Publish /\ \A e \in Event : hook # <<"publish", e>> BY <3>1, HookTypes
   <4> HIDE DEF hook
   <4>3. Pending(afterCommitHooks'[r]) = Pending(afterCommitHooks[r]) \cup {hook}
     BY <2>0, <4>1, <4>2, PendingAppend
   <4> QED BY <3>2, <4>2, <4>3 DEF Announced
  <3>5. afterCommitHooks' = afterCommitHooks \/ AddAfterCommitHook(r, hook) BY <2>6 DEF DeleteAsset
  <3> QED BY <3>3, <3>4, <3>5
 <2>7. CASE FetchPreferred(r)
  <3>1. /\ afterCommitHooks' = afterCommitHooks
        /\ tx' = tx /\ step[r] = "wrote" /\ step'[r] = "fetched"
    BY <2>7 DEF TypeOK, FetchPreferred, Handling, Goto, lazyVars
  <3>2. SameRows(r)
   <4>1. op'[r] = [op[r] EXCEPT !.preferred =
                     Preferred({a \in Assets : RowView(r)[a] = op[r].parent})]
     BY <2>7 DEF TypeOK, FetchPreferred
   <4> QED BY <2>0, <4>1 DEF SameRows, Operation
  <3>3. Wrote(r)' <=> Wrote(r) BY <3>1 DEF Wrote
  <3> QED BY <2>a, <3>1, <3>2, <3>3 DEF Announced
 <2>8. CASE UpdateCached(r)
  <3> DEFINE hook == <<"publish", <<op[r].kind, op[r].asset>> >>
  <3>1. /\ op' = op /\ op[r].kind \in {"update", "delete"} /\ op[r].asset \in Assets
        /\ step[r] = "fetched" /\ step'[r] = "cached" /\ tx' = tx
        /\ afterCommitHooks'[r] = Append(afterCommitHooks[r], hook)
    BY <2>8 DEF TypeOK, Given, UpdateCached, Handling, AddAfterCommitHook, Goto
  <3>2. hook \in Archive \cup Publish BY <3>1, HookTypes
  <3>3. tx[r] = "open" BY <3>1 DEF Shape
  <3>4. Wrote(r) /\ Wrote(r)' /\ SameRows(r) /\ Outcome(r) = <<op[r].kind, op[r].asset>>
    BY <3>1, <3>3 DEF Wrote, Outcome, SameRows
  <3>5. \A e \in Event : hook = <<"publish", e>> => e = Outcome(r) BY <3>4
  <3> HIDE DEF hook
  <3>6. Pending(afterCommitHooks'[r]) = Pending(afterCommitHooks[r]) \cup {hook}
    BY <2>0, <3>1, <3>2, PendingAppend
  <3> QED BY <2>a, <3>4, <3>5, <3>6 DEF Announced
 <2>9. CASE DeleteParent(r)
  <3> DEFINE q == op[r].parent
             folder == <<"archiveFolder", q>>
             hook == <<"publish", <<"deleteParent", q>> >>
             one == Append(afterCommitHooks[r], folder)
             two == Append(one, hook)
  <3>1. /\ op' = op /\ op[r].kind = "deleteParent" /\ q \in Parents /\ step[r] = "start"
    BY <2>9 DEF TypeOK, Given, DeleteParent, Handling
  <3>2. ~Wrote(r) BY <3>1 DEF Wrote
  <3>3. CASE afterCommitHooks' = afterCommitHooks BY <3>2, <3>3 DEF Announced
  <3>4. CASE afterCommitHooks' = [afterCommitHooks EXCEPT ![r] = two] /\ Goto(r, "wrote")
   <4>1. step'[r] = "wrote" /\ afterCommitHooks'[r] = two BY <3>4 DEF TypeOK, Goto
   <4>2. /\ folder \in Archive \cup Publish /\ \A e \in Event : folder # <<"publish", e>>
         /\ hook \in Archive \cup Publish BY <3>1, HookTypes
   <4>3. tx[r] \in {"none", "open"} BY <2>9 DEF Shape, DeleteParent, Handling
   <4>4. Wrote(r)' BY <2>9, <4>1, <4>3 DEF TypeOK, DeleteParent, Begin, Wrote
   <4>5. Outcome(r)' = <<"deleteParent", q>> BY <3>1 DEF Outcome
   <4>6. \A e \in Event : hook = <<"publish", e>> => e = Outcome(r)' BY <4>5
   <4> HIDE DEF folder, hook
   <4>7. one \in Seq(Archive \cup Publish)
         /\ Pending(one) = Pending(afterCommitHooks[r]) \cup {folder}
     BY <2>0, <4>2, AppendProperties, PendingAppend
   <4> HIDE DEF one
   <4>8. Pending(two) = Pending(one) \cup {hook} BY <4>2, <4>7, PendingAppend
   <4> HIDE DEF two
   <4> QED BY <3>2, <4>1, <4>2, <4>4, <4>6, <4>7, <4>8 DEF Announced
  <3>5. \/ afterCommitHooks' = afterCommitHooks
        \/ afterCommitHooks' = [afterCommitHooks EXCEPT ![r] = two] /\ Goto(r, "wrote")
    BY <2>9 DEF DeleteParent
  <3> QED BY <3>3, <3>4, <3>5
 <2> QED BY <2>1, <2>2, <2>3, <2>4, <2>5, <2>6, <2>7, <2>8, <2>9 DEF RequestStep
<1>2. ASSUME NEW x \in Requests \ {r} PROVE G(x)
 <2>1. Untouched(x) /\ (Wrote(x)' <=> Wrote(x)) BY Frame, WroteUntouched
 <2>2. Outcome(x)' = Outcome(x) BY <2>1 DEF Untouched, Outcome
 <2> QED BY <2>1, <2>2 DEF Untouched, Announced
<1>3. \A x \in Requests : G(x) BY <1>1, <1>2
<1> QED BY <1>3 DEF Announced, Pending, Wrote, Outcome

\* What is true stays true: rows that are gone do not come back.
LEMMA TruthStays ==
  ASSUME TypeOK, Given, Shape, Rows, Uploads, Written, NEW r \in Requests, RequestStep(r),
         NEW e, IsTrue(e)
  PROVE  IsTrue(e)'
<1>1. CASE ~TxCommits(r) BY <1>1, Effects DEF IsTrue
<1>2. CASE TxCommits(r)
 <2>1. everCommitted \subseteq everCommitted' /\ parents' \subseteq parents BY <1>2, CommitEffect
 <2>2. ASSUME NEW a \in Assets, row[a] = NoParent, a \in everCommitted
       PROVE  row'[a] = NoParent
  <3>1. ~(Wrote(r) /\ op[r].kind \in {"upload", "update"} /\ a = op[r].asset) BY <2>2 DEF Uploads, Written
  <3> QED BY <1>2, <2>2, <3>1, CommitEffect
 <2> QED BY <2>1, <2>2 DEF IsTrue
<1> QED BY <1>1, <1>2

\* A commit makes the event of the request true.
LEMMA OutcomeIsTrue ==
  ASSUME TypeOK, Given, Shape, Rows, Uploads, Written, NEW r \in Requests, TxCommits(r),
         Wrote(r), NEW e \in Event, e = Outcome(r)
  PROVE  IsTrue(e)'
<1>0. op[r].kind \in Kind /\ op[r].kind # "none" /\ step[r] # "start" BY DEF TypeOK, Operation, Shape, Wrote
<1>1. ASSUME NEW a \in Assets, e = <<"create", a>>
      PROVE  a \in everCommitted'
 <2>1. op[r].kind = "upload" /\ op[r].asset = a BY <1>0, <1>1 DEF Outcome, Kind
 <2>2. RowView(r)[a] = op[r].parent /\ op[r].parent \in Parents BY <2>1 DEF RowView, Given
 <2> QED BY <2>2, CommitEffect, MediaAssumption
<1>2. ASSUME NEW a \in Assets, e = <<"delete", a>>
      PROVE  row'[a] = NoParent /\ a \in everCommitted'
 <2>1. op[r].kind = "delete" /\ op[r].asset = a BY <1>0, <1>2 DEF Outcome, Kind
 <2>2. RowView(r)[a] = NoParent BY <2>1 DEF RowView
 <2>3. a \in everCommitted BY <2>1 DEF Written, Rows
 <2> QED BY <2>2, <2>3, CommitEffect
<1>3. ASSUME NEW p \in Parents, e = <<"deleteParent", p>>
      PROVE  p \notin parents'
 <2>1. op[r].kind = "deleteParent" /\ op[r].parent = p BY <1>0, <1>3 DEF Outcome, Kind
 <2> QED BY <2>1, CommitEffect
<1> QED BY <1>1, <1>2, <1>3 DEF IsTrue

\* Only the hook of an event publishes.
LEMMA PublishSteps ==
  ASSUME TypeOK, NEW r \in Requests, RequestStep(r)
  PROVE  \/ published' = published
         \/ RunHook(r) /\ \E e \in Event : Head(hooks[r]) = <<"publish", e>> /\ published' = e
<1>1. CASE RunHook(r) BY <1>1 DEF RunHook, RunCleanup, RunArchiveFile, RunArchiveFolder, RunPublish,
              FileHookFails, historyVars
<1>2. CASE RequestArrives(r) \/ Fails(r) \/ SaveFile(r) \/ FinishUpload(r) \/ UpdateAsset(r)
  BY <1>2 DEF RequestArrives, Request, Fails, SaveFile, FinishUpload, UpdateAsset, historyVars
<1>3. CASE InsertAsset(r) \/ TxCommits(r) \/ TxRollsBack(r) \/ Ends(r)
  BY <1>3 DEF InsertAsset, TxCommits, TxRollsBack, Ends, historyVars
<1>4. CASE PlanDelete(r) \/ DeleteAsset(r) \/ FetchPreferred(r) \/ UpdateCached(r)
           \/ DeleteParent(r)
  BY <1>4 DEF PlanDelete, DeleteAsset, FetchPreferred, UpdateCached, DeleteParent, historyVars
<1> QED BY <1>1, <1>2, <1>3, <1>4 DEF RequestStep

\* What is told, and what is left to be told, is true.
LEMMA ToldStep ==
  ASSUME TypeOK, Given, Shape, Rows, Uploads, Written, Announced, ToTell, Told,
         NEW r \in Requests, RequestStep(r)
  PROVE  ToTell' /\ Told'
<1>0. /\ \A e \in Event : <<"publish", e>> \notin Cleanup
      /\ Pending(afterRollbackHooks[r]) \subseteq Cleanup
 <2>1. \A e \in Event : <<"publish", e>> \notin Cleanup BY DEF Cleanup
 <2>2. afterRollbackHooks[r] \in Seq(Cleanup) BY HookLists
 <2> QED BY <2>1, <2>2, PendingType
<1>1. ASSUME NEW x \in Requests, NEW e \in Event, <<"publish", e>> \in Pending(hooks[x])
      PROVE  IsTrue(e)'
 <2>1. IsTrue(e) BY <1>1 DEF ToTell
 <2> QED BY <2>1, TruthStays
<1>2. ASSUME NEW e \in Event, <<"publish", e>> \in Pending(hooks'[r])
      PROVE  IsTrue(e)'
 <2>1. CASE TxCommits(r) /\ hooks'[r] = afterCommitHooks[r]
  <3>1. Wrote(r) /\ e = Outcome(r) BY <1>2, <2>1 DEF Announced
  <3> QED BY <2>1, <3>1, OutcomeIsTrue
 <2>2. CASE hooks'[r] = afterRollbackHooks[r] BY <1>0, <1>2, <2>2
 <2>3. CASE hooks[r] # << >> /\ hooks'[r] = Tail(hooks[r])
  <3>1. Pending(hooks'[r]) \subseteq Pending(hooks[r]) BY <2>3, HookLists, PendingTail
  <3> QED BY <1>1, <1>2, <3>1
 <2>4. CASE hooks' = hooks BY <1>1, <1>2, <2>4
 <2> QED BY <2>1, <2>2, <2>3, <2>4, HooksSteps
<1>3. ASSUME NEW x \in Requests, NEW e \in Event, <<"publish", e>> \in Pending(hooks'[x])
      PROVE  IsTrue(e)'
 <2>1. CASE x = r BY <1>2, <1>3, <2>1
 <2>2. CASE x # r
  <3>1. hooks'[x] = hooks[x] BY <2>2, Frame DEF Untouched
  <3> QED BY <1>1, <1>3, <3>1
 <2> QED BY <2>1, <2>2
<1>4. ToTell' BY <1>3 DEF ToTell, Pending, IsTrue
<1>5. Told'
 <2>1. CASE published' = published
  <3>1. \A e : IsTrue(e) => IsTrue(e)' BY TruthStays
  <3>2. PICK e : e = published OBVIOUS
  <3>3. IsTrue(e) BY <3>2 DEF Told
  <3>4. IsTrue(e)' /\ published' = e BY <2>1, <3>1, <3>2, <3>3
  <3> QED BY <3>4 DEF Told, IsTrue
 <2>2. CASE RunHook(r) /\ published' # published
  <3>1. PICK e \in Event : Head(hooks[r]) = <<"publish", e>> /\ published' = e BY <2>2, PublishSteps
  <3>2. hooks[r] # << >> BY <2>2 DEF RunHook, HookReturns
  <3>3. Head(hooks[r]) \in Pending(hooks[r]) BY <3>2, HookLists, PendingTail
  <3>4. IsTrue(e)' BY <1>1, <3>1, <3>3
  <3> QED BY <3>1, <3>4 DEF Told, IsTrue
 <2> QED BY <2>1, <2>2, PublishSteps
<1> QED BY <1>4, <1>5

\* The image a handler has chosen stays committed, or its own.
LEMMA ChosenStep ==
  ASSUME TypeOK, Given, Shape, Rows, Uploads, Written, Chosen,
         NEW r \in Requests, RequestStep(r)
  PROVE  Chosen'
<1> DEFINE G(x) ==
      op'[x].preferred # NoAsset =>
        \/ op'[x].preferred \in everCommitted'
        \/ op'[x].kind = "upload" /\ step'[x] = "cached" /\ op'[x].preferred = op'[x].asset
<1>0. everCommitted \subseteq everCommitted'
 <2>1. CASE TxCommits(r) BY <2>1, CommitEffect
 <2>2. CASE ~TxCommits(r) BY <2>2, Effects
 <2> QED BY <2>1, <2>2
<1>1. G(r)
 <2>0. op[r] \in Operation BY DEF TypeOK
 <2>1. CASE RequestArrives(r) BY <2>1 DEF TypeOK, RequestArrives, Request
 <2>2. CASE TxCommits(r) \/ TxRollsBack(r) \/ Ends(r)
   BY <2>2 DEF TypeOK, TxCommits, TxRollsBack, Ends, HandlerGone, NoOperation
 <2>3. CASE Fails(r) \/ RunHook(r)
  <3>1. UNCHANGED opVars BY <2>3 DEF Fails, RunHook, RunCleanup, RunArchiveFile, RunArchiveFolder,
                RunPublish, FileHookFails
  <3> QED BY <1>0, <3>1 DEF Chosen, opVars
 <2>4. CASE InsertAsset(r)
  <3>1. step[r] = "start" /\ \E a \in Assets : op'[r] = [op[r] EXCEPT !.asset = a]
    BY <2>4 DEF TypeOK, InsertAsset, Handling
  <3>2. op'[r].preferred = op[r].preferred BY <2>0, <3>1 DEF Operation
  <3> QED BY <1>0, <3>1, <3>2 DEF Chosen
 <2>5. CASE SaveFile(r) \/ UpdateAsset(r) \/ DeleteAsset(r) \/ UpdateCached(r) \/ DeleteParent(r)
  <3>1. op' = op /\ step[r] # "cached"
    BY <2>5 DEF SaveFile, UpdateAsset, DeleteAsset, UpdateCached, DeleteParent, Handling
  <3> QED BY <1>0, <3>1 DEF Chosen
 <2>6. CASE FinishUpload(r)
  <3>1. /\ op[r].kind = "upload" /\ op'[r] = [op[r] EXCEPT !.preferred = op[r].asset]
        /\ step'[r] = "cached" BY <2>6 DEF TypeOK, FinishUpload, Handling, Goto
  <3> QED BY <2>0, <3>1 DEF Operation
 <2>7. CASE PlanDelete(r)
  <3>1. /\ step[r] = "start"
        /\ op'[r] = op[r] \/ op'[r] = [op[r] EXCEPT !.parent = row[op[r].asset]]
    BY <2>7 DEF TypeOK, PlanDelete, Handling, opVars
  <3>2. op'[r].preferred = op[r].preferred BY <2>0, <3>1 DEF Operation
  <3> QED BY <1>0, <3>1, <3>2 DEF Chosen
 <2>8. CASE FetchPreferred(r)
  <3> DEFINE S == {a \in Assets : RowView(r)[a] = op[r].parent}
  <3>1. /\ op[r].kind \in {"update", "delete"} /\ step[r] = "wrote"
        /\ op'[r] = [op[r] EXCEPT !.preferred = Preferred(S)] BY <2>8 DEF TypeOK, FetchPreferred, Handling
  <3>2. op'[r].preferred = Preferred(S) BY <2>0, <3>1 DEF Operation
  <3>3. tx[r] = "open" BY <3>1 DEF Shape
  <3>4. Wrote(r) /\ op[r].parent \in Parents BY <3>1, <3>3 DEF Wrote, Given
  <3>5. ASSUME NEW a \in S PROVE a \in everCommitted
   <4>1. RowView(r)[a] # NoParent /\ a \in Assets BY <3>4, MediaAssumption
   <4>2. row[a] # NoParent BY <3>1, <3>4, <4>1 DEF RowView, Written
   <4> QED BY <4>1, <4>2 DEF Rows
  <3>6. Preferred(S) \in S \cup {NoAsset} BY PreferredIsOneOf
  <3> HIDE DEF S
  <3> QED BY <1>0, <3>2, <3>5, <3>6
 <2> QED BY <2>1, <2>2, <2>3, <2>4, <2>5, <2>6, <2>7, <2>8 DEF RequestStep
<1>2. ASSUME NEW x \in Requests \ {r} PROVE G(x) BY <1>0, Frame DEF Untouched, Chosen
<1>3. \A x \in Requests : G(x) BY <1>1, <1>2
<1> QED BY <1>3 DEF Chosen

\* A commit that writes a preview writes one that is then committed.
LEMMA PreviewStep ==
  ASSUME TypeOK, Given, Shape, Rows, Uploads, Written, Chosen, PreviewWasCommitted,
         NEW r \in Requests, RequestStep(r)
  PROVE  PreviewWasCommitted'
<1>1. CASE TxCommits(r)
 <2>1. ASSUME NEW p \in Parents, cached'[p] # NoAsset
       PROVE  cached'[p] \in everCommitted'
  <3>1. \/ cached'[p] = cached[p]
        \/ WroteCache(r) /\ cached'[p] = op[r].preferred BY <1>1, <2>1 DEF TxCommits, Install
  <3>2. everCommitted \subseteq everCommitted' BY <1>1, CommitEffect
  <3>3. CASE cached'[p] = cached[p] BY <2>1, <3>2, <3>3 DEF PreviewWasCommitted
  <3>4. CASE WroteCache(r) /\ cached'[p] = op[r].preferred
   <4>1. CASE op[r].preferred \in everCommitted BY <3>2, <3>4, <4>1
   <4>2. CASE op[r].kind = "upload" /\ step[r] = "cached" /\ op[r].preferred = op[r].asset
    <5>1. Wrote(r) /\ op[r].asset \in Assets /\ op[r].parent \in Parents
      BY <3>4, <4>2 DEF WroteCache, Wrote, Given
    <5>2. RowView(r)[op[r].asset] = op[r].parent BY <4>2, <5>1 DEF RowView
    <5>3. op[r].asset \in everCommitted'
     <6>1. row'[op[r].asset] = op[r].parent BY <1>1, <5>1, <5>2, CommitEffect
     <6>2. row'[op[r].asset] # NoParent BY <5>1, <6>1, MediaAssumption
     <6> QED BY <1>1, <5>1, <6>2, CommitEffect
    <5> QED BY <3>4, <4>2, <5>3
   <4> QED BY <2>1, <3>4, <4>1, <4>2 DEF Chosen
  <3> QED BY <3>1, <3>3, <3>4
 <2> QED BY <2>1 DEF PreviewWasCommitted
<1>2. CASE ~TxCommits(r) BY <1>2, Effects DEF PreviewWasCommitted
<1> QED BY <1>1, <1>2

\* A list that lost its head holds the others.
LEMMA PendingHead ==
  ASSUME NEW S, NEW s \in Seq(S), s # << >>, NEW h \in Pending(s), h # Head(s)
  PROVE  h \in Pending(Tail(s))
<1>1. PICK i \in 1..Len(s) : h = s[i] BY DEF Pending
<1>2. Len(s) \in Nat /\ Len(s) # 0 /\ Len(Tail(s)) = Len(s) - 1 BY EmptySeq, LenProperties, HeadTailProperties
<1>3. \A j \in 1..Len(Tail(s)) : Tail(s)[j] = s[j + 1] BY <1>2
<1>4. i # 1 BY <1>1
<1>5. i - 1 \in 1..Len(Tail(s)) /\ Tail(s)[i - 1] = s[i] BY <1>1, <1>2, <1>3, <1>4
<1> QED BY <1>1, <1>5 DEF Pending

\* A clean-up that is registered stays until its transaction ends.
LEMMA RollbackHooksSteps ==
  ASSUME TypeOK, Shape, Registered, NEW r \in Requests, RequestStep(r),
         NEW a \in Assets, <<"cleanup", a>> \in Pending(afterRollbackHooks[r])
  PROVE  \/ TxCommits(r) \/ TxRollsBack(r)
         \/ <<"cleanup", a>> \in Pending(afterRollbackHooks'[r])
<1>0. /\ tx[r] = "open" /\ phase[r] \notin {"idle", "hooks"}
      /\ afterRollbackHooks[r] \in Seq(Cleanup)
 <2>1. step[r] \in {"saved", "cached"} BY DEF Registered
 <2>2. phase[r] \notin {"idle", "hooks"} BY <2>1 DEF Shape
 <2> QED BY <2>1, <2>2, HookLists DEF Shape
<1>1. CASE SaveFile(r)
 <2>1. <<"cleanup", op[r].asset>> \in Cleanup BY <1>1 DEF TypeOK, Registered, SaveFile, Handling, Cleanup
 <2>2. afterRollbackHooks'[r] = Append(afterRollbackHooks[r], <<"cleanup", op[r].asset>>)
   BY <1>1 DEF TypeOK, SaveFile, AddAfterRollbackHook
 <2> QED BY <1>0, <2>1, <2>2, PendingAppend
<1>2. CASE RequestArrives(r) \/ Ends(r)
  BY <1>0, <1>2 DEF RequestArrives, Request, Arrive, Ends, EndWithoutTx, RequestEnds
<1>3. CASE Fails(r) \/ InsertAsset(r) \/ FinishUpload(r) \/ UpdateAsset(r)
  BY <1>3 DEF Fails, InsertAsset, FinishUpload, UpdateAsset
<1>4. CASE PlanDelete(r) \/ DeleteAsset(r) \/ FetchPreferred(r) \/ UpdateCached(r)
           \/ DeleteParent(r) \/ RunHook(r)
  BY <1>4 DEF PlanDelete, DeleteAsset, FetchPreferred, UpdateCached, DeleteParent,
              RunHook, HookReturns, lazyVars
<1> QED BY <1>1, <1>2, <1>3, <1>4 DEF RequestStep

\* A file loses its hook only when the hook has removed it, or when its row is
\* committed.
LEMMA WatchedStep ==
  ASSUME TypeOK, Given, Shape, Rows, Uploads, Written, Registered, FilesWatched, HooksRun,
         NEW r \in Requests, RequestStep(r)
  PROVE  FilesWatched'
<1> SUFFICES ASSUME ~faulted', NEW a \in live'
             PROVE  a \in everCommitted' \/ Watched(a)' BY DEF FilesWatched, Watched, Pending
<1>0. ~faulted /\ a \in Assets
 <2>1. faulted' = faulted \/ faulted'
  <3>1. CASE RunHook(r) BY <3>1 DEF RunHook, RunCleanup, RunArchiveFile, RunArchiveFolder, RunPublish,
                FileHookFails, historyVars
  <3>2. CASE RequestArrives(r) \/ Fails(r) \/ SaveFile(r) \/ FinishUpload(r) \/ UpdateAsset(r)
    BY <3>2 DEF RequestArrives, Request, Fails, SaveFile, FinishUpload, UpdateAsset, historyVars
  <3>3. CASE InsertAsset(r) \/ TxCommits(r) \/ TxRollsBack(r) \/ Ends(r)
    BY <3>3 DEF InsertAsset, TxCommits, TxRollsBack, Ends, historyVars
  <3>4. CASE PlanDelete(r) \/ DeleteAsset(r) \/ FetchPreferred(r) \/ UpdateCached(r)
             \/ DeleteParent(r)
    BY <3>4 DEF PlanDelete, DeleteAsset, FetchPreferred, UpdateCached, DeleteParent, historyVars
  <3> QED BY <3>1, <3>2, <3>3, <3>4 DEF RequestStep
 <2>2. TypeOK' BY TypeNext DEF Next, RequestStep
 <2> QED BY <2>1, <2>2 DEF TypeOK
<1>1. everCommitted \subseteq everCommitted'
 <2>1. CASE TxCommits(r) BY <2>1, CommitEffect
 <2>2. CASE ~TxCommits(r) BY <2>2, Effects
 <2> QED BY <2>1, <2>2
<1>2. CASE a \notin live
 <2>1. SaveFile(r) /\ a = op[r].asset
  <3>1. CASE RunHook(r) BY <1>2, <3>1 DEF RunHook, RunCleanup, RunArchiveFile, RunArchiveFolder, RunPublish,
                      FileHookFails, fileVars
  <3>2. CASE SaveFile(r) BY <1>2, <3>2 DEF SaveFile
  <3> QED BY <1>2, <3>1, <3>2, Effects
 <2>2. afterRollbackHooks'[r] = Append(afterRollbackHooks[r], <<"cleanup", a>>)
   BY <2>1 DEF TypeOK, SaveFile, AddAfterRollbackHook
 <2>3. <<"cleanup", a>> \in Pending(afterRollbackHooks'[r])
   BY <1>0, <2>2, HookLists, HookTypes, PendingAppend
 <2> QED BY <2>3 DEF Watched, Pending
<1>3. CASE a \in live /\ a \in everCommitted BY <1>1, <1>3
<1>4. CASE a \in live /\ a \notin everCommitted
 <2>1. PICK x \in Requests : \/ <<"cleanup", a>> \in Pending(afterRollbackHooks[x])
                             \/ <<"cleanup", a>> \in Pending(hooks[x])
   BY <1>0, <1>4 DEF FilesWatched, Watched
 <2>2. CASE x # r
  <3>1. afterRollbackHooks'[x] = afterRollbackHooks[x] /\ hooks'[x] = hooks[x] BY <2>2, Frame DEF Untouched
  <3> QED BY <2>1, <3>1 DEF Watched, Pending
 <2>3. CASE x = r /\ <<"cleanup", a>> \in Pending(afterRollbackHooks[r])
  <3>1. CASE TxCommits(r)
   <4>1. op[r].kind = "upload" /\ op[r].asset = a /\ step[r] \in {"saved", "cached"}
     BY <1>0, <2>3 DEF Registered
   <4>2. Wrote(r) /\ op[r].parent \in Parents
     BY <3>1, <4>1 DEF Wrote, Given, TxCommits, Commit, CommitReplyLost
   <4>3. RowView(r)[a] = op[r].parent BY <1>0, <4>1, <4>2 DEF RowView
   <4> QED BY <1>0, <3>1, <4>2, <4>3, CommitEffect, MediaAssumption
  <3>2. CASE TxRollsBack(r)
   <4>1. hooks'[r] = afterRollbackHooks[r] BY <3>2 DEF TypeOK, TxRollsBack, Rollback, CommitFails, EndTx
   <4> QED BY <2>3, <4>1 DEF Watched, Pending
  <3>3. CASE <<"cleanup", a>> \in Pending(afterRollbackHooks'[r]) BY <3>3 DEF Watched, Pending
  <3> QED BY <1>0, <2>3, <3>1, <3>2, <3>3, RollbackHooksSteps
 <2>4. CASE x = r /\ <<"cleanup", a>> \in Pending(hooks[r])
  <3>0. hooks[r] # << >> BY <2>4, PendingEmpty
  <3>1. CASE hooks' = hooks BY <2>4, <3>1 DEF Watched, Pending
  <3>2. CASE RunHook(r) /\ hooks'[r] = Tail(hooks[r])
   <4>1. Head(hooks[r]) # <<"cleanup", a>>
    <5>1. SUFFICES ASSUME Head(hooks[r]) = <<"cleanup", a>> PROVE FALSE OBVIOUS
    <5>2. ~RunCleanup(r) BY <5>1 DEF RunCleanup
    <5>3. ~RunArchiveFile(r) /\ ~RunArchiveFolder(r) /\ ~RunPublish(r)
      BY <5>1 DEF RunArchiveFile, RunArchiveFolder, RunPublish
    <5>4. ~FileHookFails(r) BY DEF FileHookFails
    <5> QED BY <3>2, <5>2, <5>3, <5>4 DEF RunHook
   <4>2. <<"cleanup", a>> \in Pending(Tail(hooks[r])) BY <2>4, <3>0, <4>1, HookLists, PendingHead
   <4> QED BY <3>2, <4>2 DEF Watched, Pending
  <3>3. CASE TxCommits(r) \/ TxRollsBack(r)
    BY <3>0, <3>3 DEF HooksRun, TxCommits, TxRollsBack, Commit, CommitReplyLost, Rollback,
                      CommitFails
  <3> QED BY <3>1, <3>2, <3>3, HooksSteps
 <2> QED BY <2>1, <2>2, <2>3, <2>4
<1> QED BY <1>2, <1>3, <1>4

\* Hooks are left only while they are run.
LEMMA HooksRunStep ==
  ASSUME TypeOK, HooksRun, NEW r \in Requests, RequestStep(r)
  PROVE  HooksRun'
<1>1. phase'[r] # "hooks" => hooks'[r] = << >>
 <2>1. CASE TxCommits(r) \/ TxRollsBack(r)
   BY <2>1 DEF TypeOK, TxCommits, TxRollsBack, Commit, CommitReplyLost, Rollback,
               CommitFails, EndTx
 <2>2. CASE RunHook(r) BY <2>2 DEF RunHook, HookReturns
 <2>3. CASE ~TxCommits(r) /\ ~TxRollsBack(r) /\ ~RunHook(r)
  <3>1. hooks' = hooks BY <2>3, HooksSteps
  <3>2. phase[r] = "hooks" => hooks[r] = << >> \/ phase'[r] = "hooks"
   <4>1. CASE RequestArrives(r) \/ Ends(r)
     BY <4>1 DEF RequestArrives, Request, Arrive, Ends, EndWithoutTx, RequestEnds
   <4>2. CASE Fails(r) \/ InsertAsset(r) \/ SaveFile(r) \/ FinishUpload(r) \/ UpdateAsset(r)
     BY <4>2 DEF Fails, InsertAsset, SaveFile, FinishUpload, UpdateAsset, Handling
   <4>3. CASE PlanDelete(r) \/ DeleteAsset(r) \/ FetchPreferred(r) \/ UpdateCached(r)
              \/ DeleteParent(r)
     BY <4>3 DEF PlanDelete, DeleteAsset, FetchPreferred, UpdateCached, DeleteParent, Handling
   <4> QED BY <2>3, <4>1, <4>2, <4>3 DEF RequestStep
  <3> QED BY <3>1, <3>2 DEF HooksRun
 <2> QED BY <2>1, <2>2, <2>3
<1>2. ASSUME NEW x \in Requests \ {r} PROVE phase'[x] # "hooks" => hooks'[x] = << >>
  BY Frame DEF Untouched, HooksRun
<1> QED BY <1>1, <1>2 DEF HooksRun

LEMMA TInvInit ==
  ASSUME Init
  PROVE  TInv
<1>1. Announced /\ ToTell BY PendingEmpty DEF Init, LazyInit, Announced, ToTell
<1>2. Told
 <2>1. published \notin ({"create", "delete"} \X Assets) \cup ({"deleteParent"} \X Parents)
   BY DEF Init, NoEvent
 <2> QED BY <2>1 DEF Told, IsTrue
<1>3. Chosen /\ PreviewWasCommitted BY DEF Init, Chosen, NoOperation, PreviewWasCommitted
<1>4. FilesWatched /\ HooksRun BY DEF Init, LazyInit, FilesWatched, HooksRun
<1> QED BY <1>1, <1>2, <1>3, <1>4, BaseInit DEF TInv

LEMMA TInvNext ==
  ASSUME TInv, [Next]_vars
  PROVE  TInv'
<1>0. Base' BY BaseNext DEF TInv
<1>1. CASE Crash
 <2>1. \A r \in Requests : /\ Pending(afterCommitHooks'[r]) = {}
                           /\ Pending(hooks'[r]) = {} BY <1>1, CrashEffect, PendingEmpty
 <2>2. Announced' /\ ToTell' BY <2>1 DEF Announced, ToTell, Pending
 <2>3. Told' /\ PreviewWasCommitted' BY <1>1, CrashEffect DEF TInv, Told, IsTrue, PreviewWasCommitted
 <2>4. Chosen' /\ FilesWatched' /\ HooksRun'
   BY <1>1, CrashEffect DEF Chosen, NoOperation, FilesWatched, HooksRun
 <2> QED BY <1>0, <2>2, <2>3, <2>4 DEF TInv
<1>2. ASSUME NEW r \in Requests, RequestStep(r) PROVE TInv'
 <2>1. Announced' BY <1>2, AnnouncedStep DEF TInv, Base
 <2>2. ToTell' /\ Told' BY <1>2, ToldStep DEF TInv, Base
 <2>3. Chosen' /\ PreviewWasCommitted' BY <1>2, ChosenStep, PreviewStep DEF TInv, Base
 <2>4. FilesWatched' /\ HooksRun' BY <1>2, WatchedStep, HooksRunStep DEF TInv, Base
 <2> QED BY <1>0, <2>1, <2>2, <2>3, <2>4 DEF TInv
<1>3. CASE UNCHANGED vars
 <2>1. UNCHANGED <<phase, tx, afterCommitHooks, afterRollbackHooks, hooks, row, parents,
                   cached, live, op, step, published, everCommitted, faulted>>
   BY <1>3 DEF vars, lazyVars, dbVars, fileVars, opVars, historyVars
 <2>2. Announced' /\ ToTell' /\ Told'
   BY <2>1 DEF TInv, Announced, ToTell, Told, IsTrue, Pending, Wrote, Outcome
 <2>3. Chosen' /\ PreviewWasCommitted' BY <2>1 DEF TInv, Chosen, PreviewWasCommitted
 <2>4. FilesWatched' /\ HooksRun' BY <2>1, ZenonT(60) DEF TInv, FilesWatched, Watched, Pending, HooksRun
 <2> QED BY <1>0, <2>2, <2>3, <2>4 DEF TInv
<1> QED BY <1>1, <1>2, <1>3 DEF Next, RequestStep

LEMMA AlwaysTInv == Spec => []TInv
<1>1. Init => TInv BY TInvInit
<1>2. TInv /\ [Next]_vars => TInv' BY TInvNext
<1> QED BY <1>1, <1>2, PTL DEF Spec

\* A subscriber of the event bus is told of a mutation only once it is in the
\* database, and it stays true: the event is published by a commit hook
\* (add_row_multipart.go, delete_row.go, tx_context.go).
THEOREM EventsAreTrue == Spec => []EventsTellTheTruth
<1>1. TInv => EventsTellTheTruth BY DEF TInv, Told, IsTrue, EventsTellTheTruth
<1> QED BY <1>1, AlwaysTInv, PTL

\* cached_image never names an upload that was rolled back: what a handler
\* fetched was committed or its own (asset_linking_cache_sync.go).
THEOREM PreviewsAreCommitted == Spec => []PreviewWasCommitted
<1>1. TInv => PreviewWasCommitted BY DEF TInv
<1> QED BY <1>1, AlwaysTInv, PTL

\* The file of an upload that was rolled back has been removed when its request
\* is over, unless the process died or the removal failed (add_row_files.go).
THEOREM UploadsAreCleaned == Spec => []RolledBackUploadLeavesNoFile
<1>1. TInv => RolledBackUploadLeavesNoFile
 <2> SUFFICES ASSUME TInv, ~faulted, \A r \in Requests : phase[r] = "idle", NEW a \in live
              PROVE  a \in everCommitted BY DEF RolledBackUploadLeavesNoFile
 <2>1. \A r \in Requests : afterRollbackHooks[r] = << >> /\ hooks[r] = << >>
   BY DEF TInv, Base, Shape, HooksRun
 <2>2. ~Watched(a) BY <2>1, PendingEmpty DEF Watched
 <2> QED BY <2>2 DEF TInv, FilesWatched
<1> QED BY <1>1, AlwaysTInv, PTL
=============================================================================
