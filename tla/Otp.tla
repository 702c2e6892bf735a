-------------------------------- MODULE Otp --------------------------------
(***************************************************************************)
(* One-time passwords of one user and one profile: the slots that limit    *)
(* how many codes are sent, the single row that holds the challenge, and   *)
(* the transactions of the handlers that send and verify codes.            *)
(*                                                                         *)
(* PostgreSQL's NOW() is the time at which the transaction began, not the  *)
(* time of the statement: a transaction that waited for a lock works with  *)
(* an old time.  MaxDelay is the longest a transaction stays open; the     *)
(* properties say what the delay may cost.                                 *)
(*                                                                         *)
(* A code is generated at random; two generated codes are taken to differ. *)
(* A guess for another target e-mail is a wrong guess.  CleanExpired is    *)
(* called by nobody and is left out.                                       *)
(***************************************************************************)
EXTENDS Integers, Sequences, FiniteSets, TLC, FiniteSetTheorems, TLAPS

CONSTANTS
  Jobs,         \* the goroutines that send or verify
  Codes,        \* the codes that may be generated
  NoCode,
  MaxAttempts,  \* Profile.MaxVerifyAttempts
  SendLimit,    \* Profile.UserSendLimit
  Window,       \* Profile.UserSendWindow
  TTL,          \* Profile.TTL
  MaxDelay,     \* the longest a transaction stays open
  MaxNow        \* bound: the end of time

ASSUME OtpAssumption ==
  /\ NoCode \notin Codes
  /\ MaxAttempts \in Nat \ {0} /\ SendLimit \in Nat \ {0}
  /\ TTL \in Nat \ {0} /\ MaxDelay \in Nat \ {0} /\ MaxNow \in Nat
  /\ Window \in Nat /\ Window >= MaxDelay
  /\ IsFiniteSet(Codes)

VARIABLES
  now,          \* the clock of the database
  \* restricted.otp_send_events
  slots,        \* the slots, each named by the code it was reserved for
  requestedAt,  \* the requested_at of each slot
  bucketOwner,  \* the jobs that hold the advisory lock
  \* restricted.verification_codes
  challenge,    \* the row of this user and purpose
  rowOwner,     \* the jobs that hold the lock of that row
  \* the handlers
  job,
  \* what an observer remembers
  issued,       \* the codes for which a slot was reserved
  reservedAt,   \* when its reservation was committed
  tried,        \* the guesses that were answered by comparing them to a code
  fate,         \* how each code left the table
  acceptedAt,   \* when a code was verified
  expiresAt,    \* the expiry a code was stored with
  delivered     \* the codes whose e-mail was reported as sent

sendVars == <<slots, requestedAt, bucketOwner>>
rowVars == <<challenge, rowOwner>>
sendHistory == <<issued, reservedAt>>
codeHistory == <<tried, fate, acceptedAt, expiresAt>>
vars == <<now, sendVars, rowVars, job, sendHistory, codeHistory, delivered>>

Place == {"idle", "lock", "count", "reserve", "create", "upsert", "mail",
          "revoke", "select", "wait", "decide"}
\* In a transaction whose NOW() is job.began.
InTransaction == {"lock", "count", "reserve", "upsert", "select", "wait", "decide"}
\* With a code that a slot was reserved for.
Sending == {"create", "upsert", "mail", "revoke"}
Challenge == [row : Codes \cup {NoCode}, code : Codes \cup {NoCode},
              attempts : Nat, expires : Int]
NoRow == [row |-> NoCode, code |-> NoCode, attempts |-> 0, expires |-> 0]
Job == [place : Place, began : Int, code : Codes \cup {NoCode},
        free : BOOLEAN, seen : Challenge]
Idle == [place |-> "idle", began |-> 0, code |-> NoCode, free |-> FALSE, seen |-> NoRow]
Fate == {"verified", "replaced", "revoked", "dropped"}

TypeOK ==
  /\ now \in 0..MaxNow
  /\ slots \subseteq Codes /\ issued \subseteq Codes /\ delivered \subseteq Codes
  /\ requestedAt \in [Codes -> Int] /\ reservedAt \in [Codes -> Int]
  /\ bucketOwner \subseteq Jobs /\ rowOwner \subseteq Jobs
  /\ challenge \in Challenge
  /\ challenge.row = NoCode <=> challenge.code = NoCode
  /\ job \in [Jobs -> Job]
  /\ \A j \in Jobs :
       /\ job[j].place \in Sending => job[j].code # NoCode
       /\ job[j].place = "wait" => job[j].seen.row # NoCode
       /\ job[j].place = "decide" => job[j].seen.code # NoCode
  /\ tried \in [Codes -> Nat]
  /\ fate \in [Codes -> Seq(Fate)]
  /\ acceptedAt \in [Codes -> Int] /\ expiresAt \in [Codes -> Int]

Init ==
  /\ now = 0
  /\ slots = {} /\ requestedAt = [c \in Codes |-> 0] /\ bucketOwner = {}
  /\ challenge = NoRow /\ rowOwner = {}
  /\ job = [j \in Jobs |-> Idle]
  /\ issued = {} /\ reservedAt = [c \in Codes |-> 0]
  /\ tried = [c \in Codes |-> 0] /\ fate = [c \in Codes |-> << >>]
  /\ acceptedAt = [c \in Codes |-> 0] /\ expiresAt = [c \in Codes |-> 0]
  /\ delivered = {}

At(j, place) == job[j].place = place
Become(j, next) == job' = [job EXCEPT ![j] = next]
Goto(j, place) == Become(j, [job[j] EXCEPT !.place = place])
\* A transaction begins: its NOW() is fixed.
BeginAt(j, place) == Become(j, [job[j] EXCEPT !.place = place, !.began = now])
Leave(j) == Become(j, Idle)
\* The code in the row leaves the table.
CodeEnds(c, how) == fate' = [fate EXCEPT ![c] = Append(@, how)]

-----------------------------------------------------------------------------
(* ReserveSend.                                                            *)

SendRequested(j) ==
  /\ At(j, "idle")
  /\ BeginAt(j, "lock")
  /\ UNCHANGED <<now, sendVars, rowVars, sendHistory, codeHistory, delivered>>

\* A bug: the advisory lock is not taken.
LockBucketShared(j) ==
  /\ At(j, "lock")
  /\ bucketOwner' = bucketOwner \cup {j}
  /\ Goto(j, "count")
  /\ UNCHANGED <<now, slots, requestedAt, rowVars, sendHistory, codeHistory, delivered>>

\* pg_advisory_xact_lock.
LockBucket(j) ==
  /\ At(j, "lock")
  /\ bucketOwner = {}
  /\ bucketOwner' = {j}
  /\ Goto(j, "count")
  /\ UNCHANGED <<now, slots, requestedAt, rowVars, sendHistory, codeHistory, delivered>>

\* The slots the transaction's own DELETE leaves.
InWindow(j) == {c \in slots : requestedAt[c] >= job[j].began - Window}

CountSlots(j) ==
  /\ At(j, "count")
  /\ Become(j, [job[j] EXCEPT !.place = "reserve",
                              !.free = Cardinality(InWindow(j)) < SendLimit])
  /\ UNCHANGED <<now, sendVars, rowVars, sendHistory, codeHistory, delivered>>

\* No slot is free: the prune is committed, the caller is refused.
RefuseSend(j) ==
  /\ At(j, "reserve") /\ ~job[j].free
  /\ slots' = InWindow(j)
  /\ bucketOwner' = bucketOwner \ {j}
  /\ Leave(j)
  /\ UNCHANGED <<now, requestedAt, rowVars, sendHistory, codeHistory, delivered>>

\* The slot is inserted and committed; the code it is for is chosen.
ReserveSlot(j) ==
  /\ At(j, "reserve") /\ job[j].free
  /\ \E c \in Codes \ issued :
       /\ slots' = InWindow(j) \cup {c}
       /\ requestedAt' = [requestedAt EXCEPT ![c] = job[j].began]
       /\ reservedAt' = [reservedAt EXCEPT ![c] = now]
       /\ issued' = issued \cup {c}
       /\ Become(j, [job[j] EXCEPT !.place = "create", !.code = c])
  /\ bucketOwner' = bucketOwner \ {j}
  /\ UNCHANGED <<now, rowVars, codeHistory, delivered>>

-----------------------------------------------------------------------------
(* CreateOTP, the e-mail and RevokeOTP.                                    *)

SendUpsert(j) ==
  /\ At(j, "create")
  /\ BeginAt(j, "upsert")
  /\ UNCHANGED <<now, sendVars, rowVars, sendHistory, codeHistory, delivered>>

\* INSERT ... ON CONFLICT DO UPDATE waits for the lock of the row.  A row that
\* is there stays the same row and takes the new code.
Upsert(j) ==
  LET c == job[j].code
      expires == job[j].began + TTL IN
  /\ At(j, "upsert") /\ rowOwner = {}
  /\ challenge' = [row |-> IF challenge.row = NoCode THEN c ELSE challenge.row,
                   code |-> c, attempts |-> 0, expires |-> expires]
  /\ IF challenge.row = NoCode THEN UNCHANGED fate ELSE CodeEnds(challenge.code, "replaced")
  /\ expiresAt' = [expiresAt EXCEPT ![c] = expires]
  /\ Goto(j, "mail") \/ Leave(j)   \* Leave: the reply is lost
  /\ UNCHANGED <<now, sendVars, rowOwner, sendHistory, tried, acceptedAt, delivered>>

MailSent(j) ==
  /\ At(j, "mail")
  /\ delivered' = delivered \cup {job[j].code}
  /\ Leave(j)
  /\ UNCHANGED <<now, sendVars, rowVars, sendHistory, codeHistory>>

\* The mail server refuses, or its answer does not arrive.
MailFails(j) ==
  /\ At(j, "mail")
  /\ Goto(j, "revoke")
  /\ UNCHANGED <<now, sendVars, rowVars, sendHistory, codeHistory, delivered>>

\* A bug: the challenge is revoked whatever code it holds.
RevokeAny(j) ==
  /\ At(j, "revoke") /\ rowOwner = {}
  /\ IF challenge.row # NoCode
       THEN challenge' = NoRow /\ CodeEnds(challenge.code, "revoked")
       ELSE UNCHANGED <<challenge, fate>>
  /\ Leave(j)
  /\ UNCHANGED <<now, sendVars, rowOwner, sendHistory, tried, acceptedAt, expiresAt, delivered>>

\* Only the challenge of the code that was not delivered.  Another code in the
\* row does not match, and the DELETE need not wait for it.
Revoke(j) ==
  /\ At(j, "revoke")
  /\ IF challenge.code = job[j].code
       THEN rowOwner = {} /\ challenge' = NoRow /\ CodeEnds(challenge.code, "revoked")
       ELSE UNCHANGED <<challenge, fate>>
  /\ Leave(j)
  /\ UNCHANGED <<now, sendVars, rowOwner, sendHistory, tried, acceptedAt, expiresAt, delivered>>

-----------------------------------------------------------------------------
(* verifyOTPWithTarget.  NoCode stands for a guess nobody was sent.        *)

VerifyRequested(j) ==
  /\ At(j, "idle")
  /\ \E guess \in Codes \cup {NoCode} :
       Become(j, [job[j] EXCEPT !.place = "select", !.began = now, !.code = guess])
  /\ UNCHANGED <<now, sendVars, rowVars, sendHistory, codeHistory, delivered>>

\* SELECT ... FOR UPDATE starts: no row answers at once, a row is waited for.
SelectChallenge(j) ==
  /\ At(j, "select")
  /\ IF challenge.row = NoCode
       THEN Leave(j)
       ELSE Become(j, [job[j] EXCEPT !.place = "wait",
                                     !.seen = [NoRow EXCEPT !.row = challenge.row]])
  /\ UNCHANGED <<now, sendVars, rowVars, sendHistory, codeHistory, delivered>>

\* A bug: the row is read without FOR UPDATE.
ReadRow(j) ==
  /\ At(j, "wait")
  /\ IF challenge.row = job[j].seen.row
       THEN Become(j, [job[j] EXCEPT !.place = "decide", !.seen = challenge])
       ELSE Leave(j)
  /\ UNCHANGED <<now, sendVars, rowVars, sendHistory, codeHistory, delivered>>

\* The lock is granted: an updated row is read again, a deleted one is gone
\* even when another was inserted since.
LockRow(j) ==
  /\ At(j, "wait") /\ rowOwner = {}
  /\ IF challenge.row = job[j].seen.row
       THEN /\ rowOwner' = {j}
            /\ Become(j, [job[j] EXCEPT !.place = "decide", !.seen = challenge])
       ELSE Leave(j) /\ UNCHANGED rowOwner
  /\ UNCHANGED <<now, sendVars, challenge, sendHistory, codeHistory, delivered>>

\* A bug: an expired challenge is accepted.
RefusedWhenExhausted(seen, began) == seen.attempts >= MaxAttempts

\* The challenge has expired or its attempts are used up.
Refused(seen, began) == seen.expires <= began \/ seen.attempts >= MaxAttempts

\* The locked challenge is decided on; DELETE and UPDATE must find its row.
Deciding(j) == At(j, "decide") /\ challenge.row = job[j].seen.row

\* Commit of a verification: the lock of the row is released.
EndVerify(j) ==
  /\ rowOwner' = rowOwner \ {j}
  /\ Leave(j)
  /\ UNCHANGED <<now, sendVars, sendHistory, expiresAt, delivered>>

DropRefused(j) ==
  /\ Deciding(j) /\ Refused(job[j].seen, job[j].began)
  /\ challenge' = NoRow
  /\ CodeEnds(job[j].seen.code, "dropped")
  /\ UNCHANGED <<tried, acceptedAt>>
  /\ EndVerify(j)

\* The guess is right.  When the reply to COMMIT is lost the caller gets an
\* error, and the code is gone all the same.
Accept(j) ==
  LET c == job[j].seen.code IN
  /\ Deciding(j) /\ ~Refused(job[j].seen, job[j].began)
  /\ job[j].code = c
  /\ challenge' = NoRow
  /\ \/ CodeEnds(c, "verified") /\ acceptedAt' = [acceptedAt EXCEPT ![c] = now]
     \/ CodeEnds(c, "dropped") /\ UNCHANGED acceptedAt
  /\ tried' = [tried EXCEPT ![c] = @ + 1]
  /\ EndVerify(j)

\* A bug: the attempts are counted down from zero.
RejectCountingDown(j) ==
  LET c == job[j].seen.code IN
  /\ Deciding(j) /\ ~Refused(job[j].seen, job[j].began)
  /\ job[j].code # c
  /\ challenge' = [challenge EXCEPT !.attempts = job[j].seen.attempts - 1]
  /\ UNCHANGED <<fate, acceptedAt>>
  /\ tried' = [tried EXCEPT ![c] = @ + 1]
  /\ EndVerify(j)

\* The guess is wrong: the last attempt deletes the challenge.
Reject(j) ==
  LET c == job[j].seen.code
      attempts == job[j].seen.attempts + 1 IN
  /\ Deciding(j) /\ ~Refused(job[j].seen, job[j].began)
  /\ job[j].code # c
  /\ IF attempts >= MaxAttempts
       THEN challenge' = NoRow /\ CodeEnds(c, "dropped")
       ELSE challenge' = [challenge EXCEPT !.attempts = attempts] /\ UNCHANGED fate
  /\ tried' = [tried EXCEPT ![c] = @ + 1]
  /\ UNCHANGED acceptedAt
  /\ EndVerify(j)

-----------------------------------------------------------------------------
\* A statement, BEGIN or COMMIT reports an error: the transaction is rolled
\* back and the handler answers with an error.
Fails(j) ==
  /\ job[j].place \notin {"idle", "mail"}
  /\ bucketOwner' = bucketOwner \ {j}
  /\ rowOwner' = rowOwner \ {j}
  /\ Leave(j)
  /\ UNCHANGED <<now, slots, requestedAt, challenge, sendHistory, codeHistory, delivered>>

\* The process dies; the database rolls back what it had open.
Crash ==
  /\ job' = [j \in Jobs |-> Idle]
  /\ bucketOwner' = {} /\ rowOwner' = {}
  /\ UNCHANGED <<now, slots, requestedAt, challenge, sendHistory, codeHistory, delivered>>

Tick ==
  /\ now < MaxNow
  /\ \A j \in Jobs : job[j].place \in InTransaction => now - job[j].began < MaxDelay
  /\ now' = now + 1
  /\ UNCHANGED <<sendVars, rowVars, job, sendHistory, codeHistory, delivered>>

Next ==
  \/ \E j \in Jobs :
       \/ SendRequested(j) \/ LockBucket(j) \/ CountSlots(j) \/ RefuseSend(j)
       \/ ReserveSlot(j) \/ SendUpsert(j) \/ Upsert(j) \/ MailSent(j)
       \/ MailFails(j) \/ Revoke(j)
       \/ VerifyRequested(j) \/ SelectChallenge(j) \/ LockRow(j)
       \/ DropRefused(j) \/ Accept(j) \/ Reject(j)
       \/ Fails(j)
  \/ Crash
  \/ Tick

Spec == Init /\ [][Next]_vars

-----------------------------------------------------------------------------
(* Properties.                                                             *)

\* A code leaves the table once: it is verified once, and not after a resend
\* replaced it, its delivery was revoked or its attempts were used up.
CodeEndsOnce == \A c \in Codes : Len(fate[c]) <= 1

\* However many verifications run at once, at most MaxAttempts guesses are
\* compared to one code.
AttemptBudget == \A c \in Codes : tried[c] <= MaxAttempts

\* However many goroutines reserve slots at once, at most SendLimit slots are
\* granted in the last Window, less the time a transaction may be delayed.
SendsInWindow ==
  Cardinality({c \in issued : reservedAt[c] >= now - (Window - MaxDelay)}) <= SendLimit

\* A code is not accepted once it has expired, but for the time a transaction
\* may be delayed after it fixed its NOW().
AcceptedInTime ==
  \A c \in Codes : fate[c] = <<"verified">> => acceptedAt[c] < expiresAt[c] + MaxDelay

\* A delayed delivery failure does not revoke a code that was delivered (the
\* comment of RevokeOTP).
DeliveredIsNotRevoked ==
  \A c \in delivered : fate[c] # <<"revoked">>

\* For TLC: the jobs are alike, and so are the codes.
OtpSymmetry == Permutations(Jobs) \cup Permutations(Codes)
-----------------------------------------------------------------------------
(* Proofs: the type invariant and, from one inductive invariant, the properties of codes and of
   send slots, for any number of jobs and codes. *)

USE OtpAssumption

LEMMA CountType ==
  ASSUME NEW f \in [Codes -> Nat], NEW c \in Codes
  PROVE  [f EXCEPT ![c] = @ + 1] \in [Codes -> Nat] OBVIOUS

LEMMA StampType ==
  ASSUME NEW f \in [Codes -> Int], NEW c \in Codes, NEW t \in Int
  PROVE  [f EXCEPT ![c] = t] \in [Codes -> Int] OBVIOUS

\* Appending a fate, or a first one.
LEMMA AppendFate ==
  ASSUME NEW f \in [Codes -> Seq(Fate)], NEW c \in Codes, NEW how \in Fate
  PROVE  [f EXCEPT ![c] = Append(@, how)] \in [Codes -> Seq(Fate)]
<1>1. Append(f[c], how) \in Seq(Fate) OBVIOUS
<1> QED BY <1>1

LEMMA FirstFate ==
  ASSUME NEW how
  PROVE  Append(<< >>, how) = <<how>> /\ Len(<<how>>) = 1 OBVIOUS

\* A job that is well formed.
JobShape(r) ==
  /\ r \in Job
  /\ r.place \in Sending => r.code # NoCode
  /\ r.place = "wait" => r.seen.row # NoCode
  /\ r.place = "decide" => r.seen.code # NoCode

JobsOK == job \in [Jobs -> Job] /\ \A j \in Jobs : JobShape(job[j])

LEMMA JobsTyped == TypeOK => JobsOK BY DEF TypeOK, JobsOK, JobShape

LEMMA TypedFromJobs ==
  ASSUME JobsOK', now' \in 0..MaxNow,
         slots' \subseteq Codes, issued' \subseteq Codes, delivered' \subseteq Codes,
         requestedAt' \in [Codes -> Int], reservedAt' \in [Codes -> Int],
         bucketOwner' \subseteq Jobs, rowOwner' \subseteq Jobs,
         challenge' \in Challenge, (challenge.row = NoCode <=> challenge.code = NoCode)',
         tried' \in [Codes -> Nat], fate' \in [Codes -> Seq(Fate)],
         acceptedAt' \in [Codes -> Int], expiresAt' \in [Codes -> Int]
  PROVE  TypeOK' BY DEF TypeOK, JobsOK, JobShape

LEMMA BecomeType ==
  ASSUME JobsOK, NEW j \in Jobs, NEW r, JobShape(r), Become(j, r)
  PROVE  JobsOK' BY DEF JobsOK, JobShape, Become

LEMMA IdleShape == JobShape(Idle) BY DEF JobShape, Idle, NoRow, Job, Challenge, Place, Sending

LEMMA NoRowType == NoRow \in Challenge BY DEF NoRow, Challenge

LEMMA GotoShape ==
  ASSUME JobsOK, NEW j \in Jobs, NEW p \in Place,
         p \in Sending => job[j].code # NoCode, p # "wait", p # "decide"
  PROVE  JobShape([job[j] EXCEPT !.place = p])
<1>1. job[j] \in Job BY DEF JobsOK
<1>2. [job[j] EXCEPT !.place = p] \in Job BY <1>1 DEF Job
<1> QED BY <1>1, <1>2 DEF JobShape, Job

LEMMA BeginShape ==
  ASSUME TypeOK, NEW j \in Jobs, NEW p \in Place,
         p \in Sending => job[j].code # NoCode, p # "wait", p # "decide"
  PROVE  JobShape([job[j] EXCEPT !.place = p, !.began = now])
<1>1. job[j] \in Job /\ now \in Int BY DEF TypeOK
<1>2. [job[j] EXCEPT !.place = p, !.began = now] \in Job BY <1>1 DEF Job
<1> QED BY <1>1, <1>2 DEF JobShape, Job

\* Every operation keeps the types.
LEMMA TypeStep == TypeOK /\ [Next]_vars => TypeOK'
<1> SUFFICES ASSUME TypeOK, [Next]_vars PROVE TypeOK' OBVIOUS
<1>0. JobsOK BY JobsTyped
<1>1. ASSUME NEW j \in Jobs, SendRequested(j) PROVE TypeOK'
 <2>1. JobsOK' BY <1>0, <1>1, BeginShape, BecomeType DEF SendRequested, BeginAt, Place, Sending
 <2> QED BY <1>1, <2>1, TypedFromJobs DEF TypeOK, SendRequested, sendVars, rowVars, sendHistory, codeHistory
<1>2. ASSUME NEW j \in Jobs, LockBucket(j) PROVE TypeOK'
 <2>1. JobsOK' BY <1>0, <1>2, GotoShape, BecomeType DEF LockBucket, Goto, Place, Sending
 <2> QED BY <1>2, <2>1, TypedFromJobs DEF TypeOK, LockBucket, rowVars, sendHistory, codeHistory
<1>3. ASSUME NEW j \in Jobs, CountSlots(j) PROVE TypeOK'
 <2>1. JobsOK'
  <3> DEFINE r == [job[j] EXCEPT !.place = "reserve", !.free = Cardinality(InWindow(j)) < SendLimit]
  <3>1. job[j] \in Job /\ (Cardinality(InWindow(j)) < SendLimit) \in BOOLEAN BY <1>0 DEF JobsOK
  <3>2. r \in Job BY <3>1 DEF Job, Place
  <3>3. JobShape(r) BY <3>1, <3>2 DEF JobShape, Job, Sending
  <3> QED BY <1>0, <1>3, <3>3, BecomeType DEF CountSlots
 <2> QED BY <1>3, <2>1, TypedFromJobs DEF TypeOK, CountSlots, sendVars, rowVars, sendHistory, codeHistory
<1>4. ASSUME NEW j \in Jobs, RefuseSend(j) PROVE TypeOK'
 <2>1. JobsOK' BY <1>0, <1>4, IdleShape, BecomeType DEF RefuseSend, Leave
 <2> QED BY <1>4, <2>1, TypedFromJobs DEF TypeOK, RefuseSend, InWindow, rowVars, sendHistory, codeHistory
<1>5. ASSUME NEW j \in Jobs, ReserveSlot(j) PROVE TypeOK'
 <2>1. JobsOK'
  <3>1. PICK c \in Codes : Become(j, [job[j] EXCEPT !.place = "create", !.code = c]) BY <1>5 DEF ReserveSlot
  <3>2. job[j] \in Job BY <1>0 DEF JobsOK
  <3>3. [job[j] EXCEPT !.place = "create", !.code = c] \in Job BY <3>2 DEF Job, Place
  <3>4. JobShape([job[j] EXCEPT !.place = "create", !.code = c])
   <4> DEFINE r == [job[j] EXCEPT !.place = "create", !.code = c]
   <4>1. r \in Job /\ r.place = "create" /\ r.code = c BY <3>2, <3>3 DEF Job
   <4> HIDE DEF r
   <4>2. JobShape(r) BY <4>1 DEF JobShape
   <4> QED BY <4>2 DEF r
  <3> QED BY <1>0, <3>1, <3>4, BecomeType
 <2>2. PICK c \in Codes : /\ slots' = InWindow(j) \cup {c} /\ issued' = issued \cup {c}
                          /\ requestedAt' = [requestedAt EXCEPT ![c] = job[j].began]
                          /\ reservedAt' = [reservedAt EXCEPT ![c] = now] BY <1>5 DEF ReserveSlot
 <2>3. /\ requestedAt \in [Codes -> Int] /\ reservedAt \in [Codes -> Int]
       /\ job[j].began \in Int /\ now \in Int BY DEF TypeOK, Job
 <2>4. requestedAt' \in [Codes -> Int] /\ reservedAt' \in [Codes -> Int] BY <2>2, <2>3, StampType
 <2>5. slots' \subseteq Codes /\ issued' \subseteq Codes BY <2>2 DEF TypeOK, InWindow
 <2> QED BY <1>5, <2>1, <2>4, <2>5, TypedFromJobs DEF TypeOK, ReserveSlot, rowVars, codeHistory
<1>6. ASSUME NEW j \in Jobs, SendUpsert(j) PROVE TypeOK'
 <2>1. JobsOK' BY <1>0, <1>6, BeginShape, BecomeType DEF SendUpsert, BeginAt, Place, Sending, TypeOK, At
 <2> QED BY <1>6, <2>1, TypedFromJobs DEF TypeOK, SendUpsert, sendVars, rowVars, sendHistory, codeHistory
<1>7. ASSUME NEW j \in Jobs, Upsert(j) PROVE TypeOK'
 <2>1. JobsOK'
   BY <1>0, <1>7, GotoShape, IdleShape, BecomeType DEF Upsert, Goto, Leave, Place, Sending, TypeOK, At
 <2>2. job[j].code \in Codes /\ job[j].began + TTL \in Int BY <1>7 DEF Upsert, TypeOK, Job, At, Sending
 <2>3. fate' \in [Codes -> Seq(Fate)]
  <3>1. CASE challenge.row = NoCode BY <1>7, <3>1 DEF Upsert, TypeOK
  <3>2. CASE challenge.row # NoCode
   <4>1. challenge.code \in Codes /\ fate \in [Codes -> Seq(Fate)] BY <3>2 DEF TypeOK, Challenge
   <4>2. fate' = [fate EXCEPT ![challenge.code] = Append(@, "replaced")] BY <1>7, <3>2 DEF Upsert, CodeEnds
   <4> QED BY <4>1, <4>2, AppendFate DEF Fate
  <3> QED BY <3>1, <3>2
 <2>4. challenge' \in Challenge /\ (challenge.row = NoCode <=> challenge.code = NoCode)'
   BY <1>7, <2>2 DEF Upsert, TypeOK, Challenge
 <2>5. expiresAt' \in [Codes -> Int] BY <1>7, <2>2 DEF Upsert, TypeOK
 <2> QED BY <1>7, <2>1, <2>3, <2>4, <2>5, TypedFromJobs DEF TypeOK, Upsert, sendVars, sendHistory
<1>8. ASSUME NEW j \in Jobs, MailSent(j) PROVE TypeOK'
 <2>1. JobsOK' BY <1>0, <1>8, IdleShape, BecomeType DEF MailSent, Leave
 <2>2. delivered' \subseteq Codes BY <1>8 DEF MailSent, TypeOK, Job, At, Sending
 <2> QED BY <1>8, <2>1, <2>2, TypedFromJobs
     DEF TypeOK, MailSent, sendVars, rowVars, sendHistory, codeHistory
<1>9. ASSUME NEW j \in Jobs, MailFails(j) PROVE TypeOK'
 <2>1. JobsOK' BY <1>0, <1>9, GotoShape, BecomeType DEF MailFails, Goto, Place, Sending, TypeOK, At
 <2> QED BY <1>9, <2>1, TypedFromJobs DEF TypeOK, MailFails, sendVars, rowVars, sendHistory, codeHistory
<1>10. ASSUME NEW j \in Jobs, Revoke(j) PROVE TypeOK'
 <2>1. JobsOK' BY <1>0, <1>10, IdleShape, BecomeType DEF Revoke, Leave
 <2>2. /\ challenge' \in Challenge /\ (challenge.row = NoCode <=> challenge.code = NoCode)'
       /\ fate' \in [Codes -> Seq(Fate)]
  <3>1. CASE challenge.code = job[j].code
   <4>1. challenge.code \in Codes /\ fate \in [Codes -> Seq(Fate)]
     BY <1>10, <3>1 DEF Revoke, TypeOK, Challenge, At, Sending
   <4>2. fate' = [fate EXCEPT ![challenge.code] = Append(@, "revoked")] /\ challenge' = NoRow
     BY <1>10, <3>1 DEF Revoke, CodeEnds
   <4>3. fate' \in [Codes -> Seq(Fate)] BY <4>1, <4>2, AppendFate DEF Fate
   <4> QED BY <4>2, <4>3, NoRowType DEF NoRow
  <3>2. CASE challenge.code # job[j].code BY <1>10, <3>2 DEF Revoke, TypeOK
  <3> QED BY <3>1, <3>2
 <2> QED BY <1>10, <2>1, <2>2, TypedFromJobs DEF TypeOK, Revoke, sendVars, sendHistory
<1>11. ASSUME NEW j \in Jobs, VerifyRequested(j) PROVE TypeOK'
 <2>1. JobsOK'
  <3>1. PICK guess \in Codes \cup {NoCode} :
          Become(j, [job[j] EXCEPT !.place = "select", !.began = now, !.code = guess])
    BY <1>11 DEF VerifyRequested
  <3>2. job[j] \in Job /\ now \in Int BY <1>0 DEF JobsOK, TypeOK
  <3>3. [job[j] EXCEPT !.place = "select", !.began = now, !.code = guess] \in Job BY <3>2 DEF Job, Place
  <3>4. JobShape([job[j] EXCEPT !.place = "select", !.began = now, !.code = guess])
    BY <3>2, <3>3 DEF JobShape, Job, Sending
  <3> QED BY <1>0, <3>1, <3>4, BecomeType
 <2> QED BY <1>11, <2>1, TypedFromJobs DEF TypeOK, VerifyRequested, sendVars, rowVars, sendHistory, codeHistory
<1>12. ASSUME NEW j \in Jobs, SelectChallenge(j) PROVE TypeOK'
 <2>1. JobsOK'
  <3> DEFINE s == [NoRow EXCEPT !.row = challenge.row]
  <3> DEFINE r == [job[j] EXCEPT !.place = "wait", !.seen = s]
  <3>1. job[j] \in Job /\ challenge \in Challenge BY <1>0 DEF JobsOK, TypeOK
  <3>2. s \in Challenge /\ s.row = challenge.row BY <3>1 DEF Challenge, NoRow
  <3>3. r \in Job /\ r.place = "wait" /\ r.seen = s
   <4> HIDE DEF s
   <4> QED BY <3>1, <3>2 DEF Job, Place
  <3>4. CASE challenge.row = NoCode BY <1>0, <1>12, <3>4, IdleShape, BecomeType DEF SelectChallenge, Leave
  <3>5. CASE challenge.row # NoCode
   <4>1. JobShape(r)
    <5> HIDE DEF r, s
    <5> QED BY <3>2, <3>3, <3>5 DEF JobShape, Sending
   <4> QED BY <1>0, <1>12, <3>5, <4>1, BecomeType DEF SelectChallenge
  <3> QED BY <3>4, <3>5
 <2> QED BY <1>12, <2>1, TypedFromJobs DEF TypeOK, SelectChallenge, sendVars, rowVars, sendHistory, codeHistory
<1>13. ASSUME NEW j \in Jobs, LockRow(j) PROVE TypeOK'
 <2>1. JobsOK'
  <3> DEFINE r == [job[j] EXCEPT !.place = "decide", !.seen = challenge]
  <3>1. job[j] \in Job /\ challenge \in Challenge BY <1>0 DEF JobsOK, TypeOK
  <3>2. r \in Job /\ r.place = "decide" /\ r.seen = challenge BY <3>1 DEF Job, Place
  <3>3. CASE challenge.row = job[j].seen.row
   <4>1. challenge.code # NoCode BY <1>13, <3>3 DEF LockRow, At, TypeOK
   <4>2. JobShape(r)
    <5> HIDE DEF r
    <5> QED BY <3>2, <4>1 DEF JobShape, Sending
   <4> QED BY <1>0, <1>13, <3>3, <4>2, BecomeType DEF LockRow
  <3>4. CASE challenge.row # job[j].seen.row BY <1>0, <1>13, <3>4, IdleShape, BecomeType DEF LockRow, Leave
  <3> QED BY <3>3, <3>4
 <2> QED BY <1>13, <2>1, TypedFromJobs DEF TypeOK, LockRow, sendVars, sendHistory, codeHistory
<1>14. ASSUME NEW j \in Jobs, DropRefused(j) PROVE TypeOK'
 <2>1. JobsOK' BY <1>0, <1>14, IdleShape, BecomeType DEF DropRefused, EndVerify, Leave
 <2>2. job[j].seen.code \in Codes /\ fate \in [Codes -> Seq(Fate)]
   BY <1>14 DEF DropRefused, Deciding, At, TypeOK, Job, Challenge
 <2>3. fate' = [fate EXCEPT ![job[j].seen.code] = Append(@, "dropped")] /\ challenge' = NoRow
   BY <1>14 DEF DropRefused, CodeEnds
 <2>4. fate' \in [Codes -> Seq(Fate)] BY <2>2, <2>3, AppendFate DEF Fate
 <2>5. challenge' \in Challenge /\ (challenge.row = NoCode <=> challenge.code = NoCode)'
   BY <2>3, NoRowType DEF NoRow
 <2> QED BY <1>14, <2>1, <2>4, <2>5, TypedFromJobs DEF TypeOK, DropRefused, EndVerify, sendVars, sendHistory
<1>15. ASSUME NEW j \in Jobs, Accept(j) PROVE TypeOK'
 <2>1. JobsOK' BY <1>0, <1>15, IdleShape, BecomeType DEF Accept, EndVerify, Leave
 <2>2. job[j].seen.code \in Codes /\ fate \in [Codes -> Seq(Fate)]
   BY <1>15 DEF Accept, Deciding, At, TypeOK, Job, Challenge
 <2>3. PICK how \in {"verified", "dropped"} :
         fate' = [fate EXCEPT ![job[j].seen.code] = Append(@, how)] BY <1>15 DEF Accept, CodeEnds
 <2>4. fate' \in [Codes -> Seq(Fate)] BY <2>2, <2>3, AppendFate DEF Fate
 <2>5. challenge' \in Challenge /\ (challenge.row = NoCode <=> challenge.code = NoCode)'
   BY <1>15, NoRowType DEF Accept, NoRow
 <2>6. tried' \in [Codes -> Nat] /\ acceptedAt' \in [Codes -> Int]
  <3>1. tried \in [Codes -> Nat] /\ acceptedAt \in [Codes -> Int] /\ now \in Int BY DEF TypeOK
  <3>2. tried' = [tried EXCEPT ![job[j].seen.code] = @ + 1] BY <1>15 DEF Accept
  <3>3. \/ acceptedAt' = [acceptedAt EXCEPT ![job[j].seen.code] = now]
        \/ acceptedAt' = acceptedAt BY <1>15 DEF Accept
  <3>4. acceptedAt' \in [Codes -> Int] BY <2>2, <3>1, <3>3, StampType
  <3> QED BY <2>2, <3>1, <3>2, <3>4, CountType
 <2> QED BY <1>15, <2>1, <2>4, <2>5, <2>6, TypedFromJobs DEF TypeOK, Accept, EndVerify, sendVars, sendHistory
<1>16. ASSUME NEW j \in Jobs, Reject(j) PROVE TypeOK'
 <2>1. JobsOK' BY <1>0, <1>16, IdleShape, BecomeType DEF Reject, EndVerify, Leave
 <2>2. job[j].seen.code \in Codes /\ fate \in [Codes -> Seq(Fate)] /\ job[j].seen.attempts + 1 \in Nat
  <3>1. job[j] \in Job /\ fate \in [Codes -> Seq(Fate)] BY DEF TypeOK
  <3>2. job[j].seen.code # NoCode BY <1>16 DEF Reject, Deciding, At, TypeOK
  <3> QED BY <3>1, <3>2 DEF Job, Challenge
 <2>3. fate' \in [Codes -> Seq(Fate)]
  <3>1. CASE job[j].seen.attempts + 1 >= MaxAttempts
   <4>1. fate' = [fate EXCEPT ![job[j].seen.code] = Append(@, "dropped")]
     BY <1>16, <3>1 DEF Reject, CodeEnds
   <4> QED BY <2>2, <4>1, AppendFate DEF Fate
  <3>2. CASE ~(job[j].seen.attempts + 1 >= MaxAttempts) BY <1>16, <2>2, <3>2 DEF Reject
  <3> QED BY <3>1, <3>2
 <2>4. challenge' \in Challenge /\ (challenge.row = NoCode <=> challenge.code = NoCode)'
  <3>1. CASE job[j].seen.attempts + 1 >= MaxAttempts BY <1>16, <3>1, NoRowType DEF Reject, NoRow
  <3>2. CASE ~(job[j].seen.attempts + 1 >= MaxAttempts) BY <1>16, <2>2, <3>2 DEF Reject, TypeOK, Challenge
  <3> QED BY <3>1, <3>2
 <2>5. tried' \in [Codes -> Nat]
  <3>1. tried \in [Codes -> Nat] BY DEF TypeOK
  <3>2. tried' = [tried EXCEPT ![job[j].seen.code] = @ + 1] BY <1>16 DEF Reject
  <3> QED BY <2>2, <3>1, <3>2, CountType
 <2> QED BY <1>16, <2>1, <2>3, <2>4, <2>5, TypedFromJobs DEF TypeOK, Reject, EndVerify, sendVars, sendHistory
<1>17. ASSUME NEW j \in Jobs, Fails(j) PROVE TypeOK'
 <2>1. JobsOK' BY <1>0, <1>17, IdleShape, BecomeType DEF Fails, Leave
 <2> QED BY <1>17, <2>1, TypedFromJobs DEF TypeOK, Fails, sendHistory, codeHistory
<1>18. ASSUME Crash PROVE TypeOK'
 <2>1. JobsOK' BY <1>18, IdleShape DEF Crash, JobsOK, JobShape
 <2> QED BY <1>18, <2>1, TypedFromJobs DEF TypeOK, Crash, sendHistory, codeHistory
<1>19. ASSUME Tick PROVE TypeOK'
 <2>1. JobsOK' BY <1>0, <1>19 DEF Tick, JobsOK, JobShape
 <2>2. now' \in 0..MaxNow BY <1>19 DEF Tick, TypeOK
 <2> QED BY <1>19, <2>1, <2>2, TypedFromJobs DEF TypeOK, Tick, sendVars, rowVars, sendHistory, codeHistory
<1>20. ASSUME UNCHANGED vars PROVE TypeOK'
  BY <1>20 DEF TypeOK, vars, sendVars, rowVars, sendHistory, codeHistory
<1> QED BY <1>1, <1>2, <1>3, <1>4, <1>5, <1>6, <1>7, <1>8, <1>9, <1>10, <1>11, <1>12,
   <1>13, <1>14, <1>15, <1>16, <1>17, <1>18, <1>19, <1>20 DEF Next

LEMMA TypeInit == Init => TypeOK BY DEF Init, TypeOK, NoRow, Idle, Job, Challenge, Place, Sending

\* The types of otp.go's rows and handlers.
THEOREM TypeCorrect == Spec => []TypeOK BY TypeInit, TypeStep, PTL DEF Spec
-----------------------------------------------------------------------------
(* The inductive invariant.  The bucket lock makes the count of a          *)
(* reservation still true when it inserts, and the row lock makes a        *)
(* decision about the challenge the row holds.  So the row holds a code    *)
(* that has not ended, with the guesses that were compared to it; and the  *)
(* slots include every send of the last Window - MaxDelay, because a       *)
(* transaction that prunes them, or that stamped them, was delayed by      *)
(* MaxDelay at most.                                                       *)

\* An open transaction began at most MaxDelay ago.
Clock ==
  \A j \in Jobs : job[j].place \in InTransaction =>
    job[j].began <= now /\ now <= job[j].began + MaxDelay

\* A reservation holds the advisory lock, alone, and what it counted is so.
Reservations ==
  \A j \in Jobs :
    /\ job[j].place \in {"count", "reserve"} => bucketOwner = {j}
    /\ job[j].place = "reserve" /\ job[j].free => Cardinality(InWindow(j)) < SendLimit

\* The recent sends have their slots, and there are at most SendLimit slots.
RecentSlots ==
  /\ Cardinality(slots) <= SendLimit
  /\ \A c \in issued :
       /\ reservedAt[c] <= now
       /\ reservedAt[c] <= requestedAt[c] + MaxDelay
       /\ reservedAt[c] >= now - (Window - MaxDelay) => c \in slots

\* A decision is about the row as it is, and its lock is held, alone.
Decisions ==
  \A j \in Jobs : job[j].place = "decide" => rowOwner = {j} /\ job[j].seen = challenge

\* What is known of a code before it is issued, and of who has it after.
Issue ==
  /\ challenge.row # NoCode => challenge.code \in issued
  /\ delivered \subseteq issued
  /\ \A c \in Codes \ issued : fate[c] = << >> /\ tried[c] = 0
  /\ \A j \in Jobs : job[j].place \in Sending => job[j].code \in issued
  /\ \A i, j \in Jobs :
       i # j /\ job[i].place \in Sending /\ job[j].place \in Sending =>
         job[i].code # job[j].code

\* A code that is still to be stored is nowhere yet; one that is still to be
\* delivered, or revoked, was neither delivered nor revoked.
Senders ==
  \A j \in Jobs :
    /\ job[j].place \in {"create", "upsert"} =>
         /\ fate[job[j].code] = << >> /\ tried[job[j].code] = 0
         /\ job[j].code # challenge.code
    /\ job[j].place \in Sending =>
         job[j].code \notin delivered /\ fate[job[j].code] # <<"revoked">>

\* The code in the row has not ended, and the row counts its guesses.
Held ==
  challenge.row # NoCode =>
    /\ fate[challenge.code] = << >>
    /\ expiresAt[challenge.code] = challenge.expires
    /\ tried[challenge.code] = challenge.attempts
    /\ challenge.attempts < MaxAttempts

IInv ==
  /\ TypeOK /\ Clock /\ Reservations /\ RecentSlots /\ Decisions
  /\ Issue /\ Senders /\ Held
  /\ CodeEndsOnce /\ AttemptBudget /\ AcceptedInTime /\ DeliveredIsNotRevoked

-----------------------------------------------------------------------------
(* What the operations do to the jobs.                                     *)

Others(j) == \A i \in Jobs : i # j => job'[i] = job[i]

LEMMA Moved ==
  ASSUME TypeOK, NEW j \in Jobs, NEW r, Become(j, r)
  PROVE  job'[j] = r /\ Others(j) BY DEF TypeOK, Become, Others

LEMMA Left ==
  ASSUME TypeOK, NEW j \in Jobs, Leave(j)
  PROVE  job'[j].place = "idle" /\ Others(j) BY Moved DEF Leave, Idle

LEMMA Went ==
  ASSUME TypeOK, NEW j \in Jobs, NEW p, Goto(j, p)
  PROVE  /\ job'[j].place = p /\ job'[j].began = job[j].began
         /\ job'[j].code = job[j].code /\ Others(j)
<1>1. job[j] \in Job BY DEF TypeOK
<1>2. job'[j] = [job[j] EXCEPT !.place = p] /\ Others(j) BY Moved DEF Goto
<1> QED BY <1>1, <1>2 DEF Job

LEMMA Began ==
  ASSUME TypeOK, NEW j \in Jobs, NEW p, BeginAt(j, p)
  PROVE  /\ job'[j].place = p /\ job'[j].began = now
         /\ job'[j].code = job[j].code /\ Others(j)
<1>1. job[j] \in Job BY DEF TypeOK
<1>2. job'[j] = [job[j] EXCEPT !.place = p, !.began = now] /\ Others(j) BY Moved DEF BeginAt
<1> QED BY <1>1, <1>2 DEF Job

LEMMA Counted ==
  ASSUME TypeOK, NEW j \in Jobs, CountSlots(j)
  PROVE  /\ job'[j].place = "reserve" /\ job'[j].began = job[j].began
         /\ job'[j].code = job[j].code
         /\ job'[j].free = (Cardinality(InWindow(j)) < SendLimit) /\ Others(j)
<1>1. job[j] \in Job BY DEF TypeOK
<1>2. /\ job'[j] = [job[j] EXCEPT !.place = "reserve", !.free = Cardinality(InWindow(j)) < SendLimit]
      /\ Others(j) BY Moved DEF CountSlots
<1> QED BY <1>1, <1>2 DEF Job

\* The slot and the code a reservation ends with.
Reserved(j, c) ==
  /\ job'[j].place = "create" /\ job'[j].code = c /\ Others(j)
  /\ slots' = InWindow(j) \cup {c} /\ issued' = issued \cup {c}
  /\ requestedAt'[c] = job[j].began /\ reservedAt'[c] = now
  /\ \A d \in Codes : d # c => requestedAt'[d] = requestedAt[d] /\ reservedAt'[d] = reservedAt[d]

LEMMA SlotReserved ==
  ASSUME TypeOK, NEW j \in Jobs, ReserveSlot(j)
  PROVE  \E c \in Codes \ issued : Reserved(j, c)
<1>1. PICK c \in Codes \ issued :
        /\ slots' = InWindow(j) \cup {c} /\ issued' = issued \cup {c}
        /\ requestedAt' = [requestedAt EXCEPT ![c] = job[j].began]
        /\ reservedAt' = [reservedAt EXCEPT ![c] = now]
        /\ Become(j, [job[j] EXCEPT !.place = "create", !.code = c]) BY DEF ReserveSlot
<1>2. job[j] \in Job /\ requestedAt \in [Codes -> Int] /\ reservedAt \in [Codes -> Int] BY DEF TypeOK
<1>3. job'[j] = [job[j] EXCEPT !.place = "create", !.code = c] /\ Others(j) BY <1>1, Moved
<1>4. job'[j].place = "create" /\ job'[j].code = c BY <1>2, <1>3 DEF Job
<1>5. /\ requestedAt'[c] = job[j].began /\ reservedAt'[c] = now
      /\ \A d \in Codes : d # c => requestedAt'[d] = requestedAt[d] /\ reservedAt'[d] = reservedAt[d]
  BY <1>1, <1>2
<1> QED BY <1>1, <1>3, <1>4, <1>5 DEF Reserved

LEMMA Guessed ==
  ASSUME TypeOK, NEW j \in Jobs, VerifyRequested(j)
  PROVE  job'[j].place = "select" /\ job'[j].began = now /\ Others(j)
<1>1. PICK guess \in Codes \cup {NoCode} :
        Become(j, [job[j] EXCEPT !.place = "select", !.began = now, !.code = guess]) BY DEF VerifyRequested
<1>2. job[j] \in Job BY DEF TypeOK
<1>3. job'[j] = [job[j] EXCEPT !.place = "select", !.began = now, !.code = guess] /\ Others(j) BY <1>1, Moved
<1> QED BY <1>2, <1>3 DEF Job

LEMMA Selected ==
  ASSUME TypeOK, NEW j \in Jobs, SelectChallenge(j)
  PROVE  /\ job'[j].place \in {"idle", "wait"} /\ Others(j)
         /\ job'[j].place = "wait" => job'[j].began = job[j].began
<1>1. CASE challenge.row = NoCode BY <1>1, Left DEF SelectChallenge
<1>2. CASE challenge.row # NoCode
 <2>1. job[j] \in Job BY DEF TypeOK
 <2> DEFINE s == [NoRow EXCEPT !.row = challenge.row]
 <2>2. job'[j] = [job[j] EXCEPT !.place = "wait", !.seen = s] /\ Others(j) BY <1>2, Moved DEF SelectChallenge
 <2> HIDE DEF s
 <2> QED BY <2>1, <2>2 DEF Job
<1> QED BY <1>1, <1>2

LEMMA Locked ==
  ASSUME TypeOK, NEW j \in Jobs, LockRow(j)
  PROVE  /\ job'[j].place \in {"idle", "decide"} /\ Others(j)
         /\ job'[j].place = "decide" =>
              /\ job'[j].began = job[j].began /\ job'[j].seen = challenge
              /\ rowOwner' = {j}
         /\ job'[j].place = "idle" => rowOwner' = rowOwner
<1>1. CASE challenge.row = job[j].seen.row
 <2>1. job[j] \in Job BY DEF TypeOK
 <2>2. job'[j] = [job[j] EXCEPT !.place = "decide", !.seen = challenge] /\ Others(j)
   BY <1>1, Moved DEF LockRow
 <2> QED BY <1>1, <2>1, <2>2 DEF Job, LockRow
<1>2. CASE challenge.row # job[j].seen.row BY <1>2, Left DEF LockRow
<1> QED BY <1>1, <1>2

\* How the operations that end a transaction, or touch no code, end.
LEMMA Moves ==
  ASSUME TypeOK, NEW j \in Jobs
  PROVE  /\ SendRequested(j) => job'[j].place = "lock" /\ job'[j].began = now /\ Others(j)
         /\ LockBucket(j) => job'[j].place = "count" /\ job'[j].began = job[j].began /\ Others(j)
         /\ RefuseSend(j) => job'[j].place = "idle" /\ Others(j)
         /\ SendUpsert(j) => /\ job'[j].place = "upsert" /\ job'[j].began = now
                             /\ job'[j].code = job[j].code /\ Others(j)
         /\ Upsert(j) => /\ Others(j)
                         /\ \/ job'[j].place = "mail" /\ job'[j].code = job[j].code
                            \/ job'[j].place = "idle"
         /\ MailSent(j) => job'[j].place = "idle" /\ Others(j)
         /\ MailFails(j) => job'[j].place = "revoke" /\ job'[j].code = job[j].code /\ Others(j)
         /\ Revoke(j) => job'[j].place = "idle" /\ Others(j)
         /\ DropRefused(j) => job'[j].place = "idle" /\ Others(j)
         /\ Accept(j) => job'[j].place = "idle" /\ Others(j)
         /\ Reject(j) => job'[j].place = "idle" /\ Others(j)
         /\ Fails(j) => job'[j].place = "idle" /\ Others(j)
<1>1. SendRequested(j) => job'[j].place = "lock" /\ job'[j].began = now /\ Others(j)
  BY Began DEF SendRequested
<1>2. LockBucket(j) => job'[j].place = "count" /\ job'[j].began = job[j].began /\ Others(j)
  BY Went DEF LockBucket
<1>3. SendUpsert(j) => /\ job'[j].place = "upsert" /\ job'[j].began = now
                       /\ job'[j].code = job[j].code /\ Others(j) BY Began DEF SendUpsert
<1>4. Upsert(j) => /\ Others(j)
                   /\ \/ job'[j].place = "mail" /\ job'[j].code = job[j].code
                      \/ job'[j].place = "idle" BY Went, Left DEF Upsert
<1>5. MailFails(j) => job'[j].place = "revoke" /\ job'[j].code = job[j].code /\ Others(j)
  BY Went DEF MailFails
<1>6. RefuseSend(j) \/ MailSent(j) \/ Revoke(j) \/ Fails(j) => job'[j].place = "idle" /\ Others(j)
  BY Left DEF RefuseSend, MailSent, Revoke, Fails
<1>7. DropRefused(j) \/ Accept(j) \/ Reject(j) => job'[j].place = "idle" /\ Others(j)
  BY Left DEF DropRefused, Accept, Reject, EndVerify
<1> QED BY <1>1, <1>2, <1>3, <1>4, <1>5, <1>6, <1>7
-----------------------------------------------------------------------------
(* Every operation keeps the locks and the times.                          *)

LEMMA ClockStep == IInv /\ [Next]_vars => Clock'
<1> SUFFICES ASSUME TypeOK, Clock, [Next]_vars PROVE Clock' BY DEF IInv
<1>1. now \in Int /\ \A j \in Jobs : job[j].began \in Int BY DEF TypeOK, Job
<1>2. ASSUME NEW j \in Jobs, Others(j), now' = now,
             job'[j].place \in InTransaction =>
               \/ job'[j].began = now
               \/ job[j].place \in InTransaction /\ job'[j].began = job[j].began
      PROVE  Clock' BY <1>1, <1>2 DEF Clock, Others
<1>3. ASSUME NEW j \in Jobs, SendRequested(j) \/ SendUpsert(j) PROVE Clock'
  BY <1>2, <1>3, Moves DEF SendRequested, SendUpsert
<1>4. ASSUME NEW j \in Jobs, VerifyRequested(j) PROVE Clock' BY <1>2, <1>4, Guessed DEF VerifyRequested
<1>5. ASSUME NEW j \in Jobs, LockBucket(j) PROVE Clock' BY <1>2, <1>5, Moves DEF LockBucket, At, InTransaction
<1>6. ASSUME NEW j \in Jobs, CountSlots(j) PROVE Clock'
  BY <1>2, <1>6, Counted DEF CountSlots, At, InTransaction
<1>7. ASSUME NEW j \in Jobs, ReserveSlot(j) PROVE Clock'
  BY <1>2, <1>7, SlotReserved DEF ReserveSlot, Reserved, InTransaction
<1>8. ASSUME NEW j \in Jobs, SelectChallenge(j) PROVE Clock'
  BY <1>2, <1>8, Selected DEF SelectChallenge, At, InTransaction
<1>9. ASSUME NEW j \in Jobs, LockRow(j) PROVE Clock' BY <1>2, <1>9, Locked DEF LockRow, At, InTransaction
<1>10. ASSUME NEW j \in Jobs,
              RefuseSend(j) \/ Upsert(j) \/ MailSent(j) \/ MailFails(j) \/ Revoke(j) \/ Fails(j)
       PROVE  Clock'
 <2>1. now' = now BY <1>10 DEF RefuseSend, Upsert, MailSent, MailFails, Revoke, Fails
 <2>2. job'[j].place \in {"idle", "mail", "revoke"} /\ Others(j) BY <1>10, Moves
 <2> QED BY <1>2, <2>1, <2>2 DEF InTransaction
<1>11. ASSUME NEW j \in Jobs, DropRefused(j) \/ Accept(j) \/ Reject(j) PROVE Clock'
 <2>1. now' = now BY <1>11 DEF DropRefused, Accept, Reject, EndVerify
 <2>2. job'[j].place = "idle" /\ Others(j) BY <1>11, Moves
 <2> QED BY <1>2, <2>1, <2>2 DEF InTransaction
<1>12. ASSUME Crash PROVE Clock' BY <1>12 DEF Crash, Clock, Idle, InTransaction
<1>13. ASSUME Tick PROVE Clock' BY <1>1, <1>13 DEF Tick, Clock
<1>14. ASSUME UNCHANGED vars PROVE Clock' BY <1>14 DEF vars, Clock
<1> QED BY <1>3, <1>4, <1>5, <1>6, <1>7, <1>8, <1>9, <1>10, <1>11, <1>12, <1>13, <1>14 DEF Next

LEMMA SlotCount ==
  ASSUME TypeOK, NEW j \in Jobs
  PROVE  /\ IsFiniteSet(slots) /\ Cardinality(slots) \in Nat
         /\ IsFiniteSet(InWindow(j)) /\ Cardinality(InWindow(j)) <= Cardinality(slots)
         /\ Cardinality(InWindow(j)) \in Nat
<1>1. IsFiniteSet(slots) /\ InWindow(j) \subseteq slots BY FS_Subset DEF TypeOK, InWindow
<1> QED BY <1>1, FS_Subset, FS_CardinalityType

LEMMA ReservationsStep == IInv /\ [Next]_vars => Reservations'
<1> SUFFICES ASSUME TypeOK, Reservations, [Next]_vars PROVE Reservations' BY DEF IInv
<1> DEFINE Counting == {"count", "reserve"}
\* An operation of a job that counts nothing, or stops counting.
<1>1. ASSUME NEW j \in Jobs, Others(j), UNCHANGED <<slots, requestedAt>>,
             job'[j].place \notin Counting,
             UNCHANGED bucketOwner \/ bucketOwner' = bucketOwner \ {j}
      PROVE  Reservations'
 <2> SUFFICES ASSUME NEW i \in Jobs, i # j, job[i].place \in Counting
              PROVE  /\ bucketOwner' = {i}
                     /\ job[i].place = "reserve" /\ job[i].free =>
                          Cardinality(InWindow(i)') < SendLimit BY <1>1 DEF Reservations, Others
 <2>1. bucketOwner = {i} BY DEF Reservations
 <2>2. InWindow(i)' = InWindow(i) BY <1>1 DEF Others, InWindow
 <2> QED BY <1>1, <2>1, <2>2 DEF Reservations
\* The holder of the lock ends its reservation: nobody else counts.
<1>2. ASSUME NEW j \in Jobs, Others(j), job[j].place \in Counting, job'[j].place \notin Counting
      PROVE  Reservations' BY <1>2 DEF Reservations, Others
<1>3. ASSUME NEW j \in Jobs, LockBucket(j) PROVE Reservations'
 <2>1. job'[j].place = "count" /\ Others(j) BY <1>3, Moves
 <2> QED BY <1>3, <2>1 DEF LockBucket, Reservations, Others
<1>4. ASSUME NEW j \in Jobs, CountSlots(j) PROVE Reservations'
 <2>1. /\ job'[j].place = "reserve" /\ job'[j].began = job[j].began
       /\ job'[j].free = (Cardinality(InWindow(j)) < SendLimit) /\ Others(j) BY <1>4, Counted
 <2>2. InWindow(j)' = InWindow(j) /\ bucketOwner' = bucketOwner
   BY <1>4, <2>1 DEF CountSlots, InWindow, sendVars
 <2>3. bucketOwner = {j} BY <1>4 DEF CountSlots, At, Reservations
 <2>4. \A i \in Jobs : i # j => job[i].place \notin Counting BY <2>3 DEF Reservations
 <2> QED BY <2>1, <2>2, <2>3, <2>4 DEF Reservations, Others
<1>5. ASSUME NEW j \in Jobs, RefuseSend(j) PROVE Reservations' BY <1>2, <1>5, Moves DEF RefuseSend, At
<1>6. ASSUME NEW j \in Jobs, ReserveSlot(j) PROVE Reservations'
  BY <1>2, <1>6, SlotReserved DEF ReserveSlot, Reserved, At
<1>7. ASSUME NEW j \in Jobs, SendRequested(j) \/ SendUpsert(j) PROVE Reservations'
  BY <1>1, <1>7, Moves DEF SendRequested, SendUpsert, sendVars
<1>8. ASSUME NEW j \in Jobs, VerifyRequested(j) PROVE Reservations'
  BY <1>1, <1>8, Guessed DEF VerifyRequested, sendVars
<1>9. ASSUME NEW j \in Jobs, SelectChallenge(j) PROVE Reservations'
  BY <1>1, <1>9, Selected DEF SelectChallenge, sendVars
<1>10. ASSUME NEW j \in Jobs, LockRow(j) PROVE Reservations' BY <1>1, <1>10, Locked DEF LockRow, sendVars
<1>11. ASSUME NEW j \in Jobs,
              Upsert(j) \/ MailSent(j) \/ MailFails(j) \/ Revoke(j) \/ Fails(j)
       PROVE  Reservations'
 <2>1. /\ UNCHANGED <<slots, requestedAt>>
       /\ UNCHANGED bucketOwner \/ bucketOwner' = bucketOwner \ {j}
   BY <1>11 DEF Upsert, MailSent, MailFails, Revoke, Fails, sendVars
 <2>2. job'[j].place \in {"idle", "mail", "revoke"} /\ Others(j) BY <1>11, Moves
 <2> QED BY <1>1, <2>1, <2>2
<1>12. ASSUME NEW j \in Jobs, DropRefused(j) \/ Accept(j) \/ Reject(j) PROVE Reservations'
 <2>1. UNCHANGED sendVars BY <1>12 DEF DropRefused, Accept, Reject, EndVerify
 <2>2. job'[j].place = "idle" /\ Others(j) BY <1>12, Moves
 <2> QED BY <1>1, <2>1, <2>2 DEF sendVars
<1>13. ASSUME Crash PROVE Reservations' BY <1>13 DEF Crash, Reservations, Idle
<1>14. ASSUME Tick PROVE Reservations' BY <1>14 DEF Tick, Reservations, sendVars, InWindow
<1>15. ASSUME UNCHANGED vars PROVE Reservations' BY <1>15 DEF vars, Reservations, sendVars, InWindow
<1> QED BY <1>3, <1>4, <1>5, <1>6, <1>7, <1>8, <1>9, <1>10, <1>11, <1>12, <1>13, <1>14,
   <1>15 DEF Next

\* A reservation adds one slot to fewer than SendLimit; pruning drops only
\* slots too old to matter; and time only ages them.
LEMMA RecentSlotsStep == IInv /\ [Next]_vars => RecentSlots'
<1> SUFFICES ASSUME TypeOK, Clock, Reservations, RecentSlots, [Next]_vars PROVE RecentSlots' BY DEF IInv
<1>1. /\ now \in Int /\ issued \subseteq Codes /\ slots \subseteq Codes
      /\ requestedAt \in [Codes -> Int] /\ reservedAt \in [Codes -> Int]
      /\ \A j \in Jobs : job[j].began \in Int BY DEF TypeOK, Job
\* The slots a delayed transaction prunes are of no recent send.
<1>2. ASSUME NEW j \in Jobs, At(j, "reserve"), NEW c \in issued,
             reservedAt[c] >= now - (Window - MaxDelay)
      PROVE  c \in InWindow(j)
 <2>1. c \in slots /\ reservedAt[c] <= requestedAt[c] + MaxDelay BY <1>2 DEF RecentSlots
 <2>2. job[j].began <= now BY <1>2 DEF At, Clock, InTransaction
 <2>3. requestedAt[c] >= job[j].began - Window
  <3>1. requestedAt[c] \in Int /\ reservedAt[c] \in Int /\ job[j].began \in Int BY <1>1
  <3> QED BY <1>1, <1>2, <2>1, <2>2, <3>1
 <2> QED BY <2>1, <2>3 DEF InWindow
<1>3. ASSUME NEW j \in Jobs, RefuseSend(j) PROVE RecentSlots'
 <2>1. /\ slots' = InWindow(j) /\ issued' = issued /\ now' = now
       /\ reservedAt' = reservedAt /\ requestedAt' = requestedAt BY <1>3 DEF RefuseSend, sendHistory
 <2>2. Cardinality(slots') <= SendLimit BY <2>1, SlotCount DEF RecentSlots
 <2> QED BY <1>2, <1>3, <2>1, <2>2 DEF RecentSlots, RefuseSend
<1>4. ASSUME NEW j \in Jobs, ReserveSlot(j) PROVE RecentSlots'
 <2>1. PICK c \in Codes \ issued : Reserved(j, c) BY <1>4, SlotReserved
 <2>2. At(j, "reserve") /\ job[j].free /\ now' = now BY <1>4 DEF ReserveSlot
 <2>3. Cardinality(slots') <= SendLimit
  <3>1. Cardinality(InWindow(j)) < SendLimit BY <2>2 DEF Reservations, At
  <3>2. IsFiniteSet(InWindow(j)) /\ Cardinality(InWindow(j)) \in Nat BY SlotCount
  <3>3. \/ Cardinality(InWindow(j) \cup {c}) = Cardinality(InWindow(j))
        \/ Cardinality(InWindow(j) \cup {c}) = Cardinality(InWindow(j)) + 1 BY <3>2, FS_AddElement, Zenon
  <3> QED BY <2>1, <3>1, <3>2, <3>3 DEF Reserved
 <2>4. ASSUME NEW d \in issued'
       PROVE  /\ reservedAt'[d] <= now'
              /\ reservedAt'[d] <= requestedAt'[d] + MaxDelay
              /\ reservedAt'[d] >= now' - (Window - MaxDelay) => d \in slots'
  <3>1. CASE d = c
   <4>1. reservedAt'[d] = now /\ requestedAt'[d] = job[j].began /\ d \in slots' BY <2>1, <3>1 DEF Reserved
   <4>2. now <= job[j].began + MaxDelay BY <2>2 DEF At, Clock, InTransaction
   <4> QED BY <1>1, <2>2, <4>1, <4>2
  <3>2. CASE d # c
   <4>1. d \in issued /\ reservedAt'[d] = reservedAt[d] /\ requestedAt'[d] = requestedAt[d]
     BY <1>1, <2>1, <2>4, <3>2 DEF Reserved
   <4>2. InWindow(j) \subseteq slots' BY <2>1 DEF Reserved
   <4> QED BY <1>2, <2>2, <4>1, <4>2 DEF RecentSlots
  <3> QED BY <3>1, <3>2
 <2> QED BY <2>3, <2>4 DEF RecentSlots
<1>5. ASSUME Tick PROVE RecentSlots'
 <2>1. now' = now + 1 /\ UNCHANGED <<slots, requestedAt, issued, reservedAt>>
   BY <1>5 DEF Tick, sendVars, sendHistory
 <2>2. \A c \in issued : reservedAt[c] \in Int BY <1>1
 <2> QED BY <1>1, <2>1, <2>2 DEF RecentSlots
\* The other operations touch neither the slots nor the clock.
<1>6. ASSUME UNCHANGED <<now, slots, requestedAt, issued, reservedAt>> PROVE RecentSlots'
  BY <1>6 DEF RecentSlots
<1>7. ASSUME NEW j \in Jobs,
             \/ SendRequested(j) \/ LockBucket(j) \/ CountSlots(j) \/ SendUpsert(j)
             \/ Upsert(j) \/ MailSent(j) \/ MailFails(j) \/ Revoke(j)
      PROVE  RecentSlots'
  BY <1>6, <1>7 DEF SendRequested, LockBucket, CountSlots, SendUpsert, Upsert, MailSent,
     MailFails, Revoke, sendVars, sendHistory
<1>8. ASSUME NEW j \in Jobs,
             \/ VerifyRequested(j) \/ SelectChallenge(j) \/ LockRow(j)
             \/ DropRefused(j) \/ Accept(j) \/ Reject(j) \/ Fails(j)
      PROVE  RecentSlots'
  BY <1>6, <1>8 DEF VerifyRequested, SelectChallenge, LockRow, DropRefused, Accept, Reject,
     EndVerify, Fails, sendVars, sendHistory
<1>9. ASSUME Crash \/ UNCHANGED vars PROVE RecentSlots' BY <1>6, <1>9 DEF Crash, vars, sendVars, sendHistory
<1> QED BY <1>3, <1>4, <1>5, <1>7, <1>8, <1>9 DEF Next

LEMMA DecisionsStep == IInv /\ [Next]_vars => Decisions'
<1> SUFFICES ASSUME TypeOK, Decisions, [Next]_vars PROVE Decisions' BY DEF IInv
\* An operation of a job that decides nothing, or stops deciding.
<1>1. ASSUME NEW j \in Jobs, Others(j), UNCHANGED challenge, job'[j].place # "decide",
             UNCHANGED rowOwner \/ rowOwner' = rowOwner \ {j}
      PROVE  Decisions' BY <1>1 DEF Decisions, Others
\* The decider ends, or the row was free: nobody else decides.
<1>2. ASSUME NEW j \in Jobs, Others(j), job'[j].place # "decide",
             job[j].place = "decide" \/ rowOwner = {}
      PROVE  Decisions' BY <1>2 DEF Decisions, Others
<1>3. ASSUME NEW j \in Jobs, Upsert(j) PROVE Decisions' BY <1>2, <1>3, Moves DEF Upsert
<1>4. ASSUME NEW j \in Jobs, Revoke(j) PROVE Decisions'
 <2>1. CASE challenge.code = job[j].code BY <1>2, <1>4, <2>1, Moves DEF Revoke
 <2>2. CASE challenge.code # job[j].code BY <1>1, <1>4, <2>2, Moves DEF Revoke
 <2> QED BY <2>1, <2>2
<1>5. ASSUME NEW j \in Jobs, LockRow(j) PROVE Decisions'
 <2>1. rowOwner = {} /\ challenge' = challenge BY <1>5 DEF LockRow
 <2>2. /\ job'[j].place \in {"idle", "decide"} /\ Others(j)
       /\ job'[j].place = "decide" => job'[j].seen = challenge /\ rowOwner' = {j} BY <1>5, Locked
 <2>3. \A i \in Jobs : i # j => job'[i].place # "decide" BY <2>1, <2>2 DEF Decisions, Others
 <2> QED BY <2>1, <2>2, <2>3 DEF Decisions
<1>6. ASSUME NEW j \in Jobs, DropRefused(j) \/ Accept(j) \/ Reject(j) PROVE Decisions'
  BY <1>2, <1>6, Moves DEF DropRefused, Accept, Reject, Deciding, At
<1>7. ASSUME NEW j \in Jobs, Fails(j) PROVE Decisions' BY <1>1, <1>7, Moves DEF Fails
<1>8. ASSUME NEW j \in Jobs,
             \/ SendRequested(j) \/ LockBucket(j) \/ RefuseSend(j) \/ SendUpsert(j)
             \/ MailSent(j) \/ MailFails(j)
      PROVE  Decisions'
 <2>1. UNCHANGED rowVars BY <1>8 DEF SendRequested, LockBucket, RefuseSend, SendUpsert, MailSent, MailFails
 <2>2. job'[j].place # "decide" /\ Others(j) BY <1>8, Moves
 <2> QED BY <1>1, <2>1, <2>2 DEF rowVars
<1>9. ASSUME NEW j \in Jobs, CountSlots(j) PROVE Decisions' BY <1>1, <1>9, Counted DEF CountSlots, rowVars
<1>10. ASSUME NEW j \in Jobs, ReserveSlot(j) PROVE Decisions'
  BY <1>1, <1>10, SlotReserved DEF ReserveSlot, Reserved, rowVars
<1>11. ASSUME NEW j \in Jobs, VerifyRequested(j) PROVE Decisions'
  BY <1>1, <1>11, Guessed DEF VerifyRequested, rowVars
<1>12. ASSUME NEW j \in Jobs, SelectChallenge(j) PROVE Decisions'
  BY <1>1, <1>12, Selected DEF SelectChallenge, rowVars
<1>13. ASSUME Crash PROVE Decisions' BY <1>13 DEF Crash, Decisions, Idle
<1>14. ASSUME Tick \/ UNCHANGED vars PROVE Decisions' BY <1>14 DEF Tick, vars, Decisions, rowVars
<1> QED BY <1>3, <1>4, <1>5, <1>6, <1>7, <1>8, <1>9, <1>10, <1>11, <1>12, <1>13, <1>14 DEF Next

-----------------------------------------------------------------------------
(* What the operations do to the codes.                                    *)

\* At most c ends, is guessed at or is accepted.
OnlyOf(c) ==
  \A d \in Codes : d # c =>
    fate'[d] = fate[d] /\ tried'[d] = tried[d] /\ acceptedAt'[d] = acceptedAt[d]

LEMMA FatesDiffer ==
  ASSUME NEW a, NEW b, a # b
  PROVE  <<a>> # <<b>> /\ <<a>> # << >> /\ Len(<<a>>) = 1 /\ Len(<< >>) = 0
<1>1. <<a>>[1] = a /\ <<b>>[1] = b /\ Len(<<a>>) = 1 /\ Len(<< >>) = 0 OBVIOUS
<1> QED BY <1>1

LEMMA Ended ==
  ASSUME TypeOK, NEW c \in Codes, fate[c] = << >>, NEW how, CodeEnds(c, how)
  PROVE  fate'[c] = <<how>> /\ \A d \in Codes : d # c => fate'[d] = fate[d]
<1>1. fate'[c] = Append(fate[c], how) /\ \A d \in Codes : d # c => fate'[d] = fate[d] BY DEF CodeEnds, TypeOK
<1> QED BY <1>1, FirstFate

LEMMA HeldCode ==
  ASSUME IInv, challenge.row # NoCode
  PROVE  /\ challenge.code \in Codes /\ challenge.code \in issued
         /\ fate[challenge.code] = << >>
         /\ tried[challenge.code] = challenge.attempts
         /\ expiresAt[challenge.code] = challenge.expires
         /\ challenge.attempts \in Nat /\ challenge.attempts < MaxAttempts
BY DEF IInv, TypeOK, Issue, Held, Challenge

LEMMA Upserted ==
  ASSUME IInv, NEW j \in Jobs, Upsert(j)
  PROVE  LET c == job[j].code IN
         /\ c \in issued /\ c \in Codes /\ c # challenge.code
         /\ challenge'.row # NoCode /\ challenge'.code = c
         /\ challenge'.attempts = 0 /\ challenge'.expires = expiresAt'[c]
         /\ \A d \in Codes : d # c => expiresAt'[d] = expiresAt[d]
         /\ fate'[c] = << >> /\ tried'[c] = 0
         /\ OnlyOf(challenge.code)
         /\ \/ challenge.row = NoCode /\ fate' = fate
            \/ fate'[challenge.code] = <<"replaced">>
         /\ tried' = tried /\ acceptedAt' = acceptedAt
<1> DEFINE c == job[j].code
<1>1. At(j, "upsert") /\ tried' = tried /\ acceptedAt' = acceptedAt BY DEF Upsert
<1>2. c \in issued /\ c \in Codes /\ fate[c] = << >> /\ tried[c] = 0 /\ c # challenge.code
  BY <1>1 DEF IInv, TypeOK, Issue, Senders, At, Sending
<1>3. /\ challenge'.row # NoCode /\ challenge'.code = c
      /\ challenge'.attempts = 0 /\ challenge'.expires = job[j].began + TTL BY <1>2 DEF Upsert
<1>4. expiresAt'[c] = job[j].began + TTL /\ \A d \in Codes : d # c => expiresAt'[d] = expiresAt[d]
 <2>1. expiresAt' = [expiresAt EXCEPT ![c] = job[j].began + TTL] /\ expiresAt \in [Codes -> Int]
   BY DEF Upsert, IInv, TypeOK
 <2> QED BY <1>2, <2>1
<1>5. \/ challenge.row = NoCode /\ fate' = fate
      \/ /\ challenge.code \in Codes /\ fate'[challenge.code] = <<"replaced">>
         /\ \A d \in Codes : d # challenge.code => fate'[d] = fate[d]
 <2>1. CASE challenge.row = NoCode BY <2>1 DEF Upsert
 <2>2. CASE challenge.row # NoCode
  <3>1. CodeEnds(challenge.code, "replaced") BY <2>2 DEF Upsert
  <3> QED BY <2>2, <3>1, HeldCode, Ended DEF IInv
 <2> QED BY <2>1, <2>2
<1>6. fate'[c] = << >> /\ OnlyOf(challenge.code) BY <1>1, <1>2, <1>5 DEF OnlyOf
<1> QED BY <1>1, <1>2, <1>3, <1>4, <1>5, <1>6

LEMMA Revoked ==
  ASSUME IInv, NEW j \in Jobs, Revoke(j)
  PROVE  LET c == job[j].code IN
         /\ c \in Codes /\ c \in issued /\ c \notin delivered
         /\ UNCHANGED <<tried, acceptedAt, expiresAt, delivered>>
         /\ \/ UNCHANGED <<challenge, fate>>
            \/ /\ challenge.code = c /\ challenge' = NoRow
               /\ fate'[c] = <<"revoked">> /\ OnlyOf(c)
<1> DEFINE c == job[j].code
<1>1. At(j, "revoke") /\ UNCHANGED <<tried, acceptedAt, expiresAt, delivered>> BY DEF Revoke
<1>2. c \in Codes /\ c \in issued /\ c \notin delivered BY <1>1 DEF IInv, TypeOK, Issue, Senders, At, Sending
<1>3. CASE challenge.code = c
 <2>1. challenge.row # NoCode BY <1>2, <1>3 DEF IInv, TypeOK
 <2>2. challenge' = NoRow /\ CodeEnds(c, "revoked") BY <1>3 DEF Revoke
 <2>3. fate'[c] = <<"revoked">> /\ \A d \in Codes : d # c => fate'[d] = fate[d]
   BY <1>2, <1>3, <2>1, <2>2, HeldCode, Ended DEF IInv
 <2> QED BY <1>1, <1>2, <1>3, <2>2, <2>3 DEF OnlyOf
<1>4. CASE challenge.code # c BY <1>1, <1>2, <1>4 DEF Revoke
<1> QED BY <1>3, <1>4

\* What a verification decides of the code c it locked.
Decided(c) ==
  /\ UNCHANGED <<expiresAt, delivered>> /\ OnlyOf(c)
  /\ tried'[c] <= MaxAttempts
  /\ \/ challenge' = NoRow /\ fate'[c] = <<"dropped">>
     \/ /\ challenge' = NoRow /\ fate'[c] = <<"verified">>
        /\ acceptedAt'[c] < expiresAt[c] + MaxDelay
     \/ /\ challenge'.row = challenge.row /\ challenge'.code = c
        /\ challenge'.expires = challenge.expires
        /\ challenge'.attempts = tried'[c] /\ tried'[c] < MaxAttempts
        /\ fate'[c] = << >>

LEMMA DecidesHeld ==
  ASSUME IInv, NEW j \in Jobs, Deciding(j)
  PROVE  /\ job[j].seen = challenge /\ challenge.row # NoCode
         /\ job[j].began \in Int /\ now <= job[j].began + MaxDelay
<1>1. job[j].seen = challenge /\ job[j].seen.code # NoCode BY DEF Deciding, At, IInv, Decisions, TypeOK
<1>2. challenge.row # NoCode BY <1>1 DEF IInv, TypeOK
<1>3. job[j].began \in Int /\ now <= job[j].began + MaxDelay
  BY DEF Deciding, At, IInv, Clock, InTransaction, TypeOK, Job
<1> QED BY <1>1, <1>2, <1>3

LEMMA Verified ==
  ASSUME IInv, NEW j \in Jobs, DropRefused(j) \/ Accept(j) \/ Reject(j)
  PROVE  challenge.row # NoCode /\ Decided(challenge.code)
<1> DEFINE c == challenge.code
<1>1. /\ job[j].seen = challenge /\ challenge.row # NoCode
      /\ job[j].began \in Int /\ now <= job[j].began + MaxDelay BY DecidesHeld DEF DropRefused, Accept, Reject
<1>2. /\ c \in Codes /\ fate[c] = << >>
      /\ tried[c] = challenge.attempts /\ expiresAt[c] = challenge.expires
      /\ challenge.attempts \in Nat /\ challenge.attempts < MaxAttempts BY <1>1, HeldCode
<1>3. /\ tried \in [Codes -> Nat] /\ acceptedAt \in [Codes -> Int] /\ now \in Int
      /\ challenge \in Challenge /\ TypeOK BY DEF IInv, TypeOK
<1>4. UNCHANGED <<expiresAt, delivered>> BY DEF DropRefused, Accept, Reject, EndVerify
<1>5. CASE DropRefused(j)
 <2>1. challenge' = NoRow /\ UNCHANGED <<tried, acceptedAt>> /\ CodeEnds(c, "dropped")
   BY <1>1, <1>5 DEF DropRefused
 <2>2. fate'[c] = <<"dropped">> /\ \A d \in Codes : d # c => fate'[d] = fate[d] BY <1>2, <1>3, <2>1, Ended
 <2>3. OnlyOf(c) BY <2>1, <2>2 DEF OnlyOf
 <2> QED BY <1>1, <1>2, <1>4, <2>1, <2>2, <2>3 DEF Decided
<1>6. CASE Accept(j)
 <2>1. challenge' = NoRow /\ tried' = [tried EXCEPT ![c] = @ + 1] BY <1>1, <1>6 DEF Accept
 <2>2. \/ CodeEnds(c, "verified") /\ acceptedAt' = [acceptedAt EXCEPT ![c] = now]
       \/ CodeEnds(c, "dropped") /\ acceptedAt' = acceptedAt BY <1>1, <1>6 DEF Accept
 <2>3. tried'[c] <= MaxAttempts /\ \A d \in Codes : d # c => tried'[d] = tried[d] BY <1>2, <1>3, <2>1
 <2>4. now < expiresAt[c] + MaxDelay
  <3>1. ~(challenge.expires <= job[j].began) BY <1>1, <1>6 DEF Accept, Refused
  <3> QED BY <1>1, <1>2, <1>3, <3>1 DEF Challenge
 <2>5. CASE CodeEnds(c, "verified") /\ acceptedAt' = [acceptedAt EXCEPT ![c] = now]
  <3>1. fate'[c] = <<"verified">> /\ \A d \in Codes : d # c => fate'[d] = fate[d] BY <1>2, <1>3, <2>5, Ended
  <3>2. acceptedAt'[c] = now /\ \A d \in Codes : d # c => acceptedAt'[d] = acceptedAt[d] BY <1>2, <1>3, <2>5
  <3>3. OnlyOf(c) BY <2>3, <3>1, <3>2 DEF OnlyOf
  <3> QED BY <1>1, <1>4, <2>1, <2>3, <2>4, <3>1, <3>2, <3>3 DEF Decided
 <2>6. CASE CodeEnds(c, "dropped") /\ acceptedAt' = acceptedAt
  <3>1. fate'[c] = <<"dropped">> /\ \A d \in Codes : d # c => fate'[d] = fate[d] BY <1>2, <1>3, <2>6, Ended
  <3>2. OnlyOf(c) BY <2>3, <2>6, <3>1 DEF OnlyOf
  <3> QED BY <1>1, <1>4, <2>1, <2>3, <3>1, <3>2 DEF Decided
 <2> QED BY <2>2, <2>5, <2>6
<1>7. CASE Reject(j)
 <2>1. /\ tried' = [tried EXCEPT ![c] = @ + 1] /\ acceptedAt' = acceptedAt
       /\ IF challenge.attempts + 1 >= MaxAttempts
            THEN challenge' = NoRow /\ CodeEnds(c, "dropped")
            ELSE challenge' = [challenge EXCEPT !.attempts = challenge.attempts + 1] /\ fate' = fate
   BY <1>1, <1>7 DEF Reject
 <2>2. /\ tried'[c] = challenge.attempts + 1 /\ tried'[c] <= MaxAttempts
       /\ \A d \in Codes : d # c => tried'[d] = tried[d] BY <1>2, <1>3, <2>1
 <2>3. CASE challenge.attempts + 1 >= MaxAttempts
  <3>1. fate'[c] = <<"dropped">> /\ \A d \in Codes : d # c => fate'[d] = fate[d]
    BY <1>2, <1>3, <2>1, <2>3, Ended
  <3>2. OnlyOf(c) BY <2>1, <2>2, <3>1 DEF OnlyOf
  <3> QED BY <1>1, <1>4, <2>1, <2>2, <2>3, <3>1, <3>2 DEF Decided
 <2>4. CASE ~(challenge.attempts + 1 >= MaxAttempts)
  <3>1. challenge' = [challenge EXCEPT !.attempts = challenge.attempts + 1] /\ fate' = fate BY <2>1, <2>4
  <3>2. /\ challenge'.row = challenge.row /\ challenge'.code = c
        /\ challenge'.expires = challenge.expires /\ challenge'.attempts = challenge.attempts + 1
    BY <1>3, <3>1 DEF Challenge
  <3>3. OnlyOf(c) BY <2>1, <2>2, <3>1 DEF OnlyOf
  <3>4. tried'[c] < MaxAttempts BY <1>2, <2>2, <2>4
  <3> QED BY <1>1, <1>2, <1>4, <2>2, <3>1, <3>2, <3>3, <3>4 DEF Decided
 <2> QED BY <2>3, <2>4
<1> QED BY <1>5, <1>6, <1>7

-----------------------------------------------------------------------------
(* Every operation keeps what is known of the codes.                       *)

CodeVars == <<challenge, issued, fate, tried, acceptedAt, expiresAt, delivered>>

\* The operations that touch no code, and how they leave the senders.
Neutral(j) ==
  /\ UNCHANGED CodeVars /\ Others(j)
  /\ job'[j].place \in Sending =>
       /\ job[j].place \in Sending /\ job'[j].code = job[j].code
       /\ job'[j].place \in {"create", "upsert"} => job[j].place \in {"create", "upsert"}

LEMMA NeutralOperations ==
  ASSUME TypeOK, NEW j \in Jobs,
         \/ SendRequested(j) \/ LockBucket(j) \/ CountSlots(j) \/ RefuseSend(j)
         \/ SendUpsert(j) \/ MailFails(j) \/ VerifyRequested(j) \/ SelectChallenge(j)
         \/ LockRow(j) \/ Fails(j)
  PROVE  Neutral(j)
<1>1. CASE SendRequested(j) \/ LockBucket(j) \/ RefuseSend(j) \/ Fails(j)
 <2>1. job'[j].place \in {"idle", "lock", "count"} /\ Others(j) BY <1>1, Moves
 <2> QED BY <1>1, <2>1 DEF Neutral, CodeVars, SendRequested, LockBucket, RefuseSend, Fails,
            rowVars, sendHistory, codeHistory, Sending
<1>2. CASE CountSlots(j)
  BY <1>2, Counted DEF Neutral, CodeVars, CountSlots, rowVars, sendHistory, codeHistory, Sending
<1>3. CASE SendUpsert(j)
  BY <1>3, Moves DEF Neutral, CodeVars, SendUpsert, At, rowVars, sendHistory, codeHistory, Sending
<1>4. CASE MailFails(j)
  BY <1>4, Moves DEF Neutral, CodeVars, MailFails, At, rowVars, sendHistory, codeHistory, Sending
<1>5. CASE VerifyRequested(j)
  BY <1>5, Guessed DEF Neutral, CodeVars, VerifyRequested, rowVars, sendHistory, codeHistory, Sending
<1>6. CASE SelectChallenge(j)
  BY <1>6, Selected DEF Neutral, CodeVars, SelectChallenge, rowVars, sendHistory, codeHistory, Sending
<1>7. CASE LockRow(j) BY <1>7, Locked DEF Neutral, CodeVars, LockRow, sendHistory, codeHistory, Sending
<1> QED BY <1>1, <1>2, <1>3, <1>4, <1>5, <1>6, <1>7

LEMMA IssueStep == IInv /\ [Next]_vars => Issue'
<1> SUFFICES ASSUME IInv, [Next]_vars PROVE Issue' OBVIOUS
<1>0. TypeOK /\ Issue BY DEF IInv
<1>1. ASSUME NEW j \in Jobs, Neutral(j) PROVE Issue' BY <1>0, <1>1 DEF Issue, Neutral, CodeVars, Others
<1>2. ASSUME NEW j \in Jobs, ReserveSlot(j) PROVE Issue'
 <2>1. PICK c \in Codes \ issued : Reserved(j, c) BY <1>0, <1>2, SlotReserved
 <2>2. UNCHANGED <<challenge, fate, tried, delivered>> BY <1>2 DEF ReserveSlot, rowVars, codeHistory
 <2> QED BY <1>0, <2>1, <2>2 DEF Issue, Reserved, Others
<1>3. ASSUME NEW j \in Jobs, Upsert(j) PROVE Issue'
 <2>1. issued' = issued /\ delivered' = delivered /\ At(j, "upsert") BY <1>3 DEF Upsert, sendHistory
 <2>2. /\ Others(j)
       /\ \/ job'[j].place = "mail" /\ job'[j].code = job[j].code
          \/ job'[j].place = "idle" BY <1>0, <1>3, Moves
 <2>3. challenge'.code \in issued /\ tried' = tried /\ OnlyOf(challenge.code) BY <1>3, Upserted
 <2>4. challenge.code \notin Codes \ issued BY <1>0, HeldCode DEF TypeOK
 <2>5. \A d \in Codes \ issued : fate'[d] = fate[d] BY <2>3, <2>4 DEF OnlyOf
 <2> QED BY <1>0, <2>1, <2>2, <2>3, <2>5 DEF Issue, Others, Sending, At
<1>4. ASSUME NEW j \in Jobs, MailSent(j) PROVE Issue'
 <2>1. /\ UNCHANGED <<challenge, issued, fate, tried>> /\ At(j, "mail")
       /\ delivered' = delivered \cup {job[j].code} BY <1>4 DEF MailSent, rowVars, sendHistory, codeHistory
 <2>2. job'[j].place = "idle" /\ Others(j) BY <1>0, <1>4, Moves
 <2> QED BY <1>0, <2>1, <2>2 DEF Issue, Others, Sending, At
<1>5. ASSUME NEW j \in Jobs, Revoke(j) PROVE Issue'
 <2>1. issued' = issued BY <1>5 DEF Revoke, sendHistory
 <2>2. job'[j].place = "idle" /\ Others(j) BY <1>0, <1>5, Moves
 <2>3. /\ delivered' = delivered /\ tried' = tried
       /\ challenge' \in {challenge, NoRow}
       /\ \A d \in Codes \ issued : fate'[d] = fate[d] BY <1>5, Revoked DEF OnlyOf
 <2> QED BY <1>0, <2>1, <2>2, <2>3 DEF Issue, Others, Sending, NoRow
<1>6. ASSUME NEW j \in Jobs, DropRefused(j) \/ Accept(j) \/ Reject(j) PROVE Issue'
 <2>1. issued' = issued BY <1>6 DEF DropRefused, Accept, Reject, EndVerify, sendHistory
 <2>2. job'[j].place = "idle" /\ Others(j) BY <1>0, <1>6, Moves
 <2>3. challenge.code \in issued /\ Decided(challenge.code) BY <1>6, Verified, HeldCode
 <2>4. /\ delivered' = delivered /\ (challenge'.code = challenge.code \/ challenge' = NoRow)
       /\ \A d \in Codes \ issued : fate'[d] = fate[d] /\ tried'[d] = tried[d] BY <2>3 DEF Decided, OnlyOf
 <2> QED BY <1>0, <2>1, <2>2, <2>3, <2>4 DEF Issue, Others, Sending, NoRow
<1>7. ASSUME Crash PROVE Issue' BY <1>0, <1>7 DEF Crash, Issue, Idle, Sending, sendHistory, codeHistory
<1>8. ASSUME Tick \/ UNCHANGED vars PROVE Issue'
  BY <1>0, <1>8 DEF Tick, vars, Issue, rowVars, sendHistory, codeHistory
<1> QED BY <1>0, <1>1, <1>2, <1>3, <1>4, <1>5, <1>6, <1>7, <1>8, NeutralOperations DEF Next

LEMMA SendersStep == IInv /\ [Next]_vars => Senders'
<1> SUFFICES ASSUME IInv, [Next]_vars PROVE Senders' OBVIOUS
<1>0. TypeOK /\ Issue /\ Senders /\ NoCode \notin Codes BY DEF IInv
<1>1. \A j \in Jobs : job[j].place \in Sending => job[j].code \in Codes BY <1>0 DEF TypeOK, Issue
<1>2. ASSUME NEW j \in Jobs, Neutral(j) PROVE Senders'
  BY <1>0, <1>2 DEF Senders, Neutral, CodeVars, Others, Sending
<1>3. ASSUME NEW j \in Jobs, ReserveSlot(j) PROVE Senders'
 <2>1. PICK c \in Codes \ issued : Reserved(j, c) BY <1>0, <1>3, SlotReserved
 <2>2. UNCHANGED <<challenge, fate, tried, delivered>> BY <1>3 DEF ReserveSlot, rowVars, codeHistory
 <2>3. fate[c] = << >> /\ tried[c] = 0 /\ c # challenge.code /\ c \notin delivered
   BY <1>0, <2>1, HeldCode DEF Issue, TypeOK
 <2>4. fate[c] # <<"revoked">> BY <2>3, FatesDiffer
 <2> QED BY <1>0, <2>1, <2>2, <2>3, <2>4 DEF Senders, Reserved, Others
<1>4. ASSUME NEW j \in Jobs, Upsert(j) PROVE Senders'
 <2>1. delivered' = delivered /\ At(j, "upsert") BY <1>4 DEF Upsert
 <2>2. /\ Others(j)
       /\ \/ job'[j].place = "mail" /\ job'[j].code = job[j].code
          \/ job'[j].place = "idle" BY <1>0, <1>4, Moves
 <2>3. /\ challenge'.code = job[j].code /\ tried' = tried
       /\ OnlyOf(challenge.code)
       /\ \/ challenge.row = NoCode /\ fate' = fate
          \/ fate'[challenge.code] = <<"replaced">> BY <1>4, Upserted
 <2>4. <<"replaced">> # <<"revoked">> BY FatesDiffer
 <2>5. \A i \in Jobs : job[i].place \in Sending =>
         /\ job[i].code \notin delivered' /\ fate'[job[i].code] # <<"revoked">>
   BY <1>0, <1>1, <2>1, <2>3, <2>4 DEF Senders, OnlyOf
 <2>6. \A i \in Jobs : i # j /\ job[i].place \in {"create", "upsert"} =>
         /\ fate'[job[i].code] = << >> /\ tried'[job[i].code] = 0
         /\ job[i].code # challenge'.code BY <1>0, <1>1, <2>1, <2>3 DEF Senders, OnlyOf, Issue, At, Sending
 <2> QED BY <2>1, <2>2, <2>5, <2>6 DEF Senders, Others, Sending, At
<1>5. ASSUME NEW j \in Jobs, MailSent(j) PROVE Senders'
 <2>1. /\ UNCHANGED <<challenge, fate, tried>> /\ At(j, "mail")
       /\ delivered' = delivered \cup {job[j].code} BY <1>5 DEF MailSent, rowVars, codeHistory
 <2>2. job'[j].place = "idle" /\ Others(j) BY <1>0, <1>5, Moves
 <2> QED BY <1>0, <2>1, <2>2 DEF Senders, Issue, Others, Sending, At
\* The code c of the row, or of the sender j, ends; another sender's does not.
<1>6. ASSUME NEW j \in Jobs, Others(j), job'[j].place = "idle", NEW c \in Codes, OnlyOf(c),
             \A i \in Jobs : i # j /\ job[i].place \in {"create", "upsert"} => job[i].code # c,
             \A i \in Jobs : i # j /\ job[i].place \in Sending /\ job[i].code = c =>
               fate'[c] # <<"revoked">>,
             challenge'.code \in {challenge.code, NoCode}, delivered' = delivered
      PROVE  Senders' BY <1>0, <1>1, <1>6 DEF Senders, Others, OnlyOf, Sending
<1>7. ASSUME NEW j \in Jobs, Revoke(j) PROVE Senders'
 <2>1. job'[j].place = "idle" /\ Others(j) /\ At(j, "revoke") BY <1>0, <1>7, Moves DEF Revoke
 <2>2. \A i \in Jobs : i # j /\ job[i].place \in Sending => job[i].code # job[j].code
   BY <1>0, <2>1 DEF Issue, At, Sending
 <2>3. /\ OnlyOf(job[j].code) /\ challenge'.code \in {challenge.code, NoCode}
       /\ job[j].code \in Codes /\ delivered' = delivered BY <1>7, Revoked DEF OnlyOf, NoRow
 <2> QED BY <1>6, <2>1, <2>2, <2>3 DEF Sending
<1>8. ASSUME NEW j \in Jobs, DropRefused(j) \/ Accept(j) \/ Reject(j) PROVE Senders'
 <2>1. job'[j].place = "idle" /\ Others(j) BY <1>0, <1>8, Moves
 <2>2. challenge.code \in Codes /\ Decided(challenge.code) BY <1>8, Verified, HeldCode
 <2>3. fate'[challenge.code] # <<"revoked">>
  <3>1. <<"dropped">> # <<"revoked">> /\ <<"verified">> # <<"revoked">> /\ <<"revoked">> # << >>
    BY FatesDiffer
  <3> QED BY <2>2, <3>1 DEF Decided
 <2>4. \A i \in Jobs : job[i].place \in {"create", "upsert"} => job[i].code # challenge.code
   BY <1>0 DEF Senders
 <2>5. challenge'.code \in {challenge.code, NoCode} /\ delivered' = delivered /\ OnlyOf(challenge.code)
   BY <2>2 DEF Decided, NoRow
 <2> QED BY <1>6, <2>1, <2>2, <2>3, <2>4, <2>5
<1>9. ASSUME Crash PROVE Senders' BY <1>9 DEF Crash, Senders, Idle, Sending
<1>10. ASSUME Tick \/ UNCHANGED vars PROVE Senders'
  BY <1>0, <1>10 DEF Tick, vars, Senders, rowVars, codeHistory
<1> QED BY <1>0, <1>2, <1>3, <1>4, <1>5, <1>7, <1>8, <1>9, <1>10, NeutralOperations DEF Next

\* What the properties say of the codes.
CodeFacts == Held /\ CodeEndsOnce /\ AttemptBudget /\ AcceptedInTime /\ DeliveredIsNotRevoked

LEMMA CodeFactsStep == IInv /\ [Next]_vars => CodeFacts'
<1> SUFFICES ASSUME IInv, [Next]_vars PROVE CodeFacts' OBVIOUS
<1>0. TypeOK /\ CodeFacts /\ NoCode \notin Codes /\ delivered \subseteq Codes BY DEF IInv, CodeFacts, TypeOK
<1> DEFINE Facts(c) ==
             /\ Len(fate[c]) <= 1 /\ tried[c] <= MaxAttempts
             /\ fate[c] = <<"verified">> => acceptedAt[c] < expiresAt[c] + MaxDelay
             /\ c \in delivered => fate[c] # <<"revoked">>
<1>1. \A c \in Codes : Facts(c)
  BY <1>0 DEF CodeFacts, CodeEndsOnce, AttemptBudget, AcceptedInTime, DeliveredIsNotRevoked
<1>2. Held' /\ (\A c \in Codes : Facts(c)') /\ (delivered \subseteq Codes)' => CodeFacts'
  BY DEF CodeFacts, CodeEndsOnce, AttemptBudget, AcceptedInTime, DeliveredIsNotRevoked
<1>3. (delivered \subseteq Codes)' BY <1>0, TypeStep DEF TypeOK
<1>4. /\ \A a, b \in {"verified", "replaced", "revoked", "dropped"} : a # b => <<a>> # <<b>>
      /\ \A a \in {"verified", "replaced", "revoked", "dropped"} :
           <<a>> # << >> /\ Len(<<a>>) = 1 /\ Len(<< >>) = 0 BY FatesDiffer
<1>5. <<"verified">> # <<"revoked">> /\ <<"replaced">> # <<"revoked">> /\ <<"dropped">> # <<"revoked">>
  BY <1>4
<1>6. <<"replaced">> # <<"verified">> /\ <<"revoked">> # <<"verified">> /\ <<"dropped">> # <<"verified">>
  BY <1>4
<1>7. <<"verified">> # << >> /\ <<"revoked">> # << >> /\ Len(<< >>) = 0 BY <1>4
<1>8. Len(<<"verified">>) = 1 /\ Len(<<"replaced">>) = 1 /\ Len(<<"revoked">>) = 1 /\ Len(<<"dropped">>) = 1
  BY <1>4
\* Operations that touch no code, or only deliver one that was not revoked.
<1>9. ASSUME UNCHANGED CodeVars PROVE CodeFacts'
  BY <1>0, <1>9 DEF CodeFacts, CodeVars, Held, CodeEndsOnce, AttemptBudget, AcceptedInTime,
     DeliveredIsNotRevoked
<1>10. ASSUME NEW j \in Jobs, ReserveSlot(j) PROVE CodeFacts'
  BY <1>0, <1>10 DEF ReserveSlot, rowVars, codeHistory, CodeFacts, Held, CodeEndsOnce,
     AttemptBudget, AcceptedInTime, DeliveredIsNotRevoked
<1>11. ASSUME NEW j \in Jobs, MailSent(j) PROVE CodeFacts'
 <2>1. /\ UNCHANGED <<challenge, fate, tried, acceptedAt, expiresAt>>
       /\ At(j, "mail") /\ delivered' = delivered \cup {job[j].code}
   BY <1>11 DEF MailSent, rowVars, codeHistory
 <2>2. fate[job[j].code] # <<"revoked">> BY <2>1 DEF IInv, Senders, At, Sending
 <2> QED BY <1>0, <2>1, <2>2 DEF CodeFacts, Held, CodeEndsOnce,
            AttemptBudget, AcceptedInTime, DeliveredIsNotRevoked
<1>12. ASSUME NEW j \in Jobs, Upsert(j) PROVE CodeFacts'
 <2> DEFINE c == job[j].code
 <2>1. delivered' = delivered BY <1>12 DEF Upsert
 <2>2. /\ c \in Codes /\ c # challenge.code
       /\ challenge'.row # NoCode /\ challenge'.code = c
       /\ challenge'.attempts = 0 /\ challenge'.expires = expiresAt'[c]
       /\ \A d \in Codes : d # c => expiresAt'[d] = expiresAt[d]
       /\ fate'[c] = << >> /\ tried'[c] = 0
       /\ OnlyOf(challenge.code)
       /\ \/ challenge.row = NoCode /\ fate' = fate
          \/ fate'[challenge.code] = <<"replaced">>
       /\ tried' = tried /\ acceptedAt' = acceptedAt BY <1>12, Upserted
 <2>3. Held' BY <2>2 DEF Held
 <2>4. ASSUME NEW d \in Codes PROVE Facts(d)'
  <3>1. CASE d = c
   <4>1. fate'[d] = << >> /\ tried'[d] = 0 BY <2>2, <3>1
   <4>2. Len(fate'[d]) <= 1 /\ fate'[d] # <<"verified">> /\ fate'[d] # <<"revoked">> BY <1>7, <4>1
   <4> QED BY <4>1, <4>2
  <3>2. CASE d # c /\ fate'[d] = fate[d] BY <1>1, <2>1, <2>2, <3>2
  <3>3. CASE d # c /\ fate'[d] = <<"replaced">> BY <1>1, <1>5, <1>6, <1>8, <2>2, <3>3
  <3> QED BY <2>2, <3>1, <3>2, <3>3 DEF OnlyOf
 <2> QED BY <1>2, <1>3, <2>3, <2>4
<1>13. ASSUME NEW j \in Jobs, Revoke(j) PROVE CodeFacts'
 <2> DEFINE c == job[j].code
 <2>1. /\ c \in Codes /\ c \notin delivered
       /\ UNCHANGED <<tried, acceptedAt, expiresAt, delivered>>
       /\ \/ UNCHANGED <<challenge, fate>>
          \/ challenge' = NoRow /\ fate'[c] = <<"revoked">> /\ OnlyOf(c) BY <1>13, Revoked
 <2>2. CASE UNCHANGED <<challenge, fate>>
   BY <1>0, <2>1, <2>2 DEF CodeFacts, Held, CodeEndsOnce, AttemptBudget, AcceptedInTime,
      DeliveredIsNotRevoked
 <2>3. CASE challenge' = NoRow /\ fate'[c] = <<"revoked">> /\ OnlyOf(c)
  <3>1. Held' BY <2>3 DEF Held, NoRow
  <3>2. ASSUME NEW d \in Codes PROVE Facts(d)'
   <4>1. CASE d = c
    <5>1. fate'[d] = <<"revoked">> /\ tried'[d] = tried[d] /\ d \notin delivered' BY <2>1, <2>3, <4>1
    <5>2. Len(fate'[d]) <= 1 /\ fate'[d] # <<"verified">> BY <1>6, <1>8, <5>1
    <5>3. tried'[d] <= MaxAttempts BY <1>1, <5>1
    <5> QED BY <5>1, <5>2, <5>3
   <4>2. CASE d # c BY <1>1, <2>1, <2>3, <4>2 DEF OnlyOf
   <4> QED BY <4>1, <4>2
  <3> QED BY <1>2, <1>3, <3>1, <3>2
 <2> QED BY <2>1, <2>2, <2>3
<1>14. ASSUME NEW j \in Jobs, DropRefused(j) \/ Accept(j) \/ Reject(j) PROVE CodeFacts'
 <2> DEFINE c == challenge.code
 <2>1. challenge.row # NoCode /\ c \in Codes /\ expiresAt[c] = challenge.expires BY <1>14, Verified, HeldCode
 <2>2. /\ UNCHANGED <<expiresAt, delivered>> /\ OnlyOf(c)
       /\ tried'[c] <= MaxAttempts
       /\ \/ challenge' = NoRow /\ fate'[c] = <<"dropped">>
          \/ /\ challenge' = NoRow /\ fate'[c] = <<"verified">>
             /\ acceptedAt'[c] < expiresAt[c] + MaxDelay
          \/ /\ challenge'.row = challenge.row /\ challenge'.code = c
             /\ challenge'.expires = challenge.expires
             /\ challenge'.attempts = tried'[c] /\ tried'[c] < MaxAttempts
             /\ fate'[c] = << >> BY <1>14, Verified DEF Decided
 <2>3. Held' BY <2>1, <2>2 DEF Held, NoRow
 <2>4. ASSUME NEW d \in Codes PROVE Facts(d)'
  <3>1. CASE d # c BY <1>1, <2>2, <3>1 DEF OnlyOf
  <3>2. CASE d = c /\ fate'[c] = <<"dropped">> BY <1>5, <1>6, <1>8, <2>2, <3>2
  <3>3. CASE d = c /\ fate'[c] = <<"verified">>
   <4>1. acceptedAt'[c] < expiresAt[c] + MaxDelay BY <1>6, <1>7, <2>2, <3>3
   <4> QED BY <1>5, <1>8, <2>2, <3>3, <4>1
  <3>4. CASE d = c /\ fate'[c] = << >> BY <1>7, <2>2, <3>4
  <3> QED BY <2>2, <3>1, <3>2, <3>3, <3>4
 <2> QED BY <1>2, <1>3, <2>3, <2>4
<1>15. ASSUME Crash \/ Tick \/ UNCHANGED vars PROVE CodeFacts'
  BY <1>9, <1>15 DEF Crash, Tick, vars, CodeVars, rowVars, sendHistory, codeHistory
<1>16. ASSUME NEW j \in Jobs, Neutral(j) PROVE CodeFacts' BY <1>9, <1>16 DEF Neutral
<1> QED BY <1>0, <1>10, <1>11, <1>12, <1>13, <1>14, <1>15, <1>16, NeutralOperations DEF Next

LEMMA IInvInit == Init => IInv
<1> SUFFICES ASSUME Init PROVE IInv OBVIOUS
<1>1. TypeOK BY TypeInit
<1>2. Clock /\ Reservations /\ Decisions /\ Issue /\ Senders /\ Held
  BY DEF Init, Clock, Reservations, Decisions, Issue, Senders, Held, Idle, NoRow,
     InTransaction, Sending
<1>3. RecentSlots BY FS_EmptySet DEF Init, RecentSlots
<1>4. CodeEndsOnce /\ AttemptBudget /\ AcceptedInTime /\ DeliveredIsNotRevoked
 <2>1. Len(<< >>) = 0 /\ <<"verified">> # << >> BY FatesDiffer
 <2> QED BY <2>1 DEF Init, CodeEndsOnce, AttemptBudget, AcceptedInTime, DeliveredIsNotRevoked
<1> QED BY <1>1, <1>2, <1>3, <1>4 DEF IInv

LEMMA IInvStep == IInv /\ [Next]_vars => IInv'
BY TypeStep, ClockStep, ReservationsStep, RecentSlotsStep, DecisionsStep, IssueStep,
   SendersStep, CodeFactsStep DEF IInv, CodeFacts

\* Every reachable state of the OTP store and its handlers satisfies IInv.
THEOREM InductiveInvariant == Spec => []IInv BY IInvInit, IInvStep, PTL DEF Spec

\* verifyOTPWithTarget, CreateOTP and RevokeOTP end a code at most once.
THEOREM CodesEndOnce == Spec => []CodeEndsOnce
<1>1. IInv => CodeEndsOnce BY DEF IInv
<1> QED BY <1>1, InductiveInvariant, PTL

\* The row lock of verifyOTPWithTarget keeps concurrent guesses in the budget.
THEOREM GuessesInBudget == Spec => []AttemptBudget
<1>1. IInv => AttemptBudget BY DEF IInv
<1> QED BY <1>1, InductiveInvariant, PTL

\* The advisory lock of ReserveSend keeps concurrent sends within the limit.
THEOREM SendsLimited == Spec => []SendsInWindow
<1>1. IInv => SendsInWindow
 <2> SUFFICES ASSUME IInv PROVE SendsInWindow OBVIOUS
 <2> DEFINE recent == {c \in issued : reservedAt[c] >= now - (Window - MaxDelay)}
 <2>1. recent \subseteq slots /\ slots \subseteq Codes /\ Cardinality(slots) <= SendLimit
   BY DEF IInv, RecentSlots, TypeOK
 <2> HIDE DEF recent
 <2>2. IsFiniteSet(slots) BY <2>1, FS_Subset
 <2>3. /\ IsFiniteSet(recent) /\ Cardinality(recent) <= Cardinality(slots)
       /\ Cardinality(recent) \in Nat /\ Cardinality(slots) \in Nat
   BY <2>1, <2>2, FS_Subset, FS_CardinalityType
 <2>4. Cardinality(recent) <= SendLimit BY <2>1, <2>3
 <2> QED BY <2>4 DEF SendsInWindow, recent
<1> QED BY <1>1, InductiveInvariant, PTL

\* A code is accepted after its expiry only by what its transaction was delayed.
THEOREM AcceptedOnTime == Spec => []AcceptedInTime
<1>1. IInv => AcceptedInTime BY DEF IInv
<1> QED BY <1>1, InductiveInvariant, PTL

\* RevokeOTP of a failed send does not revoke a code that was delivered.
THEOREM DeliveredStays == Spec => []DeliveredIsNotRevoked
<1>1. IInv => DeliveredIsNotRevoked BY DEF IInv
<1> QED BY <1>1, InductiveInvariant, PTL
=============================================================================
