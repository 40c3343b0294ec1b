-------------------------- MODULE ValidatorProofs ---------------------------
(***************************************************************************)
(* The safety properties of Validator, for any set of intents and any      *)
(* faults.                                                                 *)
(***************************************************************************)
EXTENDS Validator, TLAPS

-----------------------------------------------------------------------------
(* The stream *)

(* A message with a new state *)
LEMMA MessageWithState ==
  ASSUME NEW r \in Message(Intent), NEW x \in MessageState
  PROVE  [r EXCEPT !.state = x] = [intent |-> r.intent, state |-> x]
<1>. DEFINE q == [r EXCEPT !.state = x]
<1>1. q \in Message(Intent) /\ q.state = x /\ q.intent = r.intent
  BY DEF Message
<1>. HIDE DEF q
<1>2. q = [intent |-> q.intent, state |-> q.state]
  BY <1>1 DEF Message
<1>. QED  BY <1>1, <1>2 DEF q

(* The stream with message m in state x *)
With(st, m, x) == [st EXCEPT ![m].state = x]

LEMMA WithFacts ==
  ASSUME NEW st \in Seq(Message(Intent)), NEW m \in DOMAIN st, NEW x \in MessageState
  PROVE  /\ With(st, m, x) \in Seq(Message(Intent))
         /\ Len(With(st, m, x)) = Len(st)
         /\ DOMAIN With(st, m, x) = DOMAIN st
         /\ \A n \in DOMAIN st : With(st, m, x)[n].intent = st[n].intent
         /\ \A n \in DOMAIN st \ {m} : With(st, m, x)[n].state = st[n].state
         /\ With(st, m, x)[m].state = x
<1>1. st[m] \in Message(Intent)
  OBVIOUS
<1>. DEFINE r == [intent |-> st[m].intent, state |-> x]
<1>2. With(st, m, x) = [st EXCEPT ![m] = r]
  BY <1>1, MessageWithState, Zenon DEF With
<1>3. r \in Message(Intent) /\ r.intent = st[m].intent /\ r.state = x
  BY <1>1 DEF Message
<1>. HIDE DEF r
<1>. QED  BY <1>2, <1>3

(* Messages keep their place and their intent; only those in A come to be  *)
(* acknowledged.                                                           *)
Keeps(st, st2, A) ==
  /\ st2 \in Seq(Message(Intent))
  /\ Len(st) <= Len(st2)
  /\ \A n \in DOMAIN st :
       /\ n \in DOMAIN st2
       /\ st2[n].intent = st[n].intent
       /\ st2[n].state = "acked" <=> st[n].state = "acked" \/ n \in A
  /\ \A n \in DOMAIN st2 \ DOMAIN st : st2[n].state = "ready"

LEMMA StreamKeeps ==
  ASSUME NEW st \in Seq(Message(Intent))
  PROVE  /\ Keeps(st, st, {})
         /\ \A i \in Intent : Keeps(st, Publish(st, i), {})
         /\ \A m \in DOMAIN st : /\ Keeps(st, Ack(st, m), {m})
                                 /\ Keeps(st, Redeliver(st, m), {})
                                 /\ st[m].state # "acked" => Keeps(st, Deliver(st, m), {})
<1>1. Keeps(st, st, {})
  BY DEF Keeps
<1>2. ASSUME NEW i \in Intent PROVE Keeps(st, Publish(st, i), {})
  <2>1. /\ Publish(st, i) \in Seq(Message(Intent))
        /\ Len(Publish(st, i)) = Len(st) + 1
        /\ DOMAIN Publish(st, i) = DOMAIN st \cup {Len(st) + 1}
        /\ \A m \in DOMAIN st : Publish(st, i)[m] = st[m]
        /\ Publish(st, i)[Len(st) + 1] = [intent |-> i, state |-> "ready"]
    BY DEF Publish, Message, MessageState
  <2>. QED  BY <2>1 DEF Keeps
<1>3. ASSUME NEW m \in DOMAIN st
      PROVE  /\ Keeps(st, Ack(st, m), {m})
             /\ Keeps(st, Redeliver(st, m), {})
             /\ st[m].state # "acked" => Keeps(st, Deliver(st, m), {})
  <2>1. st[m] \in Message(Intent)
    OBVIOUS
  <2>. DEFINE y == IF st[m].state = "out" THEN "ready" ELSE st[m].state
  <2>2. y \in MessageState /\ (y = "acked" <=> st[m].state = "acked")
    BY <2>1 DEF Message, MessageState
  <2>3. /\ Deliver(st, m) = With(st, m, "out")
        /\ Ack(st, m) = With(st, m, "acked")
        /\ Redeliver(st, m) = With(st, m, y)
    BY Zenon DEF Deliver, Ack, Redeliver, With
  <2>4. "out" \in MessageState /\ "acked" \in MessageState
    BY DEF MessageState
  <2>. HIDE DEF y
  <2>5. ASSUME NEW x \in MessageState
        PROVE  /\ With(st, m, x) \in Seq(Message(Intent))
               /\ Len(With(st, m, x)) = Len(st)
               /\ DOMAIN With(st, m, x) = DOMAIN st
               /\ \A n \in DOMAIN st : With(st, m, x)[n].intent = st[n].intent
               /\ \A n \in DOMAIN st \ {m} : With(st, m, x)[n].state = st[n].state
               /\ With(st, m, x)[m].state = x
    BY WithFacts
  <2>6. Keeps(st, With(st, m, "acked"), {m})
    BY <2>4, <2>5 DEF Keeps
  <2>7. Keeps(st, With(st, m, y), {})
    BY <2>2, <2>5 DEF Keeps
  <2>8. ASSUME st[m].state # "acked" PROVE Keeps(st, With(st, m, "out"), {})
    <3>1. /\ With(st, m, "out") \in Seq(Message(Intent))
          /\ Len(With(st, m, "out")) = Len(st)
          /\ DOMAIN With(st, m, "out") = DOMAIN st
          /\ \A n \in DOMAIN st : With(st, m, "out")[n].intent = st[n].intent
          /\ \A n \in DOMAIN st \ {m} : With(st, m, "out")[n].state = st[n].state
          /\ With(st, m, "out")[m].state = "out"
      BY <2>4, <2>5
    <3>. QED  BY <2>8, <3>1 DEF Keeps
  <2>. QED  BY <2>3, <2>6, <2>7, <2>8
<1>. QED  BY <1>1, <1>2, <1>3

-----------------------------------------------------------------------------
(* The file *)

IsSeq(s) == \E S : s \in Seq(S)

LEMMA AppendFacts ==
  ASSUME NEW s, IsSeq(s), NEW b
  PROVE  /\ IsSeq(Append(s, b)) /\ Len(s) \in Nat /\ DOMAIN s = 1 .. Len(s)
         /\ Len(Append(s, b)) = Len(s) + 1
         /\ DOMAIN Append(s, b) = DOMAIN s \cup {Len(s) + 1}
         /\ \A k \in DOMAIN s : Append(s, b)[k] = s[k]
         /\ Append(s, b)[Len(s) + 1] = b
<1>. PICK S : s \in Seq(S)
  BY DEF IsSeq
<1>1. s \in Seq(S \cup {b}) /\ b \in S \cup {b}
  OBVIOUS
<1>2. Append(s, b) \in Seq(S \cup {b})
  BY <1>1
<1>. QED  BY <1>1, <1>2 DEF IsSeq

LEMMA GlueFacts ==
  ASSUME NEW s, IsSeq(s), s # <<>>
  PROVE  LET t == [s EXCEPT ![Len(s)] = Garbage]
         IN /\ IsSeq(t) /\ Len(s) \in DOMAIN s /\ Len(t) = Len(s) /\ DOMAIN t = DOMAIN s
            /\ \A k \in DOMAIN s \ {Len(s)} : t[k] = s[k]
            /\ t[Len(s)] = Garbage
<1>. PICK S : s \in Seq(S)
  BY DEF IsSeq
<1>. DEFINE t == [s EXCEPT ![Len(s)] = Garbage]
<1>1. s \in Seq(S \cup {Garbage}) /\ Garbage \in S \cup {Garbage}
  OBVIOUS
<1>. HIDE DEF Garbage
<1>2. t \in Seq(S \cup {Garbage}) /\ Len(t) = Len(s) /\ DOMAIN t = DOMAIN s
  BY <1>1
<1>3. Len(s) \in DOMAIN s
  OBVIOUS
<1>. QED  BY <1>1, <1>2, <1>3 DEF IsSeq

(* A block that Append builds parses: its hash is not empty. *)
LEMMA NewBlockFacts ==
  ASSUME NEW s, NEW i, NEW st
  PROVE  /\ NewBlock(s, i, st).intent = i
         /\ NewBlock(s, i, st).status = st
         /\ NewBlock(s, i, st).index = Draft(s, i, st).index
         /\ NewBlock(s, i, st).prev = Draft(s, i, st).prev
         /\ NewBlock(s, i, st).hash = CalculateHash(NewBlock(s, i, st))
         /\ Parses(NewBlock(s, i, st))
<1>1. Draft(s, i, st).intent = i /\ Draft(s, i, st).status = st
  BY DEF Draft
<1>2. /\ NewBlock(s, i, st).intent = i
      /\ NewBlock(s, i, st).status = st
      /\ NewBlock(s, i, st).index = Draft(s, i, st).index
      /\ NewBlock(s, i, st).prev = Draft(s, i, st).prev
      /\ NewBlock(s, i, st).hash = CalculateHash(Draft(s, i, st))
  BY DEF NewBlock
<1>3. CalculateHash(NewBlock(s, i, st)) = CalculateHash(Draft(s, i, st))
  BY <1>1, <1>2 DEF CalculateHash
<1>4. CalculateHash(Draft(s, i, st)) # Genesis
  BY DEF CalculateHash, Genesis
<1>5. Garbage.hash = Genesis
  BY DEF Garbage
<1>. QED  BY <1>2, <1>3, <1>4, <1>5 DEF Parses

(* Append continues a file that verifies. *)
LEMMA VerifyAppend ==
  ASSUME NEW s, IsSeq(s), Verify(s), NEW i, NEW st
  PROVE  Verify(Append(s, NewBlock(s, i, st)))
<1>. DEFINE b == NewBlock(s, i, st)
            t == Append(s, b)
<1>1. /\ Len(s) \in Nat /\ DOMAIN s = 1 .. Len(s) /\ DOMAIN t = DOMAIN s \cup {Len(s) + 1}
      /\ \A k \in DOMAIN s : t[k] = s[k]
      /\ t[Len(s) + 1] = b
  BY AppendFacts
<1>2. Blocks(s) = DOMAIN s
  BY DEF Blocks, Verify
<1>3. /\ b.index = Draft(s, i, st).index /\ b.prev = Draft(s, i, st).prev
      /\ b.hash = CalculateHash(b) /\ Parses(b)
  BY NewBlockFacts
<1>. HIDE DEF b, t
<1>4. b.index = Len(s) /\ b.prev = IF Len(s) = 0 THEN Genesis ELSE s[Len(s)].hash
  <2>1. CASE Len(s) = 0
    BY <1>1, <1>2, <1>3, <2>1 DEF Draft
  <2>2. CASE Len(s) # 0
    <3>1. Len(s) \in Blocks(s) /\ \A j \in Blocks(s) : j <= Len(s)
      BY <1>1, <1>2, <2>2
    <3>2. \A k \in Blocks(s) : (\A j \in Blocks(s) : j <= k) => k = Len(s)
      BY <1>1, <1>2, <3>1
    <3>3. LastBlock(s) = Len(s)
      BY <3>1, <3>2 DEF LastBlock
    <3>4. s[Len(s)].index = Len(s) - 1
      BY <1>2, <3>1 DEF Verify
    <3>. QED  BY <1>1, <1>3, <2>2, <3>1, <3>3, <3>4 DEF Draft
  <2>. QED  BY <2>1, <2>2
<1>5. ASSUME NEW k \in DOMAIN t
      PROVE  /\ Parses(t[k])
             /\ t[k].index = k - 1
             /\ t[k].prev = IF k = 1 THEN Genesis ELSE t[k - 1].hash
             /\ t[k].hash = CalculateHash(t[k])
  <2>1. CASE k \in DOMAIN s
    <3>1. t[k] = s[k] /\ (k # 1 => t[k - 1] = s[k - 1])
      BY <1>1, <2>1
    <3>. QED  BY <2>1, <3>1 DEF Verify
  <2>2. CASE k = Len(s) + 1
    <3>1. t[k] = b /\ k - 1 = Len(s)
      BY <1>1, <2>2
    <3>a. k # 1 => Len(s) \in DOMAIN s
      BY <1>1, <2>2
    <3>b. k # 1 => t[Len(s)] = s[Len(s)]
      BY <1>1, <3>a
    <3>2. k # 1 => Len(s) # 0 /\ t[k - 1] = s[Len(s)]
      BY <1>1, <3>1, <3>a, <3>b
    <3>3. k = 1 => Len(s) = 0
      BY <1>1, <2>2
    <3>. QED  BY <1>3, <1>4, <3>1, <3>2, <3>3
  <2>. QED  BY <1>1, <2>1, <2>2
<1>. QED  BY <1>5 DEF Verify, b, t


(* What a write does to a file, whether its last line ends with a newline  *)
(* or not: a line that does not parse never goes away.                     *)
LEMMA WriteFacts ==
  ASSUME NEW s, IsSeq(s), NEW e \in BOOLEAN, ~e => s # <<>>, NEW b
  PROVE  /\ IsSeq(WriteLine(s, e, b)) /\ WriteLine(s, e, b) # <<>>
         /\ PageShown(WriteLine(s, e, b)) =>
              /\ e /\ PageShown(s) /\ Parses(b)
              /\ \A i : Recorded(s, i) => Recorded(WriteLine(s, e, b), i)
              /\ Recorded(WriteLine(s, e, b), b.intent)
<1>1. CASE e
  <2>. DEFINE t == Append(s, b)
  <2>1. t = WriteLine(s, e, b)
    BY <1>1 DEF WriteLine
  <2>2. /\ IsSeq(t) /\ Len(s) \in Nat /\ DOMAIN s = 1 .. Len(s) /\ Len(t) = Len(s) + 1
        /\ DOMAIN t = DOMAIN s \cup {Len(s) + 1}
        /\ \A k \in DOMAIN s : t[k] = s[k]
        /\ t[Len(s) + 1] = b
    BY AppendFacts
  <2>. HIDE DEF t
  <2>3. t # <<>>
    BY <2>2
  <2>4. PageShown(t) => PageShown(s) /\ Parses(b)
    BY <2>2 DEF PageShown
  <2>5. \A i : Recorded(s, i) => Recorded(t, i)
    BY <2>2 DEF Recorded, Blocks
  <2>6. Parses(b) => Recorded(t, b.intent)
    BY <2>2 DEF Recorded, Blocks
  <2>. QED  BY <1>1, <2>1, <2>2, <2>3, <2>4, <2>5, <2>6
<1>2. CASE ~e
  <2>. DEFINE t == [s EXCEPT ![Len(s)] = Garbage]
  <2>1. t = WriteLine(s, e, b)
    BY <1>2 DEF WriteLine
  <2>2. IsSeq(t) /\ Len(s) \in DOMAIN s /\ DOMAIN t = DOMAIN s /\ t[Len(s)] = Garbage
    BY <1>2, GlueFacts
  <2>. HIDE DEF t
  <2>3. t # <<>> /\ ~PageShown(t)
    BY <2>2 DEF PageShown, Parses
  <2>. QED  BY <2>1, <2>2, <2>3
<1>. QED  BY <1>1, <1>2

-----------------------------------------------------------------------------
(* Types, and the file without a cut *)

VTypeOK ==
  /\ status \in [Intent -> Final \cup {"none", "SCHEDULED"}]
  /\ due \in [Intent -> Nat]
  /\ executed \in Seq(Message(Intent))
  /\ vpc \in {"idle", "query", "write", "sync", "ack", "nak"}
  /\ vmsg \in 0 .. Len(executed)
  /\ vmsg = 0 <=> vpc = "idle"
  /\ eol \in BOOLEAN /\ cut \in BOOLEAN
  /\ IsSeq(lines)
  /\ ~eol => lines # <<>>

(* The message in hand is not acknowledged. *)
Held == vmsg # 0 => executed[vmsg].state # "acked"

(* A file without a cut write ends with a newline. *)
Whole == ~cut => eol /\ Verify(lines)

VInv == VTypeOK /\ Held /\ Whole

(* What a step does to the file *)
Writes(b) ==
  \/ UNCHANGED file
  \/ lines' = WriteLine(lines, eol, b) /\ eol' = TRUE /\ cut' = cut
  \/ lines' \in CutShort(lines, eol, b) /\ eol' = FALSE /\ cut' = TRUE

LEMMA FileStep ==
  ASSUME VNext
  PROVE  /\ UNCHANGED file \/ (vpc = "write" /\ Writes(Block))
         /\ WriteBlock /\ vpc' = "sync" => lines' = WriteLine(lines, eol, Block)
<1>1. CASE \E i \in Intent : (\E st \in Final : WriteResult(i, st)) \/ Announce(i) \/ Reschedule(i)
  BY <1>1 DEF WriteResult, Announce, Reschedule, file, handler, WriteBlock
<1>2. CASE StartupScan \/ Restart \/ ReceiveExecution \/ QueryStatus \/ SyncFile \/ AckExecution \/ NakExecution \/ ExecutionAckWait
  BY <1>2 DEF StartupScan, Restart, ReceiveExecution, QueryStatus, SyncFile, AckExecution, NakExecution,
     ExecutionAckWait, file, WriteBlock
<1>3. CASE WriteBlock \/ Crash
  BY <1>3 DEF WriteBlock, Crash, Writes, file
<1>. QED
  <2>1. UNCHANGED file \/ (vpc = "write" /\ Writes(Block))
    BY <1>1, <1>2, <1>3 DEF VNext, Run
  <2>2. WriteBlock /\ vpc' = "sync" => lines' = WriteLine(lines, eol, Block)
    BY DEF WriteBlock
  <2>. QED  BY <2>1, <2>2

LEMMA FileType ==
  ASSUME VInv, VNext
  PROVE  /\ IsSeq(lines') /\ eol' \in BOOLEAN /\ cut' \in BOOLEAN
         /\ ~eol' => lines' # <<>>
         /\ Whole'
<1>1. /\ IsSeq(lines) /\ eol \in BOOLEAN /\ cut \in BOOLEAN /\ (~eol => lines # <<>>) /\ Whole
  BY DEF VInv, VTypeOK
<1>2. CASE UNCHANGED file
  BY <1>1, <1>2 DEF file, Whole
<1>3. CASE lines' \in CutShort(lines, eol, Block) /\ eol' = FALSE /\ cut' = TRUE
  BY <1>1, <1>3, WriteFacts DEF CutShort, Whole
<1>4. CASE lines' = WriteLine(lines, eol, Block) /\ eol' = TRUE /\ cut' = cut
  <2>1. IsSeq(lines')
    BY <1>1, <1>4, WriteFacts
  <2>2. ~cut => Verify(lines')
    BY <1>1, <1>4, VerifyAppend DEF Whole, WriteLine, Block
  <2>. QED  BY <1>1, <1>4, <2>1, <2>2 DEF Whole
<1>. QED  BY <1>2, <1>3, <1>4, FileStep DEF Writes

(* What a step does to the stream: only the handler acknowledges, and only *)
(* the message it holds.                                                   *)
LEMMA StreamStep ==
  ASSUME VInv, VNext
  PROVE  Keeps(executed, executed', IF AckExecution THEN {vmsg} ELSE {})
<1>1. executed \in Seq(Message(Intent)) /\ vmsg \in 0 .. Len(executed) /\ (vpc # "idle" => vmsg \in DOMAIN executed)
  BY DEF VInv, VTypeOK
<1>2. AckExecution => Keeps(executed, executed', {vmsg})
  BY <1>1, StreamKeeps DEF AckExecution
<1>3. ASSUME ~AckExecution PROVE Keeps(executed, executed', {})
  <2>1. CASE executed' = executed
    BY <1>1, <2>1, StreamKeeps
  <2>2. CASE \E i \in Intent : Announce(i)
    BY <1>1, <2>2, StreamKeeps DEF Announce, PublishFails
  <2>3. CASE ReceiveExecution
    BY <1>1, <2>3, StreamKeeps DEF ReceiveExecution, Ready
  <2>4. CASE NakExecution \/ ExecutionAckWait
    BY <1>1, <2>4, StreamKeeps DEF NakExecution, ExecutionAckWait
  <2>5. CASE StartupScan \/ Restart \/ QueryStatus \/ WriteBlock \/ SyncFile \/ Crash
             \/ \E i \in Intent : (\E st \in Final : WriteResult(i, st)) \/ Reschedule(i)
    BY <2>1, <2>5 DEF StartupScan, Restart, QueryStatus, WriteBlock, SyncFile, Crash, WriteResult, Reschedule
  <2>. QED  BY <1>3, <2>2, <2>3, <2>4, <2>5 DEF VNext, Run
<1>. QED  BY <1>2, <1>3

(* What a step does to the handler *)
LEMMA HandlerStep ==
  ASSUME VInv, VNext
  PROVE  \/ UNCHANGED handler
         \/ ReceiveExecution
         \/ QueryStatus \/ WriteBlock \/ SyncFile
         \/ (AckExecution \/ NakExecution \/ Crash) /\ VDone
<1>1. \A i \in Intent : (\E st \in Final : WriteResult(i, st)) \/ Announce(i) \/ Reschedule(i) => UNCHANGED handler
  BY DEF WriteResult, Announce, Reschedule
<1>2. StartupScan \/ Restart \/ ExecutionAckWait => UNCHANGED handler
  BY DEF StartupScan, Restart, ExecutionAckWait
<1>3. AckExecution \/ NakExecution \/ Crash => VDone
  BY DEF AckExecution, NakExecution, Crash
<1>. QED  BY <1>1, <1>2, <1>3 DEF VNext, Run

LEMMA VInvStep == VInv /\ [VNext]_vars => VInv'
<1>1. ASSUME VInv, UNCHANGED vars PROVE VInv'
  BY <1>1 DEF VInv, VTypeOK, Held, Whole, vars, results, handler, file
<1>2. ASSUME VInv, VNext PROVE VInv'
  <2>. USE <1>2
  <2>1. /\ status \in [Intent -> Final \cup {"none", "SCHEDULED"}] /\ due \in [Intent -> Nat]
        /\ executed \in Seq(Message(Intent)) /\ vmsg \in 0 .. Len(executed) /\ (vmsg = 0 <=> vpc = "idle")
        /\ vpc \in {"idle", "query", "write", "sync", "ack", "nak"} /\ Held
    BY DEF VInv, VTypeOK
  <2>2. status' \in [Intent -> Final \cup {"none", "SCHEDULED"}] /\ due' \in [Intent -> Nat]
    <3>1. CASE \E i \in Intent : (\E st \in Final : WriteResult(i, st)) \/ Announce(i) \/ Reschedule(i)
      <4>1. ASSUME NEW i \in Intent, NEW st \in Final, WriteResult(i, st)
            PROVE  status' \in [Intent -> Final \cup {"none", "SCHEDULED"}] /\ due' \in [Intent -> Nat]
        BY <2>1, <4>1 DEF WriteResult
      <4>2. ASSUME NEW i \in Intent, Announce(i)
            PROVE  status' = status /\ due' \in [Intent -> Nat]
        BY <2>1, <4>2 DEF Announce
      <4>3. ASSUME NEW i \in Intent, Reschedule(i)
            PROVE  status' \in [Intent -> Final \cup {"none", "SCHEDULED"}] /\ due' = due
        BY <2>1, <4>3 DEF Reschedule
      <4>. QED  BY <2>1, <3>1, <4>1, <4>2, <4>3
    <3>2. CASE Run \/ Crash \/ ExecutionAckWait
      BY <2>1, <3>2 DEF Run, StartupScan, Restart, ReceiveExecution, QueryStatus, WriteBlock, SyncFile,
         AckExecution, NakExecution, Crash, ExecutionAckWait, results
    <3>. QED  BY <3>1, <3>2 DEF VNext
  <2>3. /\ executed' \in Seq(Message(Intent)) /\ Len(executed) <= Len(executed')
        /\ Len(executed) \in Nat /\ Len(executed') \in Nat
        /\ \A n \in DOMAIN executed : executed'[n].state = "acked" => executed[n].state = "acked" \/ (AckExecution /\ n = vmsg)
    BY <2>1, StreamStep DEF Keeps
  <2>4. /\ vpc' \in {"idle", "query", "write", "sync", "ack", "nak"}
        /\ vmsg' \in 0 .. Len(executed')
        /\ vmsg' = 0 <=> vpc' = "idle"
    <3>1. CASE UNCHANGED handler
      BY <2>1, <2>3, <3>1 DEF handler
    <3>2. CASE ReceiveExecution
      BY <2>1, <2>3, <3>2 DEF ReceiveExecution, Ready
    <3>3. CASE QueryStatus \/ WriteBlock \/ SyncFile
      BY <2>1, <2>3, <3>3 DEF QueryStatus, WriteBlock, SyncFile
    <3>4. CASE VDone
      BY <2>3, <3>4 DEF VDone
    <3>. QED  BY <3>1, <3>2, <3>3, <3>4, HandlerStep
  <2>5. Held'
    <3>1. CASE vmsg' = vmsg /\ ~AckExecution
      BY <2>1, <2>3, <3>1 DEF Held
    <3>2. CASE ReceiveExecution
      <4>1. PICK m \in DOMAIN executed : executed[m].state = "ready" /\ vmsg' = m
        BY <3>2 DEF ReceiveExecution, Ready
      <4>2. ~AckExecution
        BY <3>2 DEF ReceiveExecution, AckExecution
      <4>. QED  BY <2>3, <4>1, <4>2 DEF Held
    <3>3. CASE VDone
      BY <3>3 DEF VDone, Held
    <3>4. QueryStatus \/ WriteBlock \/ SyncFile \/ UNCHANGED handler => vmsg' = vmsg
      BY DEF QueryStatus, WriteBlock, SyncFile, handler
    <3>5. AckExecution => VDone
      BY DEF AckExecution
    <3>. QED  BY <3>1, <3>2, <3>3, <3>4, <3>5, HandlerStep
  <2>. QED  BY <2>2, <2>3, <2>4, <2>5, FileType DEF VInv, VTypeOK
<1>. QED  BY <1>1, <1>2

LEMMA VInvInit == VInit => VInv
<1>. SUFFICES ASSUME VInit PROVE VInv
  OBVIOUS
<1>1. IsSeq(<<>>)
  <2>1. <<>> \in Seq({})
    OBVIOUS
  <2>. QED  BY <2>1 DEF IsSeq
<1>a. IsSeq(lines) /\ eol \in BOOLEAN /\ cut \in BOOLEAN /\ (~eol => lines # <<>>)
  BY <1>1, Zenon DEF VInit
<1>b. /\ status \in [Intent -> Final \cup {"none", "SCHEDULED"}] /\ due \in [Intent -> Nat]
      /\ executed \in Seq(Message(Intent)) /\ vmsg \in 0 .. Len(executed)
      /\ vpc = "idle" /\ vmsg = 0
  BY DEF VInit
<1>2. VTypeOK /\ Held
  BY <1>a, <1>b DEF VTypeOK, Held
<1>3. Whole
  BY DEF VInit, Whole, Verify
<1>. QED  BY <1>2, <1>3 DEF VInv

LEMMA VInvariant == VSpec => []VInv
  BY VInvInit, VInvStep, PTL DEF VSpec

(* As long as no write was cut short, the file verifies at every moment,   *)
(* whatever is retried, redelivered or killed between two calls.           *)
THEOREM LedgerAlwaysVerifies == VSpec => []LedgerVerifies
<1>1. VInv => LedgerVerifies
  BY DEF VInv, Whole, LedgerVerifies
<1>. QED  BY <1>1, VInvariant, PTL


-----------------------------------------------------------------------------
(* The page is complete *)

AckedRecorded ==
  \A m \in DOMAIN executed : executed[m].state = "acked" => Recorded(lines, executed[m].intent)

WrittenRecorded == vpc \in {"sync", "ack"} => Recorded(lines, VIntent)

PageInv == VInv /\ (PageShown(lines) => AckedRecorded /\ WrittenRecorded)

(* A line that does not parse never goes away, a block that can be shown   *)
(* stays, and a write that succeeds adds one.                              *)
LEMMA PageStep ==
  ASSUME VInv, VNext, PageShown(lines')
  PROVE  /\ PageShown(lines)
         /\ \A i : Recorded(lines, i) => Recorded(lines', i)
         /\ WriteBlock /\ vpc' = "sync" => Recorded(lines', VIntent)
<1>1. IsSeq(lines) /\ eol \in BOOLEAN /\ (~eol => lines # <<>>)
  BY DEF VInv, VTypeOK
<1>2. ASSUME NEW b, lines' = WriteLine(lines, eol, b)
      PROVE  /\ PageShown(lines)
             /\ \A i : Recorded(lines, i) => Recorded(lines', i)
             /\ Recorded(lines', b.intent)
  BY <1>1, <1>2, WriteFacts
<1>3. lines' = lines \/ lines' = WriteLine(lines, eol, Block) \/ lines' = WriteLine(lines, eol, Garbage)
  BY FileStep, Zenon DEF Writes, CutShort, file
<1>5. PageShown(lines) /\ \A i : Recorded(lines, i) => Recorded(lines', i)
  BY <1>2, <1>3, Zenon
<1>6. Block.intent = VIntent
  BY NewBlockFacts DEF Block
<1>. QED  BY <1>2, <1>5, <1>6, FileStep

(* The message in hand keeps its intent. *)
LEMMA IntentKept ==
  ASSUME VInv, VNext, vmsg # 0, vmsg' = vmsg
  PROVE  VIntent' = VIntent /\ VIntent \in Intent /\ vmsg \in DOMAIN executed
<1>1. vmsg \in DOMAIN executed /\ executed[vmsg] \in Message(Intent)
  BY DEF VInv, VTypeOK
<1>. QED  BY <1>1, StreamStep DEF Keeps, VIntent, Message

LEMMA PageInvStep == PageInv /\ [VNext]_vars => PageInv'
<1>1. ASSUME PageInv, UNCHANGED vars PROVE PageInv'
  <2>1. VInv'
    BY <1>1, VInvStep DEF PageInv
  <2>. QED  BY <1>1, <2>1 DEF PageInv, vars, handler, file, AckedRecorded, WrittenRecorded, VIntent
<1>2. ASSUME PageInv, VNext PROVE PageInv'
  <2>1. VInv /\ VInv'
    BY <1>2, VInvStep DEF PageInv
  <2>. SUFFICES ASSUME PageShown(lines') PROVE AckedRecorded' /\ WrittenRecorded'
    BY <2>1 DEF PageInv
  <2>2. /\ AckedRecorded /\ WrittenRecorded
        /\ \A i : Recorded(lines, i) => Recorded(lines', i)
        /\ WriteBlock /\ vpc' = "sync" => Recorded(lines', VIntent)
    BY <1>2, <2>1, PageStep DEF PageInv
  <2>3. ASSUME NEW m \in DOMAIN executed', executed'[m].state = "acked"
        PROVE  Recorded(lines', executed'[m].intent)
    <3>1. Keeps(executed, executed', IF AckExecution THEN {vmsg} ELSE {})
      BY <1>2, <2>1, StreamStep
    <3>2. /\ m \in DOMAIN executed /\ executed'[m].intent = executed[m].intent
          /\ executed[m].state = "acked" \/ (AckExecution /\ m = vmsg)
      BY <2>3, <3>1 DEF Keeps
    <3>3. AckExecution => Recorded(lines, VIntent)
      BY <2>2 DEF AckExecution, WrittenRecorded
    <3>. QED  BY <2>2, <3>2, <3>3 DEF AckedRecorded, VIntent
  <2>4. ASSUME vpc' \in {"sync", "ack"} PROVE Recorded(lines', VIntent')
    <3>1. /\ vmsg' = vmsg /\ vpc # "idle"
          /\ \/ vpc \in {"sync", "ack"}
             \/ WriteBlock /\ vpc' = "sync"
      BY <1>2, <2>1, <2>4, HandlerStep DEF handler, ReceiveExecution, QueryStatus, WriteBlock, SyncFile, VDone
    <3>2. VIntent' = VIntent
      BY <1>2, <2>1, <3>1, IntentKept DEF VInv, VTypeOK
    <3>. QED  BY <2>2, <3>1, <3>2 DEF WrittenRecorded
  <2>. QED  BY <2>3, <2>4 DEF AckedRecorded, WrittenRecorded
<1>. QED  BY <1>1, <1>2

(* As long as every line of the file can be shown, it holds a block for    *)
(* every acknowledged result, even if writes were cut short.               *)
THEOREM PageComplete == VSpec => []PageIsComplete
<1>1. VInit => PageInv
  BY VInvInit DEF VInit, PageInv, AckedRecorded, WrittenRecorded
<1>2. PageInv => PageIsComplete
  BY DEF PageInv, AckedRecorded, PageIsComplete, AckedMeansRecorded, Stored, Pending
<1>. QED  BY <1>1, <1>2, PageInvStep, PTL DEF VSpec

-----------------------------------------------------------------------------
(* The ledger agrees with the table *)

(* The last block of intent i in file s has status st. *)
LastOf(s, i, st) ==
  \E k \in Blocks(s) :
    /\ s[k].intent = i /\ s[k].status = st
    /\ \A j \in Blocks(s) : s[j].intent = i => j <= k

(* A message of intent i, other than the one in hand, waits for an answer. *)
OtherPending(i) ==
  \E m \in DOMAIN executed : m # vmsg /\ executed[m].intent = i /\ executed[m].state # "acked"

(* The table is right about intent i: a result is still to be announced,   *)
(* to be delivered or to be read, or the handler is about to write it, or  *)
(* it is the last one written and nothing older is on its way.             *)
UpToDate(i) ==
  \/ due[i] > 0
  \/ OtherPending(i)
  \/ vpc \in {"query", "nak"} /\ VIntent = i
  \/ vpc = "write" /\ VIntent = i /\ dbStatus = status[i]
  \/ LastOf(lines, i, status[i]) /\ ~(vpc = "write" /\ VIntent = i /\ dbStatus # status[i])

Agrees == ~cut => \A i \in Intent : status[i] \in Final /\ i \notin silent => UpToDate(i)

AgreeInv == VInv /\ Agrees


(* A message still waits after a step that does not take it in hand. *)
LEMMA OtherKept ==
  ASSUME VInv, VNext, NEW i, OtherPending(i), vmsg' \in {vmsg, 0}
  PROVE  OtherPending(i)'
<1>1. PICK m \in DOMAIN executed : m # vmsg /\ executed[m].intent = i /\ executed[m].state # "acked"
  BY DEF OtherPending
<1>2. m # 0
  BY DEF VInv, VTypeOK
<1>3. m \in DOMAIN executed' /\ executed'[m].intent = i /\ executed'[m].state # "acked"
  BY <1>1, StreamStep DEF Keeps
<1>. QED  BY <1>1, <1>2, <1>3 DEF OtherPending

(* A message that is put back waits again. *)
LEMMA PutBack ==
  ASSUME VInv, VNext, NEW i, vmsg # 0, VIntent = i, vmsg' = 0, ~AckExecution
  PROVE  OtherPending(i)'
<1>1. vmsg \in DOMAIN executed /\ executed[vmsg].state # "acked"
  BY DEF VInv, VTypeOK, Held
<1>2. vmsg \in DOMAIN executed' /\ executed'[vmsg].intent = i /\ executed'[vmsg].state # "acked"
  BY <1>1, StreamStep DEF Keeps, VIntent
<1>. QED  BY <1>2 DEF OtherPending

(* A new block is the last one of its intent, and leaves the last ones of  *)
(* the others.                                                             *)
LEMMA LastOfAppend ==
  ASSUME NEW s, IsSeq(s), NEW b, Parses(b), NEW i
  PROVE  /\ b.intent = i => LastOf(Append(s, b), i, b.status)
         /\ \A st : b.intent # i /\ LastOf(s, i, st) => LastOf(Append(s, b), i, st)
<1>. DEFINE t == Append(s, b)
            n == Len(s) + 1
<1>1. /\ Len(s) \in Nat /\ DOMAIN s = 1 .. Len(s)
      /\ DOMAIN t = DOMAIN s \cup {n}
      /\ \A k \in DOMAIN s : t[k] = s[k]
      /\ t[n] = b
  BY AppendFacts
<1>2. n \in Nat /\ \A k \in DOMAIN s : k \in Nat /\ k < n
  BY <1>1
<1>. HIDE DEF t, n
<1>3. n \in Blocks(t) /\ \A k \in Blocks(s) : k \in Blocks(t) /\ k \in DOMAIN s
  BY <1>1 DEF Blocks
<1>4. \A k \in Blocks(t) : k \in Blocks(s) \/ k = n
  BY <1>1 DEF Blocks
<1>5. ASSUME b.intent = i PROVE LastOf(t, i, b.status)
  <2>1. \A j \in Blocks(t) : j <= n
    BY <1>2, <1>3, <1>4
  <2>. QED  BY <1>1, <1>3, <1>5, <2>1 DEF LastOf
<1>6. ASSUME NEW st, b.intent # i, LastOf(s, i, st) PROVE LastOf(t, i, st)
  <2>1. PICK k \in Blocks(s) : /\ s[k].intent = i /\ s[k].status = st
                               /\ \A j \in Blocks(s) : s[j].intent = i => j <= k
    BY <1>6 DEF LastOf
  <2>2. k \in Blocks(t) /\ t[k].intent = i /\ t[k].status = st
    BY <1>1, <1>3, <2>1
  <2>3. ASSUME NEW j \in Blocks(t), t[j].intent = i PROVE j <= k
    <3>1. j \in Blocks(s)
      BY <1>1, <1>4, <1>6, <2>3
    <3>. QED  BY <1>1, <1>3, <2>1, <2>3, <3>1
  <2>. QED  BY <2>2, <2>3 DEF LastOf
<1>. QED  BY <1>5, <1>6 DEF t


(* A step that touches neither result nor handler nor file of an intent    *)
(* leaves it up to date.                                                   *)
LEMMA UpToDateKept ==
  ASSUME VInv, VNext, NEW i \in Intent, UpToDate(i), UNCHANGED handler,
         status'[i] = status[i], due'[i] = due[i], lines' = lines
  PROVE  UpToDate(i)'
<1>1. vmsg' = vmsg /\ vpc' = vpc /\ dbStatus' = dbStatus
  BY DEF handler
<1>2. vpc # "idle" => VIntent' = VIntent
  BY <1>1, IntentKept DEF VInv, VTypeOK
<1>3. OtherPending(i) => OtherPending(i)'
  BY <1>1, OtherKept
<1>. HIDE DEF OtherPending
<1>. QED  BY <1>1, <1>2, <1>3 DEF UpToDate

LEMMA UpToDateStep ==
  ASSUME AgreeInv, VNext, ~cut', NEW i \in Intent, status'[i] \in Final, i \notin silent'
  PROVE  UpToDate(i)'
<1>1. VInv /\ Agrees /\ VInv'
  BY VInvStep DEF AgreeInv
<1>2. /\ status \in [Intent -> Final \cup {"none", "SCHEDULED"}] /\ due \in [Intent -> Nat]
      /\ executed \in Seq(Message(Intent)) /\ vmsg \in 0 .. Len(executed) /\ (vmsg = 0 <=> vpc = "idle")
      /\ IsSeq(lines) /\ (~cut => eol)
  BY <1>1 DEF VInv, VTypeOK, Whole
<1>3. ~cut
  BY FileStep DEF Writes, file
<1>4. ASSUME status[i] \in Final, i \notin silent PROVE UpToDate(i)
  BY <1>1, <1>3, <1>4 DEF Agrees
<1>5. ASSUME NEW j \in Intent, NEW st \in Final, WriteResult(j, st) PROVE UpToDate(i)'
  <2>1. CASE j = i
    BY <1>2, <1>5, <2>1 DEF WriteResult, UpToDate
  <2>2. CASE j # i
    <3>1. status'[i] = status[i] /\ due'[i] = due[i] /\ lines' = lines /\ UNCHANGED handler /\ silent' = silent
      BY <1>2, <1>5, <2>2 DEF WriteResult, file
    <3>. QED  BY <1>1, <1>4, <3>1, UpToDateKept
  <2>. QED  BY <2>1, <2>2
<1>6. ASSUME NEW j \in Intent, Announce(j) PROVE UpToDate(i)'
  <2>0. status' = status /\ lines' = lines /\ UNCHANGED handler /\ i \notin silent
    BY <1>6 DEF Announce, file
  <2>1. CASE j = i
    <3>1. executed' = Publish(executed, i)
      BY <1>6, <2>1 DEF Announce
    <3>2. /\ Len(executed) + 1 \in DOMAIN executed'
          /\ executed'[Len(executed) + 1] = [intent |-> i, state |-> "ready"]
      BY <1>2, <3>1 DEF Publish
    <3>3. Len(executed) + 1 # vmsg'
      BY <1>2, <2>0 DEF handler
    <3>. QED  BY <3>2, <3>3 DEF UpToDate, OtherPending
  <2>2. CASE j # i
    <3>1. due'[i] = due[i]
      BY <1>2, <1>6, <2>2 DEF Announce
    <3>. QED  BY <1>1, <1>4, <2>0, <3>1, UpToDateKept
  <2>. QED  BY <2>1, <2>2
<1>7. ASSUME NEW j \in Intent, Reschedule(j) PROVE UpToDate(i)'
  <2>1. j # i
    BY <1>2, <1>7 DEF Reschedule, Final
  <2>2. status'[i] = status[i] /\ due'[i] = due[i] /\ lines' = lines /\ UNCHANGED handler /\ silent' = silent
    BY <1>2, <1>7, <2>1 DEF Reschedule, file
  <2>. QED  BY <1>1, <1>4, <2>2, UpToDateKept
<1>8. CASE StartupScan \/ Restart \/ ExecutionAckWait
  <2>1. status'[i] = status[i] /\ due'[i] = due[i] /\ lines' = lines /\ UNCHANGED handler /\ silent' = silent
    BY <1>8 DEF StartupScan, Restart, ExecutionAckWait, results, file
  <2>. QED  BY <1>1, <1>4, <2>1, UpToDateKept
<1>9. ASSUME UNCHANGED results PROVE status' = status /\ due' = due /\ UpToDate(i)
  BY <1>4, <1>9 DEF results
<1>10. CASE ReceiveExecution
  <2>0. UNCHANGED results /\ lines' = lines /\ vpc = "idle" /\ vpc' = "query"
    BY <1>10 DEF ReceiveExecution, file
  <2>1. status' = status /\ due' = due /\ UpToDate(i)
    BY <1>9, <2>0
  <2>2. CASE OtherPending(i)
    <3>1. PICK m \in DOMAIN executed : executed[m].intent = i /\ executed[m].state # "acked"
      BY <2>2 DEF OtherPending
    <3>2. m \in DOMAIN executed' /\ executed'[m].intent = i /\ executed'[m].state # "acked"
      <4>1. ~AckExecution
        BY <2>0 DEF AckExecution
      <4>. QED  BY <1>1, <3>1, <4>1, StreamStep DEF Keeps
    <3>. QED  BY <2>0, <3>2 DEF UpToDate, OtherPending, VIntent
  <2>3. CASE ~OtherPending(i)
    <3>1. due[i] > 0 \/ LastOf(lines, i, status[i])
      BY <2>0, <2>1, <2>3 DEF UpToDate
    <3>. QED  BY <2>0, <2>1, <3>1 DEF UpToDate
  <2>. QED  BY <2>2, <2>3
<1>11. CASE QueryStatus \/ WriteBlock \/ SyncFile
  <2>0. UNCHANGED results /\ vmsg' = vmsg /\ vpc # "idle"
    BY <1>11 DEF QueryStatus, WriteBlock, SyncFile
  <2>1. status' = status /\ due' = due /\ UpToDate(i)
    BY <1>9, <2>0
  <2>2. VIntent' = VIntent
    BY <1>1, <1>2, <2>0, IntentKept
  <2>3. OtherPending(i) => OtherPending(i)'
    BY <1>1, <2>0, OtherKept
  <2>. HIDE DEF OtherPending
  <2>4. CASE QueryStatus
    <3>1. /\ vpc = "query" /\ lines' = lines
          /\ vpc' = "nak" \/ (vpc' = "write" /\ dbStatus' = status[VIntent])
      BY <2>4 DEF QueryStatus, file
    <3>. QED  BY <2>1, <2>2, <2>3, <3>1 DEF UpToDate
  <2>5. CASE SyncFile
    <3>1. vpc = "sync" /\ lines' = lines /\ vpc' \in {"ack", "nak"}
      BY <2>5 DEF SyncFile, file
    <3>. QED  BY <2>1, <2>2, <2>3, <3>1 DEF UpToDate
  <2>6. CASE WriteBlock
    <3>1. /\ vpc = "write" /\ dbStatus' = dbStatus
          /\ \/ vpc' = "nak" /\ lines' = lines
             \/ vpc' = "sync" /\ lines' = WriteLine(lines, eol, Block)
      BY <2>6 DEF WriteBlock
    <3>2. CASE vpc' = "nak" /\ lines' = lines
      BY <2>1, <2>2, <2>3, <3>1, <3>2 DEF UpToDate
    <3>3. CASE vpc' = "sync" /\ lines' = WriteLine(lines, eol, Block)
      <4>1. Block.intent = VIntent /\ Block.status = dbStatus /\ Parses(Block)
        BY NewBlockFacts DEF Block
      <4>2. lines' = Append(lines, Block)
        BY <1>2, <1>3, <3>3 DEF WriteLine
      <4>3. /\ VIntent = i => LastOf(lines', i, dbStatus)
            /\ VIntent # i /\ LastOf(lines, i, status[i]) => LastOf(lines', i, status[i])
        BY <1>2, <4>1, <4>2, LastOfAppend
      <4>. QED  BY <2>1, <2>2, <2>3, <3>1, <3>3, <4>3 DEF UpToDate
    <3>. QED  BY <3>1, <3>2, <3>3
  <2>. QED  BY <1>11, <2>4, <2>5, <2>6
<1>12. CASE AckExecution \/ NakExecution \/ Crash
  <2>0. UNCHANGED results /\ vmsg' = 0 /\ vpc' = "idle" /\ lines' = lines
    BY <1>12 DEF AckExecution, NakExecution, Crash, VDone, file
  <2>1. status' = status /\ due' = due /\ UpToDate(i)
    BY <1>9, <2>0
  <2>2. OtherPending(i) => OtherPending(i)'
    BY <1>1, <2>0, OtherKept
  <2>3. vpc # "idle" /\ vpc # "ack" /\ VIntent = i => OtherPending(i)'
    BY <1>1, <1>2, <2>0, PutBack DEF AckExecution
  <2>. HIDE DEF OtherPending
  <2>. QED  BY <2>0, <2>1, <2>2, <2>3 DEF UpToDate
<1>. QED  BY <1>5, <1>6, <1>7, <1>8, <1>10, <1>11, <1>12 DEF VNext, Run

LEMMA AgreeStep == AgreeInv /\ [VNext]_vars => AgreeInv'
<1>1. ASSUME AgreeInv, VNext PROVE AgreeInv'
  <2>1. VInv'
    BY <1>1, VInvStep DEF AgreeInv
  <2>2. Agrees'
    BY <1>1, UpToDateStep DEF Agrees
  <2>. QED  BY <2>1, <2>2 DEF AgreeInv
<1>2. ASSUME AgreeInv, UNCHANGED vars PROVE AgreeInv'
  <2>1. VInv'
    BY <1>2, VInvStep DEF AgreeInv
  <2>. QED  BY <1>2, <2>1 DEF AgreeInv, Agrees, UpToDate, OtherPending, VIntent, vars, results, handler, file
<1>. QED  BY <1>1, <1>2

(* A file without a cut write tells, by its last block of an intent, what  *)
(* the table tells once all that was announced is acknowledged, whatever   *)
(* is executed, announced or delivered twice.                              *)
THEOREM LedgerTellsTheTable == VSpec => []LedgerAgrees
<1>1. VInit => AgreeInv
  BY VInvInit DEF VInit, AgreeInv, Agrees, Final
<1>2. AgreeInv => LedgerAgrees
  <2>. SUFFICES ASSUME AgreeInv, NEW i \in Intent, status[i] \in Final, due[i] = 0, i \notin silent,
                       ~Pending(executed, i), ~cut
                PROVE  LastStatus(lines, i) = status[i]
    BY DEF LedgerAgrees
  <2>1. /\ VInv /\ vmsg \in 0 .. Len(executed) /\ (vmsg = 0 <=> vpc = "idle") /\ executed \in Seq(Message(Intent))
        /\ Held /\ IsSeq(lines)
    BY DEF AgreeInv, VInv, VTypeOK
  <2>2. vpc # "idle" => VIntent # i
    BY <2>1 DEF Held, Pending, VIntent
  <2>3. ~OtherPending(i)
    BY DEF OtherPending, Pending
  <2>4. UpToDate(i)
    BY DEF AgreeInv, Agrees
  <2>5. LastOf(lines, i, status[i])
    BY <2>2, <2>3, <2>4 DEF UpToDate
  <2>6. PICK k \in Blocks(lines) : /\ lines[k].intent = i /\ lines[k].status = status[i]
                                   /\ \A j \in Blocks(lines) : lines[j].intent = i => j <= k
    BY <2>5 DEF LastOf
  <2>7. Blocks(lines) \subseteq Nat
    <3>1. Len(lines) \in Nat /\ DOMAIN lines = 1 .. Len(lines)
      BY <2>1, AppendFacts
    <3>. QED  BY <3>1 DEF Blocks
  <2>. DEFINE Is(n) == lines[n].intent = i /\ \A j \in Blocks(lines) : lines[j].intent = i => j <= n
  <2>8. \A n \in Blocks(lines) : Is(n) => n = k
    BY <2>6, <2>7
  <2>9. k = CHOOSE n \in Blocks(lines) : Is(n)
    BY <2>6, <2>8
  <2>. QED  BY <2>6, <2>9 DEF LastStatus
<1>. QED  BY <1>1, <1>2, AgreeStep, PTL DEF VSpec

=============================================================================
