--------------------------- MODULE RecoveryProofs ---------------------------
(***************************************************************************)
(* The safety properties of recovery for every set of calls and every      *)
(* number of halts and elements, and the refinement of the calls: halts    *)
(* are invisible.                                                          *)
(*                                                                         *)
(* None of the properties is inductive alone. Stored says what lies on the *)
(* disk beyond what is synced; Current relates memory, the last published  *)
(* state and the line on its way; Attended says whose user code runs. The  *)
(* state on its way has every call of the published one and revives none   *)
(* (Grows), which a halt must not break, since resuming may continue with  *)
(* either.                                                                 *)
(*                                                                         *)
(* The states published before and after any number of halts are those of  *)
(* one execution that never halted. A halt may leave the operation on its  *)
(* way on the disk or not, and resuming publishes what is there. So the    *)
(* invariant says of the line that holds it that one step of the calls     *)
(* leads to it from what is published (Linked). A step between two states  *)
(* that are data, neither of them the state of the variables, is Leads.    *)
(***************************************************************************)
EXTENDS MCRecovery, TLAPS

CallRecord == [stream: BOOLEAN, status: Unended \cup {"returned", "failed", "lost", "cancelled"}, yields: Nat]

IsTable(t) ==
  /\ t = [c \in DOMAIN t |-> t[c]]
  /\ \A c \in DOMAIN t : t[c] \in CallRecord

IsState(s) ==
  /\ s = [status |-> s.status, started |-> s.started, cancelled |-> s.cancelled, failed |-> s.failed, calls |-> s.calls]
  /\ s.started \in BOOLEAN
  /\ IsTable(s.calls)

\* Every call of one table is in the other, which revives none.
Keeps(old, new) ==
  /\ DOMAIN old \subseteq DOMAIN new
  /\ \A c \in DOMAIN old : new[c].status \in Unended => old[c].status \in Unended

Grows(s, t) == Keeps(s.calls, t.calls)

IsSequence(s) == s \in Seq({s[n] : n \in DOMAIN s})

-----------------------------------------------------------------------------
(* The invariant *)

\* Where the operation that is not synced yet is, if it is there.
Upcoming == IF synced = 0 THEN 2 ELSE synced + 1

Stored ==
  /\ synced = 0 \/ \E k \in Nat \ {0} : synced = 2 * k + 1
  /\ IsSequence(disk)
  /\ synced <= Len(disk)
  /\ Len(disk) <= Upcoming + 1
  /\ synced = 0 => published = Initial
  /\ synced > 0 => disk[synced - 1].state = published
  /\ Len(disk) >= Upcoming => IsState(disk[Upcoming].state) /\ Grows(published, disk[Upcoming].state)

Alive == mode \in {"new", "resuming", "running"}

Current ==
  /\ mode \in {"new", "resuming", "running", "down", "refused"}
  /\ IsState(published)
  /\ mode = "new" => synced = 0 /\ seq = 1
  /\ mode \in {"resuming", "running"} => synced > 0 /\ seq = synced
  /\ mode = "refused" => synced = 0
  /\ Alive => IsState(Memory) /\ ~torn
  /\ Alive /\ ~writing => Len(disk) = synced /\ published = Memory
  /\ writing => Alive /\ Len(disk) = Upcoming + 1 /\ disk[Upcoming].state = Memory

Attended ==
  /\ code = IF mode = "running" THEN UnendedOf(published) ELSE {}
  /\ mode = "resuming" => /\ UnendedOf(Memory) \subseteq lost
                          /\ lost \subseteq DOMAIN calls
                          /\ DOMAIN calls = DOMAIN published.calls
  /\ begun = [c \in DOMAIN begun |-> begun[c]]
  /\ DOMAIN begun \subseteq DOMAIN published.calls
  /\ \A c \in DOMAIN begun : begun[c] \in {0, 1}

IInv == AlwaysReadable /\ Stored /\ Current /\ Attended

-----------------------------------------------------------------------------
(* Sequences and numbers *)

\* The numbers of lines, even and odd.
LEMMA Parity ==
  ASSUME NEW k \in Nat
  PROVE  /\ (2 * k) % 2 = 0 /\ (2 * k + 1) % 2 = 1
         /\ (2 * k) \div 2 = k /\ (2 * k + 1) \div 2 = k
         /\ k # 0 => (2 * k - 1) \div 2 = k - 1
  OBVIOUS

\* A sequence over any set is a sequence over its own elements.
LEMMA OwnElements ==
  ASSUME NEW S, NEW s \in Seq(S)
  PROVE  IsSequence(s) /\ Len(s) \in Nat /\ DOMAIN s = 1..Len(s)
BY DEF IsSequence

\* What follows a journal leaves the journal as it is.
LEMMA Joined ==
  ASSUME NEW s, IsSequence(s), NEW t, IsSequence(t)
  PROVE  /\ IsSequence(s \o t)
         /\ Len(s) \in Nat /\ Len(t) \in Nat
         /\ Len(s \o t) = Len(s) + Len(t)
         /\ \A n \in 1..Len(s) : (s \o t)[n] = s[n]
         /\ \A n \in 1..Len(t) : (s \o t)[Len(s) + n] = t[n]
<1> DEFINE S == {s[n] : n \in DOMAIN s} \cup {t[n] : n \in DOMAIN t}
           u == s \o t
<1>1. s \in Seq(S) /\ t \in Seq(S)
  BY DEF IsSequence
<1> HIDE DEF S
<1>2. u \in Seq(S) /\ Len(u) = Len(s) + Len(t) /\ Len(s) \in Nat /\ Len(t) \in Nat
  BY <1>1
<1>3. /\ \A n \in 1..Len(s) : u[n] = s[n]
      /\ \A n \in 1..Len(t) : u[Len(s) + n] = t[n]
  BY <1>1
<1> HIDE DEF u
<1>4. IsSequence(u)
  BY <1>2, OwnElements
<1> QED
  BY <1>2, <1>3, <1>4 DEF u

\* What is left of a journal.
LEMMA Beginning ==
  ASSUME NEW s, IsSequence(s), NEW m \in 0..Len(s)
  PROVE  /\ IsSequence(SubSeq(s, 1, m))
         /\ Len(s) \in Nat
         /\ Len(SubSeq(s, 1, m)) = m
         /\ \A n \in 1..m : SubSeq(s, 1, m)[n] = s[n]
<1> DEFINE S == {s[n] : n \in DOMAIN s}
           t == SubSeq(s, 1, m)
<1>1. s \in Seq(S)
  BY DEF IsSequence
<1> HIDE DEF S
<1>2. t \in Seq(S) /\ Len(s) \in Nat /\ Len(t) = m /\ \A n \in 1..m : t[n] = s[n]
  BY <1>1
<1> HIDE DEF t
<1>3. IsSequence(t)
  BY <1>2, OwnElements
<1> QED
  BY <1>2, <1>3 DEF t

-----------------------------------------------------------------------------
(* Operations of the machine *)

\* What every operation does to the table of calls.
TableOK == started' \in BOOLEAN /\ IsTable(calls') /\ Keeps(calls, calls')
Typed == started \in BOOLEAN /\ IsTable(calls)

\* A call that has not ended gets another status, and no other call.
LEMMA SetStatusKeeps ==
  ASSUME NEW c \in DOMAIN calls, NEW s \in Unended \cup {"returned", "failed", "lost", "cancelled"},
         IsTable(calls), calls[c].status \in Unended
  PROVE  IsTable(SetStatus(c, s)) /\ Keeps(calls, SetStatus(c, s)) /\ DOMAIN SetStatus(c, s) = DOMAIN calls
BY DEF IsTable, SetStatus, Keeps, CallRecord

\* Live calls are told to stop, which revives none.
LEMMA CancelLiveKeeps ==
  ASSUME NEW table, IsTable(table)
  PROVE  IsTable(CancelLive(table)) /\ Keeps(table, CancelLive(table)) /\ DOMAIN CancelLive(table) = DOMAIN table
BY DEF IsTable, CancelLive, Keeps, CallRecord, Live, Unended

\* A failure does one or the other.
LEMMA FailKeeps ==
  ASSUME Typed, NEW table, IsTable(table), Keeps(calls, table), DOMAIN table = DOMAIN calls, Fail(table)
  PROVE  TableOK /\ DOMAIN calls' = DOMAIN calls
<1>1. IsTable(CancelLive(table)) /\ Keeps(table, CancelLive(table)) /\ DOMAIN CancelLive(table) = DOMAIN table
  BY CancelLiveKeeps
<1>2. Keeps(calls, CancelLive(table))
  BY <1>1 DEF Keeps
<1>3. started' \in BOOLEAN
  BY DEF Typed, Fail
<1> QED
  BY <1>1, <1>2, <1>3 DEF Fail, TableOK

\* A new call joins the table.
LEMMA CreateKeeps ==
  ASSUME Typed, NEW c, NEW stream \in BOOLEAN, Create(c, stream)
  PROVE  TableOK
BY DEF Typed, Create, TableOK, IsTable, Keeps, CallRecord, Unended, Live

\* What one call goes through keeps the table.
LEMMA CallKeeps ==
  ASSUME Typed, NEW c \in DOMAIN calls,
         \/ Fetch(c) \/ TimeOut(c, FALSE) \/ Yield(c) \/ Return(c) \/ FailCall(c)
         \/ Terminate(c) \/ Lose(c)
  PROVE  TableOK /\ DOMAIN calls' = DOMAIN calls
<1> USE DEF Typed
<1>1. ASSUME NEW s \in Unended \cup {"returned", "failed", "lost", "cancelled"},
             calls[c].status \in Unended, calls' = SetStatus(c, s), started' = started
      PROVE  TableOK /\ DOMAIN calls' = DOMAIN calls
  BY <1>1, SetStatusKeeps DEF TableOK
<1>2. ASSUME NEW s \in Unended \cup {"returned", "failed", "lost", "cancelled"},
             calls[c].status \in Unended, Fail(SetStatus(c, s))
      PROVE  TableOK /\ DOMAIN calls' = DOMAIN calls
  BY <1>2, SetStatusKeeps, FailKeeps
<1>3. CASE Fetch(c)
  BY <1>3, <1>1 DEF Fetch, Unended, Live
<1>4. CASE TimeOut(c, FALSE)
  BY <1>4, <1>2 DEF TimeOut, Unended, Live
<1>5. CASE Yield(c)
  <2> DEFINE old == calls[c]
             new == [stream |-> TRUE, status |-> "running", yields |-> old.yields + 1]
  <2>1. old \in CallRecord
    BY DEF IsTable
  <2>2. new \in CallRecord
    BY <2>1 DEF CallRecord, Unended, Live
  <2>3. calls' = [calls EXCEPT ![c] = new] /\ started' = started /\ old.status = "fetching"
    BY <1>5, <2>1 DEF Yield, IsTable, CallRecord
  <2> HIDE DEF new
  <2> QED
    BY <2>2, <2>3 DEF TableOK, IsTable, Keeps, Unended, Live
<1>6. CASE Return(c)
  BY <1>6, <1>1 DEF Return, Unended, Live
<1>7. CASE FailCall(c)
  BY <1>7, <1>2 DEF FailCall, Unended, Live
<1>8. CASE Terminate(c)
  BY <1>8, <1>1 DEF Terminate, Unended
<1>9. CASE Lose(c)
  BY <1>9, <1>8, <1>2 DEF Lose, Unended, Live
<1> QED
  BY <1>3, <1>4, <1>5, <1>6, <1>7, <1>8, <1>9

\* So do the operations of the execution as a whole.
LEMMA WholeKeeps ==
  ASSUME Typed, Start \/ FailTransform \/ Cancel \/ Conclude
  PROVE  TableOK /\ DOMAIN calls' = DOMAIN calls
<1> USE DEF Typed
<1>1. Keeps(calls, calls)
  BY DEF Keeps
<1>2. CASE Start
  BY <1>1, <1>2 DEF Start, TableOK
<1>3. CASE FailTransform
  BY <1>1, <1>3, FailKeeps DEF FailTransform
<1>4. CASE Cancel
  BY <1>4, CancelLiveKeeps DEF Cancel, TableOK
<1>5. CASE Conclude
  BY <1>1, <1>5 DEF Conclude, TableOK
<1> QED
  BY <1>2, <1>3, <1>4, <1>5

-----------------------------------------------------------------------------
(* Writing an operation *)

\* The lines of an operation, in a journal that is synced, are where the
\* reader expects them.
LEMMA Appending ==
  ASSUME AlwaysReadable, Stored, Current, Alive, ~writing, NEW state
  PROVE  LET new == Appended(Lines(seq, state)) IN
         /\ IsSequence(new) /\ Readable(new)
         /\ Len(new) = Upcoming + 1
         /\ Len(disk) = synced /\ synced \in Nat /\ synced < Upcoming
         /\ \A n \in 1..Len(disk) : new[n] = disk[n]
         /\ new[Upcoming].state = state
<1> DEFINE new == Appended(Lines(seq, state))
<1> USE DEF Readable, KindAt, Operation, Commit
<1>1. ~torn /\ Len(disk) = synced /\ IsSequence(disk) /\ DOMAIN disk = 1..Len(disk)
  BY OwnElements DEF Current, Stored, IsSequence
<1>2. CASE mode = "new"
  <2> DEFINE three == <<Header, Operation(1, state), Commit(2)>>
  <2>1. synced = 0 /\ seq = 1
    BY <1>2 DEF Current
  <2>2. disk = <<>>
    BY <1>1, <2>1 DEF IsSequence
  <2>3. Lines(seq, state) = three
    BY <1>2, <2>1 DEF Lines
  <2>4. new = three
    BY <1>1, <2>2, <2>3 DEF Appended
  <2>5. three \in Seq({Header, Operation(1, state), Commit(2)}) /\ Len(three) = 3
    OBVIOUS
  <2>6. IsSequence(three) /\ DOMAIN three = {1, 2, 3}
    <3> HIDE DEF three, Operation, Commit
    <3>1. IsSequence(three) /\ DOMAIN three = 1..3
      BY <2>5, OwnElements
    <3> QED
      BY <3>1
  <2>7. Readable(three)
    BY <2>6, Parity DEF Header
  <2> QED
    BY <1>1, <2>1, <2>2, <2>4, <2>5, <2>6, <2>7 DEF Upcoming
<1>3. CASE mode # "new"
  <2> DEFINE two == <<Operation(seq, state), Commit(seq + 1)>>
  <2>1. PICK k \in Nat \ {0} : synced = 2 * k + 1
    BY <1>3 DEF Current, Alive, Stored
  <2>2. seq = synced /\ Upcoming = synced + 1 /\ synced \in Nat
    BY <1>3, <2>1 DEF Current, Alive, Upcoming
  <2>3. two \in Seq({Operation(seq, state), Commit(seq + 1)}) /\ Len(two) = 2
    OBVIOUS
  <2>4. IsSequence(two)
    BY <2>3, OwnElements
  <2>5. new = disk \o two
    BY <1>1, <1>3 DEF Appended, Lines
  <2> HIDE DEF two
  <2>6. /\ IsSequence(new)
        /\ Len(new) = synced + 2
        /\ \A n \in 1..Len(disk) : new[n] = disk[n]
        /\ \A n \in 1..2 : new[synced + n] = two[n]
    <3> HIDE DEF new, Operation, Commit
    <3>0. IsSequence(disk)
      BY <1>1
    <3>1. IsSequence(disk \o two)
      BY <3>0, <2>4, Joined
    <3>2. Len(disk \o two) = Len(disk) + Len(two)
      BY <3>0, <2>4, Joined
    <3>3. \A n \in 1..Len(disk) : (disk \o two)[n] = disk[n]
      BY <3>0, <2>4, Joined
    <3>4. \A n \in 1..Len(two) : (disk \o two)[Len(disk) + n] = two[n]
      BY <3>0, <2>4, Joined
    <3> QED
      BY <1>1, <2>3, <2>5, <3>1, <3>2, <3>3, <3>4
  <2>7. new[synced + 1] = Operation(seq, state) /\ new[synced + 2] = Commit(seq + 1)
    BY <2>6 DEF two
  <2>8. DOMAIN new = 1..(synced + 2)
    BY <2>6, OwnElements DEF IsSequence
  <2>9. (synced + 1) % 2 = 0 /\ (synced + 2) % 2 = 1 /\ synced + 2 # 1 /\ synced + 1 # 1
    BY <2>1
  <2>10. \A n \in 1..synced : new[n].kind = KindAt(n) /\ new[n].seq = n - 1
    BY <1>1, <2>6 DEF AlwaysReadable
  <2>11. Readable(new)
    <3> SUFFICES ASSUME NEW n \in 1..(synced + 2)
                 PROVE  new[n].kind = KindAt(n) /\ new[n].seq = n - 1
      BY <2>8
    <3>1. n \in 1..synced \/ n = synced + 1 \/ n = synced + 2
      BY <2>2
    <3> HIDE DEF new
    <3>2. CASE n = synced + 1
      BY <3>2, <2>2, <2>7, <2>9
    <3>3. CASE n = synced + 2
      BY <3>3, <2>2, <2>7, <2>9
    <3> QED
      BY <3>1, <3>2, <3>3, <2>10
  <2> QED
    BY <1>1, <2>2, <2>6, <2>7, <2>11
<1> QED
  BY <1>2, <1>3

\* A step of the machine that is written keeps the invariant.
LEMMA WriteStep ==
  ASSUME IInv, Alive, ~writing, TableOK, Write,
         mode = "resuming" => DOMAIN calls' = DOMAIN calls
  PROVE  IInv'
<1> DEFINE state == Memory'
<1>1. /\ disk' = Appended(Lines(seq, state)) /\ ~torn' /\ writing'
      /\ UNCHANGED <<mode, synced, seq, lost, code, begun, published, halts>>
  BY DEF Write
<1>2. /\ Keeps(calls, calls') /\ IsTable(calls') /\ started' \in BOOLEAN
      /\ published = Memory /\ Len(disk) = synced
  BY DEF TableOK, IInv, Current
<1>3. IsState(state) /\ state.calls = calls'
  BY <1>2 DEF IsState, Memory
<1> HIDE DEF state
<1>4. /\ IsSequence(disk') /\ Readable(disk') /\ Len(disk') = Upcoming + 1
      /\ synced \in Nat /\ synced < Upcoming
      /\ \A n \in 1..Len(disk) : disk'[n] = disk[n]
      /\ disk'[Upcoming].state = state
  BY <1>1, Appending DEF IInv
<1>5. Grows(published, state)
  BY <1>2, <1>3 DEF Grows, Memory
<1>6. Upcoming' = Upcoming
  BY <1>1 DEF Upcoming
<1>7. AlwaysReadable'
  BY <1>4 DEF AlwaysReadable
<1>8. Stored'
  <2>1. Upcoming \in Nat
    BY <1>4 DEF Upcoming
  <2>2. synced > 0 => disk'[synced - 1].state = published
    <3> SUFFICES ASSUME synced > 0 PROVE disk'[synced - 1].state = published
      OBVIOUS
    <3>1. PICK k \in Nat \ {0} : synced = 2 * k + 1
      BY DEF IInv, Stored
    <3>2. synced - 1 \in 1..Len(disk)
      BY <3>1, <1>2
    <3>3. disk[synced - 1].state = published
      BY DEF IInv, Stored
    <3> QED
      BY <3>2, <3>3, <1>4
  <2> QED
    BY <1>1, <1>3, <1>4, <1>5, <1>6, <2>1, <2>2 DEF IInv, Stored
<1>9. Current'
  <2>1. IsState(Memory')
    BY <1>3 DEF state
  <2>2. disk'[Upcoming'].state = Memory'
    BY <1>4, <1>6 DEF state
  <2> QED
    BY <1>1, <1>4, <1>6, <2>1, <2>2 DEF IInv, Current, Alive
<1>10. Attended'
  <2>1. UnendedOf(state) \cap DOMAIN calls \subseteq UnendedOf(Memory)
    BY <1>2, <1>3 DEF UnendedOf, Keeps, Memory
  <2>2. mode = "resuming" => UnendedOf(state) \subseteq lost
    BY <2>1, <1>3 DEF IInv, Attended, UnendedOf
  <2> QED
    BY <1>1, <2>2 DEF IInv, Attended, UnendedOf, state
<1> QED
  BY <1>7, <1>8, <1>9, <1>10 DEF IInv

\* Syncing publishes the state on its way and starts its new calls.
LEMMA SyncStep ==
  ASSUME IInv, Sync
  PROVE  IInv'
<1>1. /\ writing /\ ~writing'
      /\ seq' = seq + 2 /\ synced' = Len(disk)
      /\ mode' = IF mode = "new" THEN "running" ELSE mode
      /\ code' = {c \in DOMAIN calls : calls[c].status \in Unended /\ (c \in code \/ c \notin DOMAIN published.calls)}
      /\ published' = Memory
      /\ UNCHANGED <<machineVars, disk, torn, lost, halts>>
  BY DEF Sync, Durable, Publish
<1>2. Memory' = Memory /\ UNCHANGED calls
  BY <1>1 DEF Memory, machineVars
<1>3. PICK k \in Nat \ {0} : Len(disk) = 2 * k + 1 /\ Upcoming = 2 * k
  <2>1. CASE synced = 0
    <3>1. Len(disk) = 2 * 1 + 1 /\ Upcoming = 2 * 1
      BY <1>1, <2>1 DEF IInv, Current, Upcoming
    <3> QED
      BY <3>1
  <2>2. CASE synced # 0
    <3>1. PICK j \in Nat \ {0} : synced = 2 * j + 1
      BY <2>2 DEF IInv, Stored
    <3>2. Len(disk) = 2 * (j + 1) + 1 /\ Upcoming = 2 * (j + 1)
      BY <1>1, <2>2, <3>1 DEF IInv, Current, Upcoming
    <3> QED
      BY <3>2
  <2> QED
    BY <2>1, <2>2
<1>4. /\ IsState(Memory) /\ ~torn /\ Alive /\ disk[Upcoming].state = Memory
      /\ Grows(published, Memory) /\ mode' \in {"resuming", "running"}
  BY <1>1, <1>3 DEF IInv, Current, Stored, Alive
<1>5. AlwaysReadable'
  BY <1>1 DEF IInv, AlwaysReadable, Readable, KindAt
<1>6. Stored'
  <2>1. synced' = 2 * k + 1 /\ Upcoming' = 2 * k + 2 /\ Len(disk') = 2 * k + 1
    BY <1>1, <1>3 DEF Upcoming
  <2>2. disk'[synced' - 1].state = published'
    BY <1>1, <1>3, <1>4, <2>1
  <2> QED
    BY <1>1, <2>1, <2>2 DEF IInv, Stored
<1>7. Current'
  <2>1. seq' = synced'
    <3>1. synced \in Nat
      BY DEF IInv, Stored
    <3>2. synced' = Upcoming + 1 /\ seq' = seq + 2
      BY <1>1 DEF IInv, Current
    <3>3. \/ synced = 0 /\ seq = 1
          \/ synced > 0 /\ seq = synced
      BY <1>4 DEF IInv, Current, Alive
    <3> QED
      BY <3>1, <3>2, <3>3 DEF Upcoming
  <2> QED
    BY <1>1, <1>2, <1>3, <1>4, <2>1 DEF IInv, Current, Alive, Upcoming
<1>8. Attended'
  <2> DEFINE new == [c \in DOMAIN calls |->
        (IF c \in DOMAIN begun THEN begun[c] ELSE 0) + (IF c \in code' \ code THEN 1 ELSE 0)]
  <2>1. begun' = new
    BY DEF Sync
  <2>2. DOMAIN published.calls \subseteq DOMAIN calls /\ Keeps(published.calls, calls)
    BY <1>4 DEF Grows, Keeps, Memory
  <2>3. \A c \in code' \ code : c \notin DOMAIN begun
    BY <1>1 DEF IInv, Attended
  <2>4. /\ begun' = [c \in DOMAIN begun' |-> begun'[c]]
        /\ DOMAIN begun' \subseteq DOMAIN published'.calls
        /\ \A c \in DOMAIN begun' : begun'[c] \in {0, 1}
    <3>1. DOMAIN new = DOMAIN calls /\ new = [c \in DOMAIN new |-> new[c]]
      OBVIOUS
    <3>2. \A c \in DOMAIN calls : new[c] \in {0, 1}
      BY <2>3 DEF IInv, Attended
    <3>3. DOMAIN published'.calls = DOMAIN calls
      BY <1>1 DEF Memory
    <3> HIDE DEF new
    <3> QED
      BY <2>1, <3>1, <3>2, <3>3
  <2>5. code' = IF mode' = "running" THEN UnendedOf(published') ELSE {}
    <3>1. UnendedOf(published') = {c \in DOMAIN calls : calls[c].status \in Unended}
      BY <1>1 DEF UnendedOf, Memory
    <3>2. CASE mode = "new"
      <4>1. published.calls = <<>>
        BY <3>2 DEF IInv, Current, Stored, Initial
      <4>2. DOMAIN published.calls = {}
        BY <4>1
      <4> QED
        BY <1>1, <3>1, <3>2, <4>2
    <3>3. CASE mode = "running"
      <4>1. code = UnendedOf(published)
        BY <3>3 DEF IInv, Attended
      <4>2. \A c \in DOMAIN calls : calls[c].status \in Unended => c \in code \/ c \notin DOMAIN published.calls
        BY <2>2, <4>1 DEF Keeps, UnendedOf
      <4> QED
        BY <1>1, <3>1, <3>3, <4>2
    <3>4. CASE mode = "resuming"
      <4>1. code = {} /\ DOMAIN calls = DOMAIN published.calls
        BY <3>4 DEF IInv, Attended
      <4> QED
        BY <1>1, <3>4, <4>1
    <3> QED
      BY <1>4, <3>2, <3>3, <3>4 DEF Alive
  <2>6. mode' = "resuming" => /\ UnendedOf(Memory') \subseteq lost'
                              /\ lost' \subseteq DOMAIN calls'
                              /\ DOMAIN calls' = DOMAIN published'.calls
    <3>1. published'.calls = calls
      BY <1>1 DEF Memory
    <3> QED
      BY <1>1, <1>2, <3>1 DEF IInv, Attended
  <2> QED
    BY <2>4, <2>5, <2>6 DEF Attended
<1> QED
  BY <1>5, <1>6, <1>7, <1>8 DEF IInv

\* A halt keeps any part of what was not synced.
LEMMA HaltStep ==
  ASSUME IInv, Halt
  PROVE  IInv'
<1>1. PICK m \in synced..Len(disk) : disk' = SubSeq(disk, 1, m)
  BY DEF Halt
<1>2. /\ mode' = "down" /\ ~writing' /\ code' = {}
      /\ UNCHANGED <<synced, published, begun>>
  BY DEF Halt
<1>3. synced \in Nat /\ Upcoming \in Nat /\ Upcoming' = Upcoming /\ synced < Upcoming
  BY <1>2 DEF IInv, Stored, Upcoming
<1>4. IsSequence(disk) /\ Len(disk) \in Nat /\ synced <= Len(disk) /\ DOMAIN disk = 1..Len(disk)
  BY OwnElements DEF IInv, Stored, IsSequence
<1>5. /\ IsSequence(disk') /\ Len(disk') = m
      /\ \A n \in 1..m : disk'[n] = disk[n]
  <2>1. m \in 0..Len(disk)
    BY <1>3, <1>4
  <2> QED
    BY <1>1, <1>4, <2>1, Beginning
<1>6. DOMAIN disk' = 1..m
  BY <1>5, OwnElements DEF IsSequence
<1>7. AlwaysReadable'
  BY <1>3, <1>4, <1>5, <1>6 DEF IInv, AlwaysReadable, Readable, KindAt
<1>8. Stored'
  <2>1. synced > 0 => disk'[synced - 1].state = published
    <3> SUFFICES ASSUME synced > 0 PROVE disk'[synced - 1].state = published
      OBVIOUS
    <3>1. PICK k \in Nat \ {0} : synced = 2 * k + 1
      BY DEF IInv, Stored
    <3>2. synced - 1 \in 1..m
      BY <3>1, <1>4
    <3> QED
      BY <3>2, <1>5 DEF IInv, Stored
  <2>2. m >= Upcoming => disk'[Upcoming] = disk[Upcoming] /\ Len(disk) >= Upcoming
    BY <1>3, <1>4, <1>5
  <2> QED
    BY <1>2, <1>3, <1>4, <1>5, <2>1, <2>2 DEF IInv, Stored
<1>9. Current'
  BY <1>2 DEF IInv, Current, Alive
<1>10. Attended'
  BY <1>2 DEF IInv, Attended
<1> QED
  BY <1>7, <1>8, <1>9, <1>10 DEF IInv

-----------------------------------------------------------------------------
(* Resuming *)

\* What resuming finds in a readable journal with a committed operation: the
\* last published state, or the one that was on its way.
LEMMA Found ==
  ASSUME IInv, Committed(disk) > 0
  PROVE  /\ IsState(StateOf(disk)) /\ Grows(published, StateOf(disk))
         /\ Length(disk) \in 0..Len(disk) /\ Length(disk) >= synced
         /\ Length(disk) = 2 * Committed(disk) + 1
         /\ Committed(disk) \in Nat \ {0}
         /\ StateOf(disk) = disk[Length(disk) - 1].state
<1>1. IsSequence(disk) /\ Len(disk) \in Nat /\ synced <= Len(disk) /\ Len(disk) <= Upcoming + 1
  BY OwnElements DEF IInv, Stored, IsSequence
<1>2. disk # <<>>
  BY DEF Committed
<1>3. /\ Committed(disk) = (Len(disk) - 1) \div 2
      /\ Length(disk) = 1 + 2 * Committed(disk)
      /\ StateOf(disk) = disk[Length(disk) - 1].state
  BY <1>2 DEF Committed, Length, StateOf
<1>4. Keeps(published.calls, published.calls)
  BY DEF Keeps
<1>5. CASE synced = 0
  <2>1. Upcoming = 2
    BY <1>5 DEF Upcoming
  <2>2. Len(disk) = 3 /\ Committed(disk) = 1 /\ Length(disk) = 3
    <3> DEFINE n == Len(disk)
    <3>1. n \in Nat /\ n <= 3 /\ (n - 1) \div 2 > 0
      BY <1>1, <1>3, <2>1
    <3> HIDE DEF n
    <3>2. n = 0 \/ n = 1 \/ n = 2 \/ n = 3
      BY <3>1
    <3>3. n = 3 /\ (n - 1) \div 2 = 1
      BY <3>1, <3>2
    <3> QED
      BY <1>3, <3>3 DEF n
  <2> QED
    BY <1>3, <1>5, <2>1, <2>2 DEF IInv, Stored
<1>6. CASE synced # 0
  <2>1. PICK k \in Nat \ {0} : synced = 2 * k + 1
    BY <1>6 DEF IInv, Stored
  <2>2. Upcoming = 2 * k + 2 /\ Len(disk) \in {2 * k + 1, 2 * k + 2, 2 * k + 3}
    BY <1>1, <1>6, <2>1 DEF Upcoming
  <2>3. \/ Committed(disk) = k /\ Length(disk) = 2 * k + 1
        \/ Len(disk) = 2 * k + 3 /\ Committed(disk) = k + 1 /\ Length(disk) = 2 * k + 3
    BY <1>3, <2>2
  <2>4. CASE Committed(disk) = k /\ Length(disk) = 2 * k + 1
    BY <1>1, <1>3, <1>4, <2>1, <2>2, <2>4 DEF IInv, Stored, Current, Grows
  <2>5. CASE Len(disk) = 2 * k + 3 /\ Committed(disk) = k + 1 /\ Length(disk) = 2 * k + 3
    BY <1>1, <1>3, <2>1, <2>2, <2>5 DEF IInv, Stored
  <2> QED
    BY <2>3, <2>4, <2>5
<1> QED
  BY <1>5, <1>6

\* Resuming continues with it, and nothing else is left on the disk.
LEMMA ResumeStep ==
  ASSUME IInv, Resume
  PROVE  IInv'
<1> DEFINE state == StateOf(disk)
           length == Length(disk)
<1>1. /\ mode = "down" /\ Committed(disk) > 0
      /\ disk' = SubSeq(disk, 1, length) /\ torn' = FALSE
      /\ started' = state.started /\ calls' = state.calls
      /\ status' = state.status /\ cancelled' = state.cancelled /\ failed' = state.failed
      /\ published' = state /\ lost' = UnendedOf(state)
      /\ seq' = 2 * Committed(disk) + 1 /\ synced' = length /\ mode' = "resuming"
      /\ UNCHANGED <<writing, code, begun>>
  BY DEF Resume, Truncate, ToReport
<1>2. /\ IsState(state) /\ Grows(published, state)
      /\ length \in 0..Len(disk) /\ length >= synced
      /\ length = 2 * Committed(disk) + 1 /\ Committed(disk) \in Nat \ {0}
      /\ state = disk[length - 1].state
  BY <1>1, Found
<1>3. Memory' = state
  BY <1>1, <1>2 DEF Memory, IsState
<1> HIDE DEF state, length
<1>4. ~writing /\ code = {}
  BY <1>1 DEF IInv, Current, Attended, Alive
<1>5. IsSequence(disk) /\ Len(disk) \in Nat /\ DOMAIN disk = 1..Len(disk)
  BY OwnElements DEF IInv, Stored, IsSequence
<1>6. /\ IsSequence(disk') /\ Len(disk') = length
      /\ \A n \in 1..length : disk'[n] = disk[n]
  BY <1>1, <1>2, <1>5, Beginning
<1>7. DOMAIN disk' = 1..length
  BY <1>6, OwnElements DEF IsSequence
<1>8. AlwaysReadable'
  BY <1>2, <1>5, <1>6, <1>7 DEF IInv, AlwaysReadable, Readable, KindAt
<1>9. Stored'
  <2>1. disk'[synced' - 1].state = published' /\ synced' > 0
    BY <1>1, <1>2, <1>6
  <2>2. Len(disk') = synced' /\ Upcoming' = synced' + 1
    <3>1. synced' # 0
      BY <2>1
    <3> QED
      BY <1>1, <1>6, <3>1 DEF Upcoming
  <2> QED
    BY <1>1, <1>2, <1>6, <2>1, <2>2 DEF Stored
<1>10. Current'
  BY <1>1, <1>2, <1>3, <1>4, <1>6 DEF Current, Alive
<1>11. Attended'
  <2>1. UnendedOf(state) \subseteq DOMAIN calls'
    BY <1>1 DEF UnendedOf
  <2>2. DOMAIN published.calls \subseteq DOMAIN state.calls
    BY <1>2 DEF Grows, Keeps
  <2> QED
    BY <1>1, <1>3, <1>4, <2>1, <2>2 DEF IInv, Attended
<1> QED
  BY <1>8, <1>9, <1>10, <1>11 DEF IInv

\* A journal without a committed operation is left alone.
LEMMA ResumeRefusedStep ==
  ASSUME IInv, ResumeRefused
  PROVE  IInv'
<1>1. /\ mode = "down" /\ mode' = "refused"
      /\ UNCHANGED <<machineVars, writing, disk, torn, synced, seq, lost, code, begun, published, halts>>
  BY DEF ResumeRefused
<1>2. Committed(disk) = 0
  BY DEF ResumeRefused, IInv, AlwaysReadable
<1>3. synced = 0
  <2> SUFFICES ASSUME synced # 0 PROVE FALSE
    OBVIOUS
  <2>1. PICK k \in Nat \ {0} : synced = 2 * k + 1
    BY DEF IInv, Stored
  <2>2. Len(disk) \in Nat /\ Len(disk) >= 2 * k + 1
    BY <2>1, OwnElements DEF IInv, Stored, IsSequence
  <2>3. disk # <<>>
    BY <2>2
  <2> QED
    BY <1>2, <2>2, <2>3 DEF Committed
<1> QED
  BY <1>1, <1>3 DEF IInv, AlwaysReadable, Stored, Current, Attended, Alive, Upcoming, Memory, machineVars

\* Once every lost call is reported, no call waits for user code.
LEMMA ReportedStep ==
  ASSUME IInv, Reported
  PROVE  IInv'
<1>1. /\ mode = "resuming" /\ mode' = "running" /\ ~writing
      /\ \A c \in lost : calls[c].status \notin Unended
      /\ UNCHANGED <<machineVars, writing, disk, torn, synced, seq, code, begun, published, halts>>
  BY DEF Reported
<1>2. published = Memory /\ Memory' = Memory /\ UnendedOf(Memory) \subseteq lost /\ code = {}
  BY <1>1 DEF IInv, Current, Attended, Alive, Memory, machineVars
<1>3. UnendedOf(Memory) = {}
  BY <1>1, <1>2 DEF UnendedOf, Memory
<1>4. Attended'
  BY <1>1, <1>2, <1>3 DEF IInv, Attended
<1>5. Current' /\ Stored' /\ AlwaysReadable'
  BY <1>1, <1>2 DEF IInv, Current, Stored, AlwaysReadable, Alive, Upcoming
<1> QED
  BY <1>4, <1>5 DEF IInv

-----------------------------------------------------------------------------
(* The theorems *)

\* The step an operation takes is one that WriteStep writes.
LEMMA MachineStep ==
  ASSUME IInv, Begin \/ Operate \/ ReportLost
  PROVE  IInv'
<1>1. (started \in BOOLEAN /\ IsTable(calls)) \/ ~Alive
  BY DEF IInv, Current, IsState, Memory
<1>2. CASE Begin
  <2>1. TableOK /\ Alive
    BY <1>1, <1>2, WholeKeeps DEF Begin, Alive, Typed
  <2> QED
    BY <1>2, <2>1, WriteStep DEF Begin, CanWrite
<1>3. CASE Operate
  <2>1. Typed /\ Alive /\ mode = "running" /\ ~writing /\ Write
    BY <1>1, <1>3 DEF Operate, CanWrite, Alive, Typed
  <2>2. code \subseteq DOMAIN calls
    BY <2>1 DEF IInv, Attended, Current, UnendedOf, Memory
  <2>3. \A c \in DOMAIN Kind : (Kind[c] = "stream") \in BOOLEAN
    OBVIOUS
  <2>4. TableOK
    <3>1. CASE \E c \in DOMAIN Kind : Create(c, Kind[c] = "stream")
      BY <2>1, <2>3, <3>1, CreateKeeps
    <3>2. CASE \E c \in DOMAIN calls : Fetch(c) \/ TimeOut(c, FALSE)
      BY <2>1, <3>2, CallKeeps
    <3>3. CASE \E c \in code : Yield(c) \/ Return(c) \/ FailCall(c) \/ Terminate(c)
      BY <2>1, <2>2, <3>3, CallKeeps
    <3>4. CASE FailTransform \/ Cancel \/ Conclude
      BY <2>1, <3>4, WholeKeeps
    <3> QED
      BY <1>3, <3>1, <3>2, <3>3, <3>4 DEF Operate
  <2> QED
    BY <2>1, <2>4, WriteStep
<1>4. CASE ReportLost
  <2>1. Typed /\ Alive /\ mode = "resuming" /\ ~writing /\ Write /\ lost \subseteq DOMAIN calls
    BY <1>1, <1>4 DEF ReportLost, CanWrite, Alive, Typed, IInv, Attended
  <2>2. TableOK /\ DOMAIN calls' = DOMAIN calls
    <3>1. CASE \E c \in lost : Lose(c)
      BY <2>1, <3>1, CallKeeps
    <3>2. CASE Cancel
      BY <2>1, <3>2, WholeKeeps
    <3> QED
      BY <1>4, <3>1, <3>2 DEF ReportLost
  <2> QED
    BY <2>1, <2>2, WriteStep
<1> QED
  BY <1>2, <1>3, <1>4

\* The invariant holds initially.
LEMMA InitIInv == RecoveryInit => IInv
<1> SUFFICES ASSUME RecoveryInit PROVE IInv
  OBVIOUS
<1> USE DEF RecoveryInit, Init
<1>1. <<>> \in Seq({}) /\ Len(<<>>) = 0 /\ DOMAIN <<>> = {} /\ <<>> = [c \in {} |-> <<>>[c]]
  OBVIOUS
<1>2. IsSequence(disk)
  BY <1>1, OwnElements
<1>3. IsState(Memory) /\ Memory = Initial
  BY <1>1 DEF IsState, IsTable, Memory, Initial
<1>4. Stored
  BY <1>1, <1>2 DEF Stored, Upcoming
<1>5. Current
  BY <1>1, <1>3 DEF Current, Alive
<1>6. Attended
  BY <1>1 DEF Attended
<1>7. AlwaysReadable
  BY <1>1 DEF AlwaysReadable, Readable
<1> QED
  BY <1>4, <1>5, <1>6, <1>7 DEF IInv

\* The invariant is inductive.
LEMMA NextIInv == IInv /\ [RecoveryNext]_vars => IInv'
<1>1. ASSUME IInv, RecoveryNext PROVE IInv'
  BY <1>1, MachineStep, SyncStep, HaltStep, ResumeStep, ResumeRefusedStep, ReportedStep DEF RecoveryNext
<1>2. ASSUME IInv, UNCHANGED vars PROVE IInv'
  BY <1>2 DEF vars, machineVars, journalVars, IInv, AlwaysReadable, Stored, Upcoming, Current, Attended, Alive, Memory
<1> QED
  BY <1>1, <1>2

\* It holds of every behaviour.
LEMMA SpecIInv == RecoverySpec => []IInv
BY InitIInv, NextIInv, PTL DEF RecoverySpec

\* What a started execution has published can be read back.
LEMMA InvDurable == IInv => PublishedIsDurable
<1> SUFFICES ASSUME IInv, published.started PROVE PublishedIsDurable
  BY DEF PublishedIsDurable
<1>1. synced # 0
  BY DEF IInv, Stored, Initial
<1>2. PICK k \in Nat \ {0} : synced = 2 * k + 1
  BY <1>1 DEF IInv, Stored
<1>3. /\ IsSequence(disk) /\ Len(disk) \in Nat
      /\ Len(disk) \in {2 * k + 1, 2 * k + 2, 2 * k + 3}
      /\ disk[2 * k].state = published
  <2>1. Len(disk) \in Nat /\ synced <= Len(disk) /\ Len(disk) <= Upcoming + 1
    BY OwnElements DEF IInv, Stored, IsSequence
  <2>2. Upcoming = 2 * k + 2
    BY <1>2 DEF Upcoming
  <2> QED
    BY <1>2, <2>1, <2>2 DEF IInv, Stored
<1>4. disk # <<>> /\ Committed(disk) = (Len(disk) - 1) \div 2
  BY <1>3 DEF Committed
<1>5. k \in {Committed(disk), Committed(disk) - 1}
  BY <1>3, <1>4
<1>6. StateOf(SubSeq(disk, 1, 1 + 2 * k)) = published
  <2> DEFINE kept == SubSeq(disk, 1, 1 + 2 * k)
  <2>1. 1 + 2 * k \in 0..Len(disk) /\ 2 * k \in 1..(1 + 2 * k)
    BY <1>3
  <2>2. Len(kept) = 1 + 2 * k /\ kept[2 * k] = disk[2 * k]
    BY <1>3, <2>1, Beginning
  <2> HIDE DEF kept
  <2>3. kept # <<>>
    BY <2>2
  <2>4. Committed(kept) = k /\ Length(kept) = 1 + 2 * k
    BY <2>2, <2>3 DEF Committed, Length
  <2>5. StateOf(kept) = published
    BY <1>3, <2>2, <2>4 DEF StateOf
  <2> QED
    BY <2>5 DEF kept
<1>7. ASSUME ~writing, mode \in {"resuming", "running"}
      PROVE  StateOf(disk) = published /\ Length(disk) = Len(disk)
  <2>1. Len(disk) = 2 * k + 1
    BY <1>2, <1>7 DEF IInv, Current, Alive
  <2>2. Committed(disk) = k /\ Length(disk) = 2 * k + 1
    BY <1>4, <2>1 DEF Length
  <2> QED
    BY <1>3, <2>1, <2>2 DEF StateOf
<1> QED
  BY <1>5, <1>6, <1>7 DEF PublishedIsDurable

\* The other properties follow at once.
LEMMA InvOthers == IInv => AlwaysReadable /\ StartedOnce /\ NobodyForgotten /\ RefusedOnlyUnstarted
BY DEF IInv, Stored, Current, Attended, Alive, Initial, StartedOnce, NobodyForgotten, RefusedOnlyUnstarted

\* Whatever a halt leaves on the disk, however often the process stops, the
\* reader accepts the journal (trace.ts checkTrace, journal.ts open).
THEOREM JournalReadable == RecoverySpec => []AlwaysReadable
BY SpecIInv, InvOthers, PTL

\* A state that was published is in the journal for good (engine.ts apply:
\* the journal is synced before the state is published).
THEOREM PublishedDurable == RecoverySpec => []PublishedIsDurable
BY SpecIInv, InvDurable, PTL

\* User code of one call is started at most once over all resumes, in every
\* order of operations, halts and losses (engine.ts apply and resume).
THEOREM CodeStartedOnce == RecoverySpec => []StartedOnce
BY SpecIInv, InvOthers, PTL

\* In a running execution the calls that have not ended are those whose user
\* code runs in this process (engine.ts resume reports the others as lost).
THEOREM CodeAttended == RecoverySpec => []NobodyForgotten
BY SpecIInv, InvOthers, PTL

\* Resume refuses an execution only if its start was never published.
THEOREM OnlyUnstartedRefused == RecoverySpec => []RefusedOnlyUnstarted
BY SpecIInv, InvOthers, PTL

-----------------------------------------------------------------------------
(* A step of Calls, between two states *)

IsRunning(s) == s.started /\ s.status = "running"
IsGoing(s) == s.started /\ s.status \in {"running", "stopping"}

SameBesidesCalls(s, t) ==
  t.status = s.status /\ t.started = s.started /\ t.cancelled = s.cancelled /\ t.failed = s.failed

With(s, c, new) == [s.calls EXCEPT ![c].status = new]

FailsTo(s, t, table) ==
  /\ t.failed = TRUE
  /\ \/ t.calls = table /\ t.status = s.status
     \/ t.calls = CancelLive(table) /\ t.status = "stopping"
  /\ t.started = s.started /\ t.cancelled = s.cancelled

Starts(s, t) ==
  /\ ~s.started /\ t.started = TRUE
  /\ t.status = s.status /\ t.cancelled = s.cancelled /\ t.failed = s.failed /\ t.calls = s.calls

Creates(s, t, c, stream) ==
  /\ IsRunning(s) /\ c \notin DOMAIN s.calls
  /\ t.calls = [k \in DOMAIN s.calls \cup {c} |->
       IF k = c THEN [stream |-> stream, status |-> "running", yields |-> 0] ELSE s.calls[k]]
  /\ SameBesidesCalls(s, t)

Ends(s, t, c) ==
  /\ IsGoing(s) /\ s.calls[c].status = "cancelling"
  /\ t.calls = With(s, c, "cancelled")
  /\ SameBesidesCalls(s, t)

Answers(s, t, c) ==
  LET old == s.calls[c] IN
  /\ IsRunning(s)
  /\ \/ old.stream /\ old.status = "running" /\ t.calls = With(s, c, "fetching")
     \/ /\ old.stream /\ old.status = "fetching"
        /\ t.calls = [s.calls EXCEPT ![c] = [stream |-> TRUE, status |-> "running", yields |-> @.yields + 1]]
     \/ old.status = (IF old.stream THEN "fetching" ELSE "running") /\ t.calls = With(s, c, "returned")
  /\ SameBesidesCalls(s, t)

Fails(s, t, c) ==
  \/ IsRunning(s) /\ s.calls[c].status \in Live /\ FailsTo(s, t, With(s, c, "failed"))
  \/ IsRunning(s) /\ s.calls[c].status \in Live /\ FailsTo(s, t, With(s, c, "cancelling"))
  \/ IsGoing(s) /\ s.calls[c].status \in Live /\ FailsTo(s, t, With(s, c, "lost"))

Cancels(s, t) ==
  /\ IsGoing(s) /\ t.status = "stopping" /\ t.cancelled = TRUE
  /\ t.calls = CancelLive(s.calls)
  /\ t.started = s.started /\ t.failed = s.failed

Concludes(s, t) ==
  /\ IsGoing(s)
  /\ \A c \in DOMAIN s.calls : s.calls[c].status \notin Unended
  /\ t.status \in (IF s.failed THEN {"failed"}
                   ELSE IF s.status = "stopping" THEN {"cancelled"} ELSE {"succeeded", "skipped"})
  /\ t.started = s.started /\ t.cancelled = s.cancelled /\ t.failed = s.failed /\ t.calls = s.calls

Leads(s, t) ==
  \/ Starts(s, t)
  \/ \E c \in DOMAIN t.calls : Creates(s, t, c, t.calls[c].stream)
  \/ \E c \in DOMAIN s.calls : Answers(s, t, c) \/ Fails(s, t, c) \/ Ends(s, t, c)
  \/ IsRunning(s) /\ FailsTo(s, t, s.calls)
  \/ Cancels(s, t)
  \/ Concludes(s, t)

-----------------------------------------------------------------------------
(* The invariant *)

\* One step of the calls leads to the state that is on its way.
Linked == Len(disk) >= Upcoming => Leads(published, disk[Upcoming].state)

Inv == IInv /\ Linked

-----------------------------------------------------------------------------
(* Steps of variables and steps of data *)

\* An operation leads from the memory before it to the memory after it.
LEMMA OperationLeads ==
  ASSUME \/ Start
         \/ \E c \in DOMAIN calls' : Create(c, calls'[c].stream)
         \/ \E c \in DOMAIN calls : Fetch(c) \/ Yield(c) \/ Return(c) \/ FailCall(c) \/ TimeOut(c, FALSE) \/ Lose(c)
         \/ FailTransform \/ Cancel \/ Conclude
  PROVE  Leads(Memory, Memory')
<1> USE DEF Memory, IsRunning, IsGoing, SameBesidesCalls, With, FailsTo, Running, Going, SetStatus, Fail
<1>1. CASE Start
  BY <1>1 DEF Start, Starts, Leads
<1>2. CASE \E c \in DOMAIN calls' : Create(c, calls'[c].stream)
  <2>1. PICK c \in DOMAIN calls' : Create(c, calls'[c].stream)
    BY <1>2
  <2>2. Creates(Memory, Memory', c, calls'[c].stream)
    BY <2>1 DEF Create, Creates
  <2> QED
    BY <2>1, <2>2 DEF Leads
<1>3. CASE \E c \in DOMAIN calls : Fetch(c) \/ Yield(c) \/ Return(c) \/ FailCall(c) \/ TimeOut(c, FALSE) \/ Lose(c)
  <2>1. PICK c \in DOMAIN calls : Fetch(c) \/ Yield(c) \/ Return(c) \/ FailCall(c) \/ TimeOut(c, FALSE) \/ Lose(c)
    BY <1>3
  <2>2. CASE Fetch(c) \/ Yield(c) \/ Return(c)
    <3>1. Answers(Memory, Memory', c)
      BY <2>2 DEF Fetch, Yield, Return, Answers
    <3> QED
      BY <3>1 DEF Leads
  <2>3. CASE FailCall(c) \/ TimeOut(c, FALSE) \/ (Going /\ calls[c].status \in Live /\ Fail(SetStatus(c, "lost")))
    <3>1. Fails(Memory, Memory', c)
      BY <2>3 DEF FailCall, TimeOut, Fails
    <3> QED
      BY <3>1 DEF Leads
  <2>4. CASE Terminate(c)
    <3>1. Ends(Memory, Memory', c)
      BY <2>4 DEF Terminate, Ends
    <3> QED
      BY <3>1 DEF Leads
  <2> QED
    BY <2>1, <2>2, <2>3, <2>4 DEF Lose
<1>4. CASE FailTransform
  BY <1>4 DEF FailTransform, Leads
<1>5. CASE Cancel
  BY <1>5 DEF Cancel, Cancels, Leads
<1>6. CASE Conclude
  BY <1>6 DEF Conclude, Concludes, Quiet, Leads
<1> QED
  BY <1>1, <1>2, <1>3, <1>4, <1>5, <1>6

\* What is published by a step of data is a step of the abstract execution.
LEMMA LeadsToStep ==
  ASSUME Leads(published, published')
  PROVE  Unbroken!Next
<1> USE DEF IsRunning, IsGoing, SameBesidesCalls, With, FailsTo, CancelLive, Live, Unended,
            Unbroken!Running, Unbroken!Going, Unbroken!SetStatus, Unbroken!Fail, Unbroken!CancelLive,
            Unbroken!Live, Unbroken!Unended
<1>1. CASE Starts(published, published')
  BY <1>1 DEF Starts, Unbroken!Start, Unbroken!Next
<1>2. CASE \E c \in DOMAIN published'.calls : Creates(published, published', c, published'.calls[c].stream)
  <2>1. PICK c \in DOMAIN published'.calls : Creates(published, published', c, published'.calls[c].stream)
    BY <1>2
  <2>2. Unbroken!Create(c, published'.calls[c].stream)
    BY <2>1 DEF Creates, Unbroken!Create
  <2> QED
    BY <2>1, <2>2 DEF Unbroken!Next
<1>3. CASE \E c \in DOMAIN published.calls :
             Answers(published, published', c) \/ Fails(published, published', c) \/ Ends(published, published', c)
  <2>1. PICK c \in DOMAIN published.calls :
             Answers(published, published', c) \/ Fails(published, published', c) \/ Ends(published, published', c)
    BY <1>3
  <2>2. CASE Answers(published, published', c)
    <3>1. Unbroken!Fetch(c) \/ Unbroken!Yield(c) \/ Unbroken!Return(c)
      BY <2>2 DEF Answers, Unbroken!Fetch, Unbroken!Yield, Unbroken!Return
    <3> QED
      BY <3>1 DEF Unbroken!CallStep, Unbroken!Next
  <2>3. CASE Fails(published, published', c)
    <3>1. Unbroken!FailCall(c) \/ Unbroken!TimeOut(c, FALSE) \/ Unbroken!Lose(c)
      BY <2>3 DEF Fails, Unbroken!FailCall, Unbroken!TimeOut, Unbroken!Lose
    <3> QED
      BY <3>1 DEF Unbroken!CallStep, Unbroken!Next
  <2>4. CASE Ends(published, published', c)
    <3>1. Unbroken!Lose(c)
      BY <2>4 DEF Ends, Unbroken!Terminate, Unbroken!Lose
    <3> QED
      BY <3>1 DEF Unbroken!CallStep, Unbroken!Next
  <2> QED
    BY <2>1, <2>2, <2>3, <2>4
<1>4. CASE IsRunning(published) /\ FailsTo(published, published', published.calls)
  BY <1>4 DEF Unbroken!FailTransform, Unbroken!Next
<1>5. CASE Cancels(published, published')
  BY <1>5 DEF Cancels, Unbroken!Cancel, Unbroken!Next
<1>6. CASE Concludes(published, published')
  BY <1>6 DEF Concludes, Unbroken!Conclude, Unbroken!Quiet, Unbroken!Next
<1> QED
  BY <1>1, <1>2, <1>3, <1>4, <1>5, <1>6 DEF Leads

\* A new call is created as what it is from then on.
LEMMA CreatedAs ==
  ASSUME NEW c, NEW stream, Create(c, stream)
  PROVE  c \in DOMAIN calls' /\ Create(c, calls'[c].stream)
<1>1. /\ c \in DOMAIN calls'
      /\ calls'[c] = [stream |-> stream, status |-> "running", yields |-> 0]
  BY DEF Create
<1>2. calls'[c].stream = stream
  BY <1>1
<1> QED
  BY <1>1, <1>2

-----------------------------------------------------------------------------
(* The invariant is inductive *)

\* The state that is written is one step from the one that is published.
LEMMA WriteLinks ==
  ASSUME IInv, IInv', Alive, ~writing, Write, Leads(Memory, Memory')
  PROVE  Linked'
<1>1. published = Memory
  BY DEF IInv, Current
<1>2. writing' /\ published' = published
  BY DEF Write
<1>3. disk'[Upcoming'].state = Memory'
  BY <1>2 DEF IInv, Current
<1> QED
  BY <1>1, <1>2, <1>3 DEF Linked

\* So every operation, and every report of a lost call, keeps the link.
LEMMA MachineLinks ==
  ASSUME IInv, IInv', Begin \/ Operate \/ ReportLost
  PROVE  Linked'
<1>1. CASE Begin
  <2>1. Alive /\ ~writing /\ Write /\ Start
    BY <1>1 DEF Begin, CanWrite, Alive
  <2> QED
    BY <2>1, OperationLeads, WriteLinks
<1>2. CASE Operate
  <2>1. Alive /\ ~writing /\ Write /\ mode = "running"
    BY <1>2 DEF Operate, CanWrite, Alive
  <2>2. code \subseteq DOMAIN calls
    BY <2>1 DEF IInv, Attended, Current, UnendedOf, Memory
  <2>3. CASE \E c \in DOMAIN Kind : Create(c, Kind[c] = "stream")
    <3>1. \E c \in DOMAIN calls' : Create(c, calls'[c].stream)
      BY <2>3, CreatedAs
    <3> QED
      BY <2>1, <3>1, OperationLeads, WriteLinks
  <2>4. CASE \/ \E c \in DOMAIN calls : Fetch(c) \/ TimeOut(c, FALSE)
             \/ \E c \in code : Yield(c) \/ Return(c) \/ FailCall(c) \/ Terminate(c)
    <3>1. \E c \in DOMAIN calls : Fetch(c) \/ Yield(c) \/ Return(c) \/ FailCall(c) \/ TimeOut(c, FALSE) \/ Lose(c)
      BY <2>2, <2>4 DEF Lose
    <3> QED
      BY <2>1, <3>1, OperationLeads, WriteLinks
  <2>5. CASE FailTransform \/ Cancel \/ Conclude
    BY <2>1, <2>5, OperationLeads, WriteLinks
  <2> QED
    BY <1>2, <2>3, <2>4, <2>5 DEF Operate
<1>3. CASE ReportLost
  <2>1. Alive /\ ~writing /\ Write /\ lost \subseteq DOMAIN calls
    BY <1>3 DEF ReportLost, CanWrite, Alive, IInv, Attended
  <2>2. CASE \E c \in lost : Lose(c)
    BY <2>1, <2>2, OperationLeads, WriteLinks
  <2>3. CASE Cancel
    BY <2>1, <2>3, OperationLeads, WriteLinks
  <2> QED
    BY <1>3, <2>2, <2>3 DEF ReportLost
<1> QED
  BY <1>1, <1>2, <1>3

\* The line of the next operation is beyond those that are synced.
LEMMA Beyond ==
  ASSUME NEW n \in Nat, NEW line, line = IF n = 0 THEN 2 ELSE n + 1
  PROVE  ~(n >= line)
OBVIOUS

\* Where nothing is on its way there is nothing to link.
LEMMA SyncedLinks ==
  ASSUME IInv, Len(disk) = synced
  PROVE  Linked
<1>1. synced \in Nat
  BY DEF IInv, Stored
<1>2. ~(Len(disk) >= Upcoming)
  BY <1>1 DEF Upcoming
<1> QED
  BY <1>2 DEF Linked

\* A halt leaves the line as it is or removes it.
LEMMA HaltLinks ==
  ASSUME Inv, Halt
  PROVE  Linked'
<1>1. PICK m \in synced..Len(disk) : disk' = SubSeq(disk, 1, m)
  BY DEF Halt
<1>2. UNCHANGED <<synced, published>>
  BY DEF Halt
<1>3. synced \in Nat /\ Upcoming \in Nat \ {0} /\ Upcoming' = Upcoming
  BY <1>2 DEF Inv, IInv, Stored, Upcoming
<1>4. IsSequence(disk) /\ Len(disk) \in Nat
  BY OwnElements DEF Inv, IInv, Stored, IsSequence
<1>5. m \in 0..Len(disk)
  BY <1>3, <1>4
<1>6. Len(disk') = m /\ \A n \in 1..m : disk'[n] = disk[n]
  BY <1>1, <1>4, <1>5, Beginning
<1>7. m >= Upcoming => Upcoming \in 1..m /\ Len(disk) >= Upcoming
  BY <1>3, <1>4, <1>5
<1> QED
  BY <1>2, <1>3, <1>6, <1>7 DEF Inv, Linked

\* What resuming finds is what was published or what was on its way to be.
LEMMA FoundEither ==
  ASSUME IInv, Committed(disk) > 0
  PROVE  \/ StateOf(disk) = published
         \/ Len(disk) >= Upcoming /\ StateOf(disk) = disk[Upcoming].state
<1>1. Len(disk) \in Nat /\ synced <= Len(disk) /\ Len(disk) <= Upcoming + 1
  BY OwnElements DEF IInv, Stored, IsSequence
<1>2. disk # <<>>
  BY DEF Committed
<1>3. /\ Length(disk) = 2 * Committed(disk) + 1
      /\ Length(disk) >= synced /\ Length(disk) \in 0..Len(disk)
      /\ Committed(disk) \in Nat \ {0}
      /\ StateOf(disk) = disk[Length(disk) - 1].state
  BY Found
<1>4. CASE synced = 0
  <2>1. Upcoming = 2
    BY <1>4 DEF Upcoming
  <2>2. Committed(disk) = 1
    BY <1>1, <1>3, <2>1
  <2> QED
    BY <1>1, <1>3, <2>1, <2>2
<1>5. CASE synced # 0
  <2>1. PICK k \in Nat \ {0} : synced = 2 * k + 1
    BY <1>5 DEF IInv, Stored
  <2>2. Upcoming = 2 * k + 2
    BY <1>5, <2>1 DEF Upcoming
  <2>3. Committed(disk) = k \/ Committed(disk) = k + 1
    BY <1>1, <1>3, <2>1, <2>2
  <2>4. CASE Committed(disk) = k
    <3>1. Length(disk) = synced
      BY <1>3, <2>1, <2>4
    <3> QED
      BY <1>3, <1>5, <2>1, <3>1 DEF IInv, Stored
  <2>5. CASE Committed(disk) = k + 1
    <3>1. Length(disk) - 1 = Upcoming /\ Len(disk) >= Upcoming
      BY <1>1, <1>3, <2>2, <2>5
    <3> QED
      BY <1>3, <3>1
  <2> QED
    BY <2>3, <2>4, <2>5
<1> QED
  BY <1>4, <1>5

\* Every step keeps the invariant.
LEMMA NextInv == Inv /\ [RecoveryNext]_vars => Inv'
<1> SUFFICES ASSUME Inv, [RecoveryNext]_vars PROVE Inv'
  OBVIOUS
<1>1. IInv'
  BY NextIInv DEF Inv
<1>2. CASE Begin \/ Operate \/ ReportLost
  BY <1>1, <1>2, MachineLinks DEF Inv
<1>3. CASE Sync
  <2>1. Len(disk') = synced'
    BY <1>3 DEF Sync, Durable
  <2>2. IInv' => Linked'
    <3>1. synced' \in Nat
      BY <1>1 DEF IInv, Stored
    <3>2. Upcoming' = IF synced' = 0 THEN 2 ELSE synced' + 1
      BY DEF Upcoming
    <3>3. ~(Len(disk') >= Upcoming')
      BY <2>1, <3>1, <3>2, Beyond
    <3> QED
      BY <3>3 DEF Linked
  <2> QED
    BY <1>1, <2>2 DEF Inv
<1>4. CASE Halt
  BY <1>1, <1>4, HaltLinks DEF Inv
<1>5. CASE Resume
  <2>1. Committed(disk) > 0 /\ disk' = SubSeq(disk, 1, Length(disk)) /\ synced' = Length(disk)
    BY <1>5 DEF Resume, Truncate
  <2>2. IsSequence(disk) /\ Length(disk) \in 0..Len(disk)
    BY <2>1, Found DEF Inv, IInv, Stored
  <2>3. Len(disk') = synced' /\ synced' \in Nat
    BY <2>1, <2>2, Beginning
  <2>4. Upcoming' = IF synced' = 0 THEN 2 ELSE synced' + 1
    BY DEF Upcoming
  <2>5. ~(Len(disk') >= Upcoming')
    BY <2>3, <2>4, Beyond
  <2> QED
    BY <1>1, <2>5 DEF Inv, Linked
<1>6. CASE ResumeRefused \/ Reported \/ UNCHANGED vars
  <2>1. UNCHANGED <<disk, synced, published>>
    BY <1>6 DEF ResumeRefused, Reported, vars, journalVars
  <2> QED
    BY <1>1, <2>1 DEF Inv, Linked, Upcoming
<1> QED
  BY <1>2, <1>3, <1>4, <1>5, <1>6 DEF RecoveryNext

\* It holds of every behaviour.
LEMMA SpecInv == RecoverySpec => []Inv
<1>1. RecoveryInit => Inv
  <2> SUFFICES ASSUME RecoveryInit PROVE Inv
    OBVIOUS
  <2>1. IInv
    BY InitIInv
  <2>2. Len(disk) = synced
    BY DEF RecoveryInit
  <2> QED
    BY <2>1, <2>2, SyncedLinks DEF Inv
<1> QED
  BY <1>1, NextInv, PTL DEF RecoverySpec

-----------------------------------------------------------------------------
(* The refinement *)

\* A state is published by syncing or by resuming; both are one step or none.
LEMMA StepRefines ==
  ASSUME Inv, [RecoveryNext]_vars
  PROVE  [Unbroken!Next]_(Unbroken!machineVars)
<1>1. ASSUME published' = published PROVE UNCHANGED Unbroken!machineVars
  BY <1>1 DEF Unbroken!machineVars
<1>2. CASE Sync
  <2>1. published' = Memory /\ writing
    BY <1>2 DEF Sync, Publish
  <2>2. Len(disk) = Upcoming + 1 /\ disk[Upcoming].state = Memory /\ Upcoming \in Nat
    BY <2>1 DEF Inv, IInv, Current, Stored, Upcoming
  <2>3. Leads(published, published')
    BY <2>1, <2>2 DEF Inv, Linked
  <2> QED
    BY <2>3, LeadsToStep
<1>3. CASE Resume
  <2>1. published' = StateOf(disk) /\ Committed(disk) > 0
    BY <1>3 DEF Resume
  <2>2. published' = published \/ Leads(published, published')
    BY <2>1, FoundEither DEF Inv, Linked
  <2> QED
    BY <1>1, <2>2, LeadsToStep
<1>4. CASE Begin \/ Operate \/ Halt \/ ResumeRefused \/ ReportLost \/ Reported \/ UNCHANGED vars
  BY <1>1, <1>4 DEF Begin, Operate, Halt, ResumeRefused, ReportLost, Reported, Write, vars, journalVars
<1> QED
  BY <1>2, <1>3, <1>4 DEF RecoveryNext

\* The states published before and after halts are those of one execution
\* that never halted, for any calls and elements and any number of halts
\* (engine.ts apply and resume, trace.ts checkTrace).
THEOREM HaltsLeaveNoTrace == RecoverySpec => HaltsAreInvisible
<1>1. RecoveryInit => Unbroken!Init
  BY DEF RecoveryInit, Initial, Unbroken!Init
<1> QED
  BY <1>1, StepRefines, SpecInv, PTL DEF RecoverySpec, HaltsAreInvisible, Unbroken!Spec
=============================================================================
