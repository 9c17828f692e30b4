------------------------- MODULE DevConsoleProofs -------------------------
(***************************************************************************)
(* Proofs about DevConsole, for any set of admins, ranks and players.      *)
(***************************************************************************)
EXTENDS DevConsole, TLAPS

(***************************************************************************)
(* The inductive invariant.  A request that met no other on what it changes*)
(* knows what is there: its own file under the temporary name, and its own *)
(* change in the table.  A save under way since no other took effect knows *)
(* the limits in force.                                                    *)
(***************************************************************************)

Saving == {"open", "write", "rename", "swap"}

\* What a request changes follows from where it is, and only a writer has a file open.
Busy ==
  \A a \in Admins :
    /\ pc[a] = "idle" <=> on[a] = None
    /\ pc[a] \in Saving <=> on[a] = RankFile
    /\ pc[a] \in {"add", "remove"} <=> on[a] \in Players
    /\ fd[a] # "none" => pc[a] = "write"

\* Two requests on the same thing know of each other, and leave it mixed.
Apart == \A a, b \in Admins : a # b /\ on[a] = on[b] /\ on[a] # None => a \in crossed
CrossedMixed == \A a \in crossed : on[a] \in mixed

\* A save that met no other.
SoloSave ==
  \A a \in Admins \ crossed :
    /\ pc[a] = "write" => fd[a] = "tmp" /\ tmp = Empty
    /\ pc[a] = "rename" => tmp = next[a]
    /\ pc[a] = "swap" => file = next[a]

\* A DELETE is the copy without the rank, until another save takes effect.
Copied ==
  \A a \in Admins \ stale :
    pc[a] \in Saving /\ cut[a] # NoRank => next[a] = [RankLimits EXCEPT ![cut[a]] = "absent"]

\* What a DELETE saves never has the rank.
Cut == \A a \in Admins : pc[a] \in Saving /\ cut[a] # NoRank => next[a][cut[a]] = "absent"

\* A block or an unblock that met no other.
SoloBlock ==
  \A a \in Admins \ crossed :
    /\ pc[a] = "add" => on[a] \in table
    /\ pc[a] = "remove" => on[a] \notin table

IInv == TypeOK /\ Busy /\ Apart /\ CrossedMixed /\ SoloSave /\ Copied /\ Cut /\ SoloBlock /\ SaveAtomic /\ BlocksAgree

\* The text of a file means limits, and those of a rank file are taken as they are.
LEMMA LimitsTyped ==
  /\ NoLimits \in Limits
  /\ \A f : Parsed(f) \in Limits
  /\ \A l \in Limits : Parsed(l) = l /\ LimitsFor(l) \in Limits
  BY DEF NoLimits, Limits, Parsed, LimitsFor

\* A server starts with nobody at the console and the copies in agreement.
LEMMA InitIInv == Init => IInv
<1> SUFFICES ASSUME Init PROVE IInv OBVIOUS
<1>1. TypeOK
  BY LimitsTyped, ConsoleAssumption DEF Init, TypeOK, Contents
<1>2. Busy /\ Apart /\ CrossedMixed /\ SoloSave /\ Copied /\ Cut /\ SoloBlock
  BY ConsoleAssumption DEF Init, Busy, Apart, CrossedMixed, SoloSave, Copied, Cut, SoloBlock, Saving, None, RankFile
<1>3. SaveAtomic /\ BlocksAgree
  <2>1. Parsed(limits) = limits /\ limits = Parsed(file)
    BY LimitsTyped DEF Init
  <2>2. QED
    BY <2>1 DEF Init, SaveAtomic, BlocksAgree
<1>4. QED
  BY <1>1, <1>2, <1>3 DEF IInv

\* Every step keeps the types.
LEMMA NextTypeOK == TypeOK /\ Busy /\ [Next]_vars => TypeOK'
<1> SUFFICES ASSUME TypeOK, Busy, [Next]_vars PROVE TypeOK' OBVIOUS
<1> USE ConsoleAssumption, LimitsTyped DEF TypeOK, ranks, blocks, seen
<1>1. CASE Restart
  BY <1>1 DEF Restart
<1>2. ASSUME NEW a \in Admins, Login(a) \/ EndSession(a) PROVE TypeOK'
  BY <1>2 DEF Login, EndSession
<1>3. ASSUME NEW a \in Admins, Put(a) PROVE TypeOK'
  BY <1>3 DEF Put, BeginSave, Begin
<1>4. ASSUME NEW a \in Admins, Delete(a) PROVE TypeOK'
  <2>1. PICK r \in Ranks : BeginSave(a, [RankLimits EXCEPT ![r] = "absent"], r)
    BY <1>4 DEF Delete
  <2>2. [RankLimits EXCEPT ![r] = "absent"] \in Limits
    BY DEF RankLimits, Limits
  <2>3. QED
    BY <2>1, <2>2 DEF BeginSave, Begin
<1>5. ASSUME NEW a \in Admins, Open(a) PROVE TypeOK'
  BY <1>5 DEF Open, Step, Contents
<1>6. ASSUME NEW a \in Admins, Write(a) PROVE TypeOK'
  <2>1. file' \in Contents /\ tmp' \in Contents
    BY <1>6 DEF Write, Fill, Written, Contents
  <2>2. QED
    BY <1>6, <2>1 DEF Write, Step
<1>7. ASSUME NEW a \in Admins, WriteFails(a) PROVE TypeOK'
  <2>1. file' \in Contents /\ tmp' \in Contents
    BY <1>7 DEF WriteFails, Fill, Contents
  <2>2. QED
    BY <1>7, <2>1 DEF WriteFails, FinishSave, Finish
<1>8. ASSUME NEW a \in Admins, Rename(a) PROVE TypeOK'
  BY <1>8 DEF Rename, Step, Contents
<1>9. ASSUME NEW a \in Admins, RenameFails(a) \/ Swap(a) PROVE TypeOK'
  BY <1>9 DEF RenameFails, Swap, FinishSave, Finish
<1>10. ASSUME NEW a \in Admins, Mirror(a) PROVE TypeOK'
  BY <1>10 DEF Mirror, Finish, Busy
<1>11. ASSUME NEW a \in Admins, NEW p \in Players, Block(a, p) \/ Unblock(a, p) PROVE TypeOK'
  BY <1>11 DEF Block, Unblock, Begin
<1>12. CASE UNCHANGED vars
  BY <1>12 DEF vars
<1>13. QED
  BY <1>1, <1>2, <1>3, <1>4, <1>5, <1>6, <1>7, <1>8, <1>9, <1>10, <1>11, <1>12 DEF Next

\* Every step keeps what is known of who is busy with what.
LEMMA NextBusy == TypeOK /\ Busy /\ [Next]_vars => Busy'
<1> SUFFICES ASSUME TypeOK, Busy, [Next]_vars PROVE Busy' OBVIOUS
<1> USE ConsoleAssumption DEF TypeOK, Busy, Saving, None, RankFile, ranks, blocks, seen
<1>1. CASE Restart
  BY <1>1 DEF Restart
<1>2. ASSUME NEW a \in Admins, Login(a) \/ EndSession(a) PROVE Busy'
  BY <1>2 DEF Login, EndSession
<1>3. ASSUME NEW a \in Admins, Put(a) \/ Delete(a) PROVE Busy'
  BY <1>3 DEF Put, Delete, BeginSave, Begin
<1>4. ASSUME NEW a \in Admins, Open(a) PROVE Busy'
  BY <1>4 DEF Open, Step
<1>5. ASSUME NEW a \in Admins, Write(a) PROVE Busy'
  BY <1>5 DEF Write, Step
<1>6. ASSUME NEW a \in Admins, WriteFails(a) PROVE Busy'
  BY <1>6 DEF WriteFails, FinishSave, Finish
<1>7. ASSUME NEW a \in Admins, Rename(a) PROVE Busy'
  BY <1>7 DEF Rename, Step
<1>8. ASSUME NEW a \in Admins, RenameFails(a) \/ Swap(a) PROVE Busy'
  BY <1>8 DEF RenameFails, Swap, FinishSave, Finish
<1>9. ASSUME NEW a \in Admins, Mirror(a) PROVE Busy'
  BY <1>9 DEF Mirror, Finish
<1>10. ASSUME NEW a \in Admins, NEW p \in Players, Block(a, p) \/ Unblock(a, p) PROVE Busy'
  BY <1>10 DEF Block, Unblock, Begin
<1>11. CASE UNCHANGED vars
  BY <1>11 DEF vars
<1>12. QED
  BY <1>1, <1>2, <1>3, <1>4, <1>5, <1>6, <1>7, <1>8, <1>9, <1>10, <1>11 DEF Next

\* A request that begins makes itself and the others on its thing known as crossed.
LEMMA BeginApart ==
  ASSUME TypeOK, Busy, Apart, CrossedMixed,
         NEW a \in Admins, NEW thing \in {RankFile} \cup Players, Begin(a, thing)
  PROVE  Apart' /\ CrossedMixed'
<1> USE ConsoleAssumption DEF TypeOK, Busy, Apart, CrossedMixed, Begin, None, RankFile
<1>1. Apart'
  OBVIOUS
<1>2. CrossedMixed'
  OBVIOUS
<1>3. QED
  BY <1>1, <1>2

\* A request that ends leaves its thing to the others, who stay crossed.
LEMMA FinishApart ==
  ASSUME TypeOK, Busy, Apart, CrossedMixed, NEW a \in Admins, NEW done \in BOOLEAN, pc[a] # "idle", Finish(a, done)
  PROVE  Apart' /\ CrossedMixed'
  BY ConsoleAssumption DEF TypeOK, Busy, Apart, CrossedMixed, Finish

\* Every step keeps the requests apart.
LEMMA NextApart == IInv /\ [Next]_vars => Apart' /\ CrossedMixed'
<1> SUFFICES ASSUME IInv, [Next]_vars PROVE Apart' /\ CrossedMixed' OBVIOUS
<1> USE DEF IInv, ranks, blocks, seen
<1>1. CASE Restart
  BY <1>1 DEF Restart, Apart, CrossedMixed
<1>2. ASSUME NEW a \in Admins, Put(a) \/ Delete(a) PROVE Apart' /\ CrossedMixed'
  BY <1>2, BeginApart DEF Put, Delete, BeginSave
<1>3. ASSUME NEW a \in Admins, NEW p \in Players, Block(a, p) \/ Unblock(a, p) PROVE Apart' /\ CrossedMixed'
  BY <1>3, BeginApart DEF Block, Unblock
<1>4. ASSUME NEW a \in Admins, WriteFails(a) \/ RenameFails(a) \/ Swap(a) PROVE Apart' /\ CrossedMixed'
  BY <1>4, FinishApart DEF WriteFails, RenameFails, Swap, FinishSave
<1>5. ASSUME NEW a \in Admins, Mirror(a) PROVE Apart' /\ CrossedMixed'
  BY <1>5, FinishApart DEF Mirror
<1>6. ASSUME NEW a \in Admins, Login(a) \/ EndSession(a) \/ Open(a) \/ Write(a) \/ Rename(a)
      PROVE  Apart' /\ CrossedMixed'
  BY <1>6 DEF Login, EndSession, Open, Write, Rename, Step, Apart, CrossedMixed
<1>7. CASE UNCHANGED vars
  BY <1>7 DEF vars, Apart, CrossedMixed
<1>8. QED
  BY <1>1, <1>2, <1>3, <1>4, <1>5, <1>6, <1>7 DEF Next

\* A request that met no other has its thing to itself.
LEMMA Alone ==
  ASSUME Busy, Apart, NEW a \in Admins \ crossed, pc[a] # "idle", NEW b \in Admins \ {a}
  PROVE  on[b] # on[a]
  BY DEF Busy, Apart

\* Every step keeps what a save that met no other knows.
LEMMA NextSoloSave == IInv /\ [Next]_vars => SoloSave'
<1> SUFFICES ASSUME IInv, [Next]_vars PROVE SoloSave' OBVIOUS
<1> USE ConsoleAssumption DEF IInv, TypeOK, Busy, SoloSave, Saving, None, RankFile, ranks, blocks, seen
<1>1. CASE Restart
  BY <1>1 DEF Restart
<1>2. ASSUME NEW a \in Admins, Login(a) \/ EndSession(a) PROVE SoloSave'
  BY <1>2 DEF Login, EndSession
<1>3. ASSUME NEW a \in Admins, Put(a) \/ Delete(a) PROVE SoloSave'
  BY <1>3 DEF Put, Delete, BeginSave, Begin
<1>4. ASSUME NEW a \in Admins, Open(a) PROVE SoloSave'
  BY <1>4, Alone DEF Open, Step
<1>5. ASSUME NEW a \in Admins, Write(a) PROVE SoloSave'
  BY <1>5, Alone DEF Write, Step, Fill, Written
<1>6. ASSUME NEW a \in Admins, WriteFails(a) PROVE SoloSave'
  BY <1>6, Alone DEF WriteFails, Fill, FinishSave, Finish
<1>7. ASSUME NEW a \in Admins, Rename(a) PROVE SoloSave'
  BY <1>7, Alone DEF Rename, Step
<1>8. ASSUME NEW a \in Admins, RenameFails(a) \/ Swap(a) PROVE SoloSave'
  BY <1>8, Alone DEF RenameFails, Swap, FinishSave, Finish
<1>9. ASSUME NEW a \in Admins, Mirror(a) PROVE SoloSave'
  BY <1>9 DEF Mirror, Finish
<1>10. ASSUME NEW a \in Admins, NEW p \in Players, Block(a, p) \/ Unblock(a, p) PROVE SoloSave'
  BY <1>10 DEF Block, Unblock, Begin
<1>11. CASE UNCHANGED vars
  BY <1>11 DEF vars
<1>12. QED
  BY <1>1, <1>2, <1>3, <1>4, <1>5, <1>6, <1>7, <1>8, <1>9, <1>10, <1>11 DEF Next

\* Every step keeps the copies that are not stale: one save takes effect, and the others
\* under way are stale from then on.
LEMMA NextCopied == IInv /\ [Next]_vars => Copied'
<1> SUFFICES ASSUME IInv, [Next]_vars PROVE Copied' OBVIOUS
<1> USE DEF IInv, TypeOK, Busy, Copied, Saving, ranks, blocks, seen
<1>1. CASE Restart
  BY <1>1 DEF Restart
<1>2. ASSUME NEW a \in Admins, Login(a) \/ EndSession(a) PROVE Copied'
  BY <1>2 DEF Login, EndSession, RankLimits
<1>3. ASSUME NEW a \in Admins, Put(a) PROVE Copied'
  BY <1>3 DEF Put, BeginSave, Begin, RankLimits
<1>4. ASSUME NEW a \in Admins, Delete(a) PROVE Copied'
  <2> DEFINE Without(r) == [RankLimits EXCEPT ![r] = "absent"]
  <2>1. PICK r \in Ranks : BeginSave(a, Without(r), r)
    BY <1>4 DEF Delete
  <2>2. RankLimits' = RankLimits
    BY <2>1 DEF BeginSave, RankLimits
  <2>3. next' = [next EXCEPT ![a] = Without(r)] /\ cut' = [cut EXCEPT ![a] = r]
    BY <2>1 DEF BeginSave
  <2>4. pc' = [pc EXCEPT ![a] = "open"] /\ stale' = stale
    BY <2>1 DEF BeginSave, Begin
  <2> HIDE DEF Without
  <2>5. next'[a] = Without(cut'[a])
    BY <2>3
  <2>6. ASSUME NEW b \in Admins \ stale', pc'[b] \in Saving, cut'[b] # NoRank PROVE next'[b] = Without(cut'[b])
    <3>1. CASE b = a
      BY <2>5, <3>1
    <3>2. CASE b # a
      BY <2>3, <2>4, <2>6, <3>2 DEF Without
    <3>3. QED
      BY <3>1, <3>2
  <2>7. QED
    BY <2>2, <2>6 DEF Without
<1>5. ASSUME NEW a \in Admins, Open(a) \/ Write(a) \/ Rename(a) PROVE Copied'
  BY <1>5 DEF Open, Write, Rename, Step, RankLimits
<1>6. ASSUME NEW a \in Admins, WriteFails(a) \/ RenameFails(a) PROVE Copied'
  BY <1>6 DEF WriteFails, RenameFails, FinishSave, Finish, RankLimits
<1>7. ASSUME NEW a \in Admins, Swap(a) PROVE Copied'
  BY <1>7 DEF Swap, FinishSave, Finish
<1>8. ASSUME NEW a \in Admins, Mirror(a) PROVE Copied'
  BY <1>8 DEF Mirror, Finish, RankLimits
<1>9. ASSUME NEW a \in Admins, NEW p \in Players, Block(a, p) \/ Unblock(a, p) PROVE Copied'
  BY <1>9, ConsoleAssumption DEF Block, Unblock, Begin, RankLimits
<1>10. CASE UNCHANGED vars
  BY <1>10 DEF vars, RankLimits
<1>11. QED
  BY <1>1, <1>2, <1>3, <1>4, <1>5, <1>6, <1>7, <1>8, <1>9, <1>10 DEF Next

\* Every step keeps the deleted ranks out of what is saved.
LEMMA NextCut == IInv /\ [Next]_vars => Cut'
<1> SUFFICES ASSUME IInv, [Next]_vars PROVE Cut' OBVIOUS
<1> USE DEF IInv, TypeOK, Cut, Saving, ranks
<1>1. CASE Restart
  BY <1>1 DEF Restart
<1>2. ASSUME NEW a \in Admins, Login(a) \/ EndSession(a) PROVE Cut'
  BY <1>2 DEF Login, EndSession
<1>3. ASSUME NEW a \in Admins, Put(a) PROVE Cut'
  BY <1>3 DEF Put, BeginSave, Begin
<1>4. ASSUME NEW a \in Admins, Delete(a) PROVE Cut'
  <2>1. PICK r \in Ranks : BeginSave(a, [RankLimits EXCEPT ![r] = "absent"], r)
    BY <1>4 DEF Delete
  <2>2. [RankLimits EXCEPT ![r] = "absent"][r] = "absent"
    BY DEF RankLimits, LimitsFor
  <2>3. QED
    BY <2>1, <2>2 DEF BeginSave, Begin
<1>5. ASSUME NEW a \in Admins, Open(a) \/ Write(a) \/ Rename(a) PROVE Cut'
  BY <1>5 DEF Open, Write, Rename, Step
<1>6. ASSUME NEW a \in Admins, WriteFails(a) \/ RenameFails(a) \/ Swap(a) PROVE Cut'
  BY <1>6 DEF WriteFails, RenameFails, Swap, FinishSave, Finish
<1>7. ASSUME NEW a \in Admins, Mirror(a) PROVE Cut'
  BY <1>7 DEF Mirror, Finish
<1>8. ASSUME NEW a \in Admins, NEW p \in Players, Block(a, p) \/ Unblock(a, p) PROVE Cut'
  BY <1>8, ConsoleAssumption DEF Block, Unblock, Begin
<1>9. CASE UNCHANGED vars
  BY <1>9 DEF vars
<1>10. QED
  BY <1>1, <1>2, <1>3, <1>4, <1>5, <1>6, <1>7, <1>8, <1>9 DEF Next

\* Every step keeps what a block or an unblock that met no other knows.
LEMMA NextSoloBlock == IInv /\ [Next]_vars => SoloBlock'
<1> SUFFICES ASSUME IInv, [Next]_vars PROVE SoloBlock' OBVIOUS
<1> USE ConsoleAssumption DEF IInv, TypeOK, Busy, SoloBlock, Saving, None, RankFile, ranks, blocks, seen
<1>1. CASE Restart
  BY <1>1 DEF Restart
<1>2. ASSUME NEW a \in Admins, Login(a) \/ EndSession(a) \/ Put(a) \/ Delete(a) PROVE SoloBlock'
  BY <1>2 DEF Login, EndSession, Put, Delete, BeginSave, Begin
<1>3. ASSUME NEW a \in Admins, Open(a) \/ Write(a) \/ Rename(a) PROVE SoloBlock'
  BY <1>3 DEF Open, Write, Rename, Step
<1>4. ASSUME NEW a \in Admins, WriteFails(a) \/ RenameFails(a) \/ Swap(a) PROVE SoloBlock'
  BY <1>4 DEF WriteFails, RenameFails, Swap, FinishSave, Finish
<1>5. ASSUME NEW a \in Admins, Mirror(a) PROVE SoloBlock'
  BY <1>5 DEF Mirror, Finish
<1>6. ASSUME NEW a \in Admins, NEW p \in Players, Block(a, p) \/ Unblock(a, p) PROVE SoloBlock'
  BY <1>6 DEF Block, Unblock, Begin
<1>7. CASE UNCHANGED vars
  BY <1>7 DEF vars
<1>8. QED
  BY <1>1, <1>2, <1>3, <1>4, <1>5, <1>6, <1>7 DEF Next

\* Every step keeps the table and the memory copy of the blocked players together.
LEMMA NextBlocksAgree == IInv /\ [Next]_vars => BlocksAgree'
<1> SUFFICES ASSUME IInv, [Next]_vars PROVE BlocksAgree' OBVIOUS
<1> USE ConsoleAssumption DEF IInv, TypeOK, Busy, SoloBlock, BlocksAgree, Saving, None, RankFile, ranks, blocks, seen
<1>1. CASE Restart
  BY <1>1 DEF Restart
<1>2. ASSUME NEW a \in Admins, Login(a) \/ EndSession(a) \/ Put(a) \/ Delete(a) PROVE BlocksAgree'
  BY <1>2 DEF Login, EndSession, Put, Delete, BeginSave, Begin
<1>3. ASSUME NEW a \in Admins, Open(a) \/ Write(a) \/ Rename(a) PROVE BlocksAgree'
  BY <1>3 DEF Open, Write, Rename, Step
<1>4. ASSUME NEW a \in Admins, WriteFails(a) \/ RenameFails(a) \/ Swap(a) PROVE BlocksAgree'
  BY <1>4 DEF WriteFails, RenameFails, Swap, FinishSave, Finish
<1>5. ASSUME NEW a \in Admins, Mirror(a) PROVE BlocksAgree'
  <2>1. CASE a \in crossed
    BY <1>5, <2>1 DEF Mirror, Finish, CrossedMixed
  <2>2. CASE a \notin crossed
    BY <1>5, <2>2 DEF Mirror, Finish
  <2>3. QED
    BY <2>1, <2>2
<1>6. ASSUME NEW a \in Admins, NEW p \in Players, Block(a, p) \/ Unblock(a, p) PROVE BlocksAgree'
  BY <1>6 DEF Block, Unblock, Begin
<1>7. CASE UNCHANGED vars
  BY <1>7 DEF vars
<1>8. QED
  BY <1>1, <1>2, <1>3, <1>4, <1>5, <1>6, <1>7 DEF Next

\* Every step keeps the rank file worth restarting from.
LEMMA NextSaveAtomic == IInv /\ [Next]_vars => SaveAtomic'
<1> SUFFICES ASSUME IInv, [Next]_vars, RankFile \notin mixed'
             PROVE  \/ LimitsFor(Parsed(file))' = LimitsFor(limits)'
                    \/ \E a \in Admins : pc'[a] = "swap" /\ file' = next'[a]
  BY DEF SaveAtomic
<1> DEFINE Good == \/ LimitsFor(Parsed(file))' = LimitsFor(limits)'
                   \/ \E a \in Admins : pc'[a] = "swap" /\ file' = next'[a]
<1> USE ConsoleAssumption DEF IInv, TypeOK, Busy, SaveAtomic, Saving, None, RankFile, ranks, blocks, seen
<1>1. CASE Restart
  BY <1>1, LimitsTyped DEF Restart
<1>2. ASSUME NEW a \in Admins, Login(a) \/ EndSession(a) PROVE Good
  BY <1>2 DEF Login, EndSession
<1>3. ASSUME NEW a \in Admins, Put(a) \/ Delete(a) PROVE Good
  BY <1>3 DEF Put, Delete, BeginSave, Begin
<1>4. ASSUME NEW a \in Admins, pc[a] \in Saving, mixed' = mixed PROVE a \notin crossed
  BY <1>4 DEF CrossedMixed
<1>5. ASSUME NEW a \in Admins, Open(a) PROVE Good
  BY <1>5 DEF Open, Step
<1>6. ASSUME NEW a \in Admins, Write(a) PROVE Good
  <2>1. a \notin crossed
    BY <1>6, <1>4 DEF Write, Step
  <2>2. UNCHANGED <<file, limits, next>>
    BY <1>6, <2>1 DEF Write, Step, Fill, SoloSave
  <2>3. QED
    BY <1>6, <2>2 DEF Write, Step
<1>7. ASSUME NEW a \in Admins, WriteFails(a) PROVE Good
  <2>1. a \notin crossed
    BY <1>7, <1>4 DEF WriteFails, FinishSave, Finish
  <2>2. UNCHANGED <<file, limits>>
    BY <1>7, <2>1 DEF WriteFails, Fill, SoloSave
  <2>3. QED
    BY <1>7, <2>2 DEF WriteFails, FinishSave, Finish
<1>8. ASSUME NEW a \in Admins, Rename(a) PROVE Good
  <2>1. a \notin crossed
    BY <1>8, <1>4 DEF Rename, Step
  <2>2. pc'[a] = "swap" /\ file' = next'[a]
    BY <1>8, <2>1 DEF Rename, Step, SoloSave
  <2>3. QED
    BY <2>2
<1>9. ASSUME NEW a \in Admins, RenameFails(a) PROVE Good
  BY <1>9 DEF RenameFails, FinishSave, Finish
<1>10. ASSUME NEW a \in Admins, Swap(a) PROVE Good
  <2>1. a \notin crossed
    BY <1>10 DEF Swap, FinishSave, Finish, CrossedMixed
  <2>2. file' = next[a] /\ limits' = next[a]
    BY <1>10, <2>1 DEF Swap, SoloSave
  <2>3. Parsed(file)' = next[a]
    BY <2>2, LimitsTyped DEF Parsed
  <2>4. QED
    BY <2>2, <2>3 DEF LimitsFor
<1>11. ASSUME NEW a \in Admins, Mirror(a) PROVE Good
  BY <1>11 DEF Mirror, Finish
<1>12. ASSUME NEW a \in Admins, NEW p \in Players, Block(a, p) \/ Unblock(a, p) PROVE Good
  BY <1>12 DEF Block, Unblock, Begin
<1>13. CASE UNCHANGED vars
  BY <1>13 DEF vars
<1>14. QED
  BY <1>1, <1>2, <1>3, <1>5, <1>6, <1>7, <1>8, <1>9, <1>10, <1>11, <1>12, <1>13 DEF Next

\* The invariant of the console is inductive (config.go:250-272, store.go:458-476).
THEOREM Inductive == Spec => []IInv
<1>1. IInv /\ [Next]_vars => IInv'
  BY NextTypeOK, NextBusy, NextApart, NextSoloSave, NextCopied, NextCut, NextSoloBlock, NextSaveAtomic, NextBlocksAgree DEF IInv
<1>2. QED
  BY InitIInv, <1>1, PTL DEF Spec

\* The console's requests, files and copies keep their types; whatever is read from the
\* file, limits are kept in memory (config.go:212-232).
THEOREM TypeCorrect == Spec => []TypeOK
<1>1. IInv => TypeOK
  BY DEF IInv
<1>2. QED
  BY Inductive, <1>1, PTL

\* A restart finds the limits in force, or those of the save it interrupted, unless saves
\* have crossed (config.go:250).
THEOREM SavesAtomic == Spec => []SaveAtomic
<1>1. IInv => SaveAtomic
  BY DEF IInv
<1>2. QED
  BY Inductive, <1>1, PTL

\* Table and memory agree on every player nobody is changing, unless changes have crossed
\* (store.go:431).
THEOREM CopiesAgree == Spec => []BlocksAgree
<1>1. IInv => BlocksAgree
  BY DEF IInv
<1>2. QED
  BY Inductive, <1>1, PTL

\* Zeroes and an explicit null are the same limit.
LEMMA CopyMeansSame ==
  ASSUME NEW l \in Limits, NEW c \in Ranks, NEW r \in Ranks \ {c}
  PROVE  LimitsFor([LimitsFor(l) EXCEPT ![c] = "absent"])[r] = LimitsFor(l)[r]
  BY DEF Limits, LimitsFor

\* What a DELETE changes for the players of other ranks is what other saves put in force
\* since it copied the limits, and nothing else, however saves meet, fail or follow each
\* other (config.go:234, dev.go:303-305).
THEOREM DeletesOne == Spec => DeleteKeepsOthers
<1> DEFINE Kept ==
      \A a \in Admins :
        Swap(a) /\ cut[a] # NoRank =>
          /\ limits'[cut[a]] = "absent"
          /\ a \notin stale => \A r \in Ranks \ {cut[a]} : LimitsFor(limits')[r] = LimitsFor(limits)[r]
<1>1. IInv => Kept
  <2> SUFFICES ASSUME IInv, NEW a \in Admins, Swap(a), cut[a] # NoRank
               PROVE  /\ limits'[cut[a]] = "absent"
                      /\ a \notin stale =>
                           \A r \in Ranks \ {cut[a]} : LimitsFor(limits')[r] = LimitsFor(limits)[r]
    OBVIOUS
  <2>1. limits \in Limits /\ cut[a] \in Ranks /\ limits' = next[a]
    BY DEF IInv, TypeOK, Swap
  <2>2. limits'[cut[a]] = "absent"
    BY <2>1 DEF IInv, Cut, Swap, Saving
  <2>3. ASSUME a \notin stale PROVE limits' = [LimitsFor(limits) EXCEPT ![cut[a]] = "absent"]
    BY <2>1, <2>3 DEF IInv, Copied, Swap, Saving, RankLimits
  <2>4. QED
    BY <2>1, <2>2, <2>3, CopyMeansSame
<1>2. IInv /\ [Next]_vars => [Kept]_vars
  BY <1>1
<1>3. QED
  BY Inductive, <1>2, PTL DEF Spec, DeleteKeepsOthers

(***************************************************************************)
(* One admin                                                               *)
(***************************************************************************)

NothingMixed == mixed = {}

FileInForce ==
  \/ LimitsFor(Parsed(file)) = LimitsFor(limits)
  \/ \E a \in Admins : pc[a] = "swap" /\ file = next[a]

TableInForce == \A p \in Players : (p \in table <=> p \in blocked) \/ \E a \in Admins : on[a] = p

\* With a single admin the file and the table always say what is in force, up to the change
\* under way, whatever fails and wherever the process dies: what the exemptions of SaveAtomic
\* and BlocksAgree leave open takes two requests that cross (config.go:250-272, store.go:458-476).
THEOREM OneAdminAgrees ==
  ASSUME \A a, b \in Admins : a = b
  PROVE  Spec => [](FileInForce /\ TableInForce)
<1>1. Init => NothingMixed
  BY DEF Init, NothingMixed
<1>2. NothingMixed /\ [Next]_vars => NothingMixed'
  <2> SUFFICES ASSUME NothingMixed, [Next]_vars PROVE NothingMixed' OBVIOUS
  <2> USE DEF NothingMixed
  <2>1. ASSUME NEW a \in Admins, NEW thing, Begin(a, thing) PROVE mixed' = {}
    BY <2>1 DEF Begin
  <2>2. ASSUME NEW a \in Admins, NEW done, Finish(a, done) PROVE mixed' = {}
    BY <2>2 DEF Finish
  <2>3. CASE UNCHANGED mixed \/ Restart
    BY <2>3 DEF Restart
  <2>4. ASSUME NEW a \in Admins, Put(a) \/ Delete(a) \/ \E p \in Players : Block(a, p) \/ Unblock(a, p)
        PROVE  mixed' = {}
    BY <2>1, <2>4 DEF Put, Delete, BeginSave, Block, Unblock
  <2>5. ASSUME NEW a \in Admins, WriteFails(a) \/ RenameFails(a) \/ Swap(a) \/ Mirror(a) PROVE mixed' = {}
    BY <2>2, <2>5 DEF WriteFails, RenameFails, Swap, Mirror, FinishSave
  <2>6. ASSUME NEW a \in Admins, Login(a) \/ EndSession(a) \/ Open(a) \/ Write(a) \/ Rename(a) PROVE mixed' = {}
    BY <2>3, <2>6 DEF Login, EndSession, Open, Write, Rename, Step, seen
  <2>7. QED
    BY <2>3, <2>4, <2>5, <2>6 DEF Next, vars
<1>3. IInv /\ NothingMixed => FileInForce /\ TableInForce
  BY DEF IInv, NothingMixed, SaveAtomic, BlocksAgree, FileInForce, TableInForce
<1>4. QED
  BY Inductive, <1>1, <1>2, <1>3, PTL DEF Spec
=============================================================================
