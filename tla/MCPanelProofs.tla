---------------------------- MODULE MCPanelProofs ----------------------------
(***************************************************************************)
(* What is proved of the parts of MCPanel, as theorems of the composition  *)
(* its run checks.  A part's steps are the composition's while focus is on *)
(* it, so a part's invariant is one of the composition's.                  *)
(***************************************************************************)
EXTENDS MCPanel, TLAPS

---------------------------------------------------------------------------
(***************************************************************************)
(* Migration, for any number of transfers, messages, moves and failures.   *)
(* The destination makes the rows of one transfer at a time (Unused), and  *)
(* the transfer of a move under way is the one they are of, which no late  *)
(* cancel is about (Own).  Whatever chunk or archive arrives for it holds  *)
(* what was packed (Loading, SamePack), so that a transfer that says it is *)
(* imported is set up with the messages up to the mark (SetUp).  There is  *)
(* nothing of a catch-up before the first (NoCopyYet) and, while no packed *)
(* one was given up, at most one job for it (OneJob), whose outcome is the *)
(* one the source waits for (Copied).  From then on the original may go:   *)
(* the row is past every state in which a cancel takes it away (Safe).     *)
(* An owner who deletes the new one ends all of that.                      *)
(***************************************************************************)
Request == [path : Move!Call, t : 0..MaxTransfers, body : SUBSET Move!Message, live : BOOLEAN,
            phase : 0..3, seen : Move!Status, built : BOOLEAN]
Work == [kind : Move!JobKind \cup {"none"}, t : 0..MaxTransfers,
         at : {"idle", "build", "clean", "mark"}, ok : BOOLEAN]
Archive == [there : BOOLEAN, mail : SUBSET Move!Message]
Longer == {"finish", "finalize", "catchup"}

\* Types, with what a request's phase says of its path.
SourceTyped ==
    /\ kind \in {"site", "mail"} /\ removeAfter \in BOOLEAN
    /\ src \in {"here", "part", "gone"} /\ dns \in {"src", "dst"}
    /\ out \in [status : {"none", "queued", "running", "done", "failed"}, transfer : 0..MaxTransfers]
    /\ goal \in {"none", "move", "copy"} /\ step \in Move!Step
    /\ arrived \in 0..MaxMail /\ mark \in 0..MaxMail /\ pack \subseteq Move!Message
    /\ deleted \in BOOLEAN /\ lostCopy \in BOOLEAN
    /\ moves \in 0..MaxMoves /\ moveTroubles \in 0..MaxTroubles
NetTyped == net \subseteq Request /\ answer \in {"none", "ok", "error"}
RowsTyped ==
    /\ transfers \in [Move!Transfer -> Move!Status] /\ task \in [Move!Transfer -> BOOLEAN] /\ owner \in 0..MaxTransfers
DiskTyped ==
    /\ files \in [Move!Transfer -> SUBSET {1, 2}] /\ load \in [Move!Transfer -> SUBSET Move!Message]
    /\ late \in [Move!Transfer -> Archive] /\ built \in BOOLEAN /\ have \subseteq Move!Message
QueueTyped ==
    /\ theirJobs \subseteq [kind : Move!JobKind, t : Move!Transfer] /\ work \in Work
    /\ work # Move!NoWork => /\ work.kind \in Move!JobKind /\ work.t \in Move!Transfer /\ work.at # "idle"
                      /\ task[work.t]
MoveTyped == SourceTyped /\ NetTyped /\ RowsTyped /\ DiskTyped /\ QueueTyped
Phases ==
    \A r \in net :
        /\ r.seen # "none" => r.t \in Move!Transfer
        /\ r.phase = 2 => r.path \in Longer \cup {"begin"} /\ r.t \in Move!Transfer
        /\ r.phase = 3 => r.path \in Longer /\ r.t \in Move!Transfer

T == out.transfer
Copying == {"send", "catchup", "caught"}

\* The caller makes one call at a time, and the call is that of its step.
OneCall ==
    /\ \A r \in net : r.live => /\ r.path = step /\ answer = "none" /\ r.body = pack
                                /\ r.path # "begin" => r.t = T
    /\ \A r, q \in net : r.live /\ q.live => r = q
    /\ answer # "none" => step \in Move!Call
    /\ goal = "none" => step = "idle"
    /\ goal = "copy" => step \in {"idle", "pack", "end"} \cup Copying
    /\ out.status = "done" => goal = "none"
    /\ kind = "site" => step \notin {"pack"} \cup Copying /\ goal # "copy"

\* What a transfer is before it is received; and the rows are made for one
\* transfer at a time.
Unused ==
    /\ \A t \in Move!Transfer : transfers[t] = "none" =>
          /\ t # T /\ files[t] = {} /\ ~late[t].there
          /\ \A r \in net : r.t = t => r.path \in {"hello", "begin"}
          /\ \A j \in theirJobs : j.t # t
          /\ work.t # t
    /\ \A r \in net : r.path = "begin" /\ r.phase = 2 => owner = r.t /\ transfers[r.t] = "none"
    /\ \A r, q \in net : r.path = "begin" /\ r.phase = 2 /\ q.path = "begin" /\ q.phase = 2 => r = q

After1 == {"chunk1", "chunk2", "finish", "imported"}
Before2 == {"dns", "finalize", "finished", "pack"}
Moving(steps) == goal = "move" /\ step \in steps /\ (step = "begin" => answer = "ok")
Filling == Moving(After1 \cup {"begin"})
Underway == Moving(After1 \cup Before2 \cup Copying \cup {"begin", "remove", "end"})

\* The transfer of a move under way is the one whose rows are there.
Own == Underway =>
    /\ T \in Move!Transfer /\ owner = T /\ transfers[T] # "none"
    /\ \A r \in net : r.path = "cancel" => r.t # T

At(steps) == goal = "move" /\ step \in steps
Has == built /\ pack \subseteq have /\ task[T]
Works(t, k) == work.kind = k /\ work.t = t
Applied(t, k) == Works(t, k) /\ work.ok /\ work.at \in {"clean", "mark"}

\* What is sent is what was packed, and what is imported is what was sent.
Loading ==
    /\ At(After1 \cup {"begin"}) => pack = 1..mark
    /\ Filling =>
        /\ \A r \in net : r.path \in {"chunk1", "chunk2"} /\ r.t = T => r.body = pack
        /\ files[T] # {} => load[T] = pack
        /\ transfers[T] = "imported" => Has
        /\ Applied(T, "in") => Has
Kept == transfers[T] # "receiving" /\ task[T] /\ built
SetUp ==
    /\ At(Before2) => Kept /\ 1..mark \subseteq have
    /\ At(Copying) => Kept /\ 1..mark \subseteq have \cup pack
    /\ At({"remove", "end"}) => Kept /\ 1..mark \subseteq have

Asked(paths) == {r \in net : r.path \in paths /\ r.t = T}
TheJob == [kind |-> "catchup", t |-> T]
Clear ==
    /\ Asked({"send", "catchup"}) = {} /\ ~late[T].there
    /\ TheJob \notin theirJobs /\ ~Works(T, "catchup")
NoCopyYet == Moving(After1 \cup Before2 \cup {"begin"}) => Clear /\ (kind = "mail" => transfers[T] # "done")

\* Nothing is left of an earlier catch-up that could be taken for this one.
Sound == ~lostCopy /\ ~(answer = "error" /\ step \in {"send", "catchup"})
Pushed == step = "caught" \/ (step = "catchup" /\ answer = "ok")
InCopy == step \in Copying /\ (goal = "move" \/ Sound)
SamePack == InCopy =>
    /\ \A r \in Asked({"send", "catchup"}) : r.body = pack
    /\ late[T].there => late[T].mail = pack
    /\ Applied(T, "catchup") => pack \subseteq have
    /\ goal = "move" /\ transfers[T] = "done" => pack \subseteq have
    /\ Pushed /\ transfers[T] = "done" => pack \subseteq have
OneJob == Sound =>
    /\ step = "send" =>
        /\ \A r \in Asked({"send", "catchup"}) : r.live
        /\ TheJob \notin theirJobs /\ ~Works(T, "catchup")
    /\ step = "catchup" /\ answer = "none" =>
        /\ \A r \in Asked({"send", "catchup"}) : r.live /\ (r.phase = 3 => transfers[T] # "done")
        /\ TheJob \notin theirJobs /\ ~Works(T, "catchup")
    /\ Pushed =>
        /\ Asked({"send", "catchup"}) = {}
        /\ TheJob \in theirJobs => ~Works(T, "catchup") /\ transfers[T] # "done"
        /\ Works(T, "catchup") => transfers[T] # "done" /\ (work.at = "mark" => ~late[T].there)
        /\ TheJob \notin theirJobs /\ ~Works(T, "catchup") /\ transfers[T] = "done" => ~late[T].there

\* A copy that is done, or being caught up with.
Copied ==
    /\ goal = "copy" \/ out.status = "done" => T \in Move!Transfer
    /\ kind = "mail" /\ ~lostCopy /\
       (out.status = "done" \/ (goal = "copy" /\ step \in {"idle", "pack", "end"})
          \/ At({"remove", "end"})) => Clear /\ 1..mark \subseteq have
    /\ goal = "copy" /\ step \in Copying /\ Sound => 1..mark \subseteq have \cup pack

\* Once the original is touched nobody takes the new one away by a cancel.
Safe ==
    src # "here" =>
        /\ built /\ 1..mark \subseteq have
        /\ owner # Move!NoTransfer /\ transfers[owner] \notin {"none", "receiving"} /\ task[owner]
        /\ \A r \in net : r.path = "cancel" /\ r.t = owner /\ r.phase # 0 =>
              r.seen # "receiving" /\ (r.seen = "failed" => r.built)
        /\ step \in {"idle", "remove", "end", "hello", "cancel", "pack"} \cup Copying
        /\ step = "hello" => answer # "ok"
        /\ step \in {"pack"} \cup Copying => goal = "copy"

Protected == Unused /\ Own /\ Loading /\ SetUp /\ NoCopyYet /\ SamePack /\ OneJob /\ Copied /\ Safe
MoveInv == MoveTyped /\ Phases /\ OneCall /\ (~deleted => Protected)

LEMMA AfterIs ==
    /\ Move!After["hello"] = "package" /\ Move!After["package"] = "begin" /\ Move!After["begin"] = "chunk1"
    /\ Move!After["chunk1"] = "chunk2" /\ Move!After["chunk2"] = "finish" /\ Move!After["finish"] = "imported"
    /\ Move!After["imported"] = "dns" /\ Move!After["dns"] = "finalize" /\ Move!After["finalize"] = "finished"
    /\ Move!After["finished"] = IF kind = "mail" THEN "pack" ELSE Move!Removing
    /\ Move!After["pack"] = "send" /\ Move!After["send"] = "catchup" /\ Move!After["catchup"] = "caught"
    /\ Move!After["caught"] = IF goal = "copy" THEN "end" ELSE Move!Removing
    /\ Move!After["remove"] = "end" /\ Move!Removing \in {"remove", "end"}
  BY DEF Move!After, Move!Removing

LEMMA Silent ==
  ASSUME NetTyped, OneCall, step \notin Move!Call
  PROVE  answer = "none" /\ \A r \in net : ~r.live
  BY DEF NetTyped, OneCall, Request


\* Whoever is past the beginning of a move has a transfer.
HasTransfer ==
    /\ goal = "move" /\ step \in {"chunk1", "chunk2", "finish", "imported", "dns", "finalize",
                                  "finished", "remove", "end"} => T \in Move!Transfer
    /\ goal = "move" /\ step = "begin" /\ answer = "ok" => T \in Move!Transfer
    /\ step \in {"pack", "send", "catchup", "caught"} => T \in Move!Transfer
    /\ goal = "copy" \/ out.status = "done" => T \in Move!Transfer

LEMMA TransferIs ==
  ASSUME SourceTyped, OneCall, Own, Copied
  PROVE  HasTransfer
<1>1. goal = "none" => step = "idle"
  BY DEF OneCall
<1>2. goal \in {"none", "move", "copy"}
  BY DEF SourceTyped
<1>3. goal = "copy" \/ out.status = "done" => T \in Move!Transfer
  BY DEF Copied
<1>4. Underway => T \in Move!Transfer
  BY DEF Own
<1>5. QED BY <1>1, <1>2, <1>3, <1>4 DEF HasTransfer, Underway, Moving, After1, Before2, Copying

LEMMA MoveFirst ==
  ASSUME Move!MigrationAssumption, Move!Init
  PROVE  MoveInv
<1> USE DEF Move!MigrationAssumption, Move!Init
<1>1. MoveTyped
  <2>1. 0 \in 0..MaxTransfers /\ 0 \in 0..MaxMail /\ 0 \in 0..MaxMoves /\ 0 \in 0..MaxTroubles
    OBVIOUS
  <2>2. out \in [status : {"none", "queued", "running", "done", "failed"}, transfer : 0..MaxTransfers]
    BY <2>1 DEF Move!NoTransfer
  <2>3. work \in Work /\ Move!NoArchive \in Archive
    BY <2>1 DEF Work, Move!NoWork, Archive, Move!NoArchive, Move!NoTransfer
  <2>4. transfers \in [Move!Transfer -> Move!Status] /\ task \in [Move!Transfer -> BOOLEAN]
        /\ files \in [Move!Transfer -> SUBSET {1, 2}] /\ load \in [Move!Transfer -> SUBSET Move!Message]
        /\ late \in [Move!Transfer -> Archive] /\ step \in Move!Step
    BY <2>3 DEF Move!Status, Move!Step
  <2>5. QED BY <2>1, <2>2, <2>3, <2>4
       DEF MoveTyped, SourceTyped, NetTyped, RowsTyped, DiskTyped, QueueTyped, Move!NoTransfer
<1>2. Phases /\ OneCall
  BY DEF Phases, OneCall, Copying
<1>3. Unused
  BY DEF Unused, Move!NoWork, Move!NoArchive, Move!NoTransfer, Move!Transfer, T
<1>4. Own /\ Loading /\ SetUp /\ NoCopyYet /\ SamePack
  BY DEF Own, Loading, SetUp, NoCopyYet, SamePack, Underway, Moving, Filling, InCopy, Sound,
     At, Copying
<1>5. OneJob /\ Copied /\ Safe
  BY DEF OneJob, Copied, Safe, Sound, Pushed, Copying, At
<1>6. QED BY <1>1, <1>2, <1>3, <1>4, <1>5 DEF MoveInv, Protected

LEMMA MailArrivesKeeps ==
  ASSUME MoveInv, Move!MigrationAssumption, Move!MailArrives
  PROVE  MoveInv'
<1>0. /\ MoveTyped /\ Phases /\ OneCall
      /\ SourceTyped /\ NetTyped /\ RowsTyped /\ DiskTyped /\ QueueTyped
  BY DEF MoveInv, MoveTyped
<1> USE <1>0 DEF Move!MailArrives, Move!theirs, Move!ours, Move!mine, Move!rows, Move!disk,
        Move!queue, Move!option, Move!source
<1>1. MoveTyped'
  <2>1. SourceTyped'
    BY DEF SourceTyped, Move!NoTransfer, Move!MigrationAssumption
  <2>2. NetTyped'
    BY DEF NetTyped
  <2>3. RowsTyped'
    BY DEF RowsTyped, Move!NoTransfer
  <2>4. DiskTyped'
    BY DEF DiskTyped
  <2>5. QueueTyped'
    BY DEF QueueTyped, RowsTyped, Move!NoWork
  <2>6. QED BY <2>1, <2>2, <2>3, <2>4, <2>5 DEF MoveTyped
<1>2. Phases'
  BY DEF Phases, Longer, Move!NoTransfer
<1>3. OneCall'
  BY DEF OneCall, Copying, T
<1>4. ASSUME ~deleted' PROVE Protected'
  <2>0. /\ ~deleted /\ Unused /\ Own /\ Loading /\ SetUp /\ NoCopyYet /\ SamePack
        /\ OneJob /\ Copied /\ Safe
    BY <1>4 DEF MoveInv, Protected
  <2> USE <2>0 DEF OneCall, SourceTyped, NetTyped, RowsTyped, DiskTyped, QueueTyped
  <2>1. Unused'
    BY DEF Unused, T, Move!Transfer, Move!NoTransfer, Move!NoArchive, Move!NoWork
  <2>2. Own'
    BY DEF Own, Underway, Moving, After1, Before2, Copying, T, Move!NoTransfer
  <2>3. Loading'
    BY DEF Loading, Filling, Moving, Has, Applied, Works, At, After1, T
  <2>4. SetUp'
    BY DEF SetUp, Kept, At, Before2, Copying, T
  <2>5. NoCopyYet'
    BY DEF NoCopyYet, Moving, Clear, Asked, TheJob, Works, After1, Before2, T
  <2>6. SamePack'
    BY DEF SamePack, InCopy, Sound, Pushed, Asked, Applied, Works, Copying, T
  <2>7. OneJob'
    BY DEF OneJob, Sound, Pushed, Asked, Works, TheJob, T
  <2>8. Copied'
    BY DEF Copied, Clear, Sound, Asked, Works, TheJob, At, Copying, T
  <2>9. Safe'
    BY DEF Safe, Copying, Move!NoTransfer
  <2>10. QED BY <2>1, <2>2, <2>3, <2>4, <2>5, <2>6, <2>7, <2>8, <2>9 DEF Protected
<1>5. QED BY <1>1, <1>2, <1>3, <1>4 DEF MoveInv

LEMMA StartKeeps ==
  ASSUME MoveInv, Move!MigrationAssumption, Move!Start
  PROVE  MoveInv'
<1>0. /\ MoveTyped /\ Phases /\ OneCall
      /\ SourceTyped /\ NetTyped /\ RowsTyped /\ DiskTyped /\ QueueTyped
  BY DEF MoveInv, MoveTyped
<1>a. step \notin Move!Call
  BY <1>0 DEF Move!Start, Move!theirs, Move!ours, Move!mine, Move!rows, Move!disk, Move!queue,
     Move!option, Move!source, Move!Call, OneCall
<1>b. answer = "none" /\ \A r \in net : ~r.live
  BY <1>0, <1>a, Silent
<1> USE <1>0, <1>a, <1>b DEF Move!Start, Move!theirs, Move!ours, Move!mine, Move!rows,
        Move!disk, Move!queue, Move!option, Move!source
<1>1. MoveTyped'
  <2>1. SourceTyped'
    BY DEF SourceTyped, Move!NoTransfer, Move!MigrationAssumption
  <2>2. NetTyped'
    BY DEF NetTyped
  <2>3. RowsTyped'
    BY DEF RowsTyped, Move!NoTransfer
  <2>4. DiskTyped'
    BY DEF DiskTyped
  <2>5. QueueTyped'
    BY DEF QueueTyped, RowsTyped, Move!NoWork
  <2>6. QED BY <2>1, <2>2, <2>3, <2>4, <2>5 DEF MoveTyped
<1>2. Phases'
  BY DEF Phases, Longer, Move!NoTransfer
<1>3. OneCall'
  BY DEF OneCall, Copying, T
<1>4. ASSUME ~deleted' PROVE Protected'
  <2>0. /\ ~deleted /\ Unused /\ Own /\ Loading /\ SetUp /\ NoCopyYet /\ SamePack
        /\ OneJob /\ Copied /\ Safe
    BY <1>4 DEF MoveInv, Protected
  <2> USE <2>0 DEF OneCall, SourceTyped, NetTyped, RowsTyped, DiskTyped, QueueTyped
  <2>1. Unused'
    BY DEF Unused, T, Move!Transfer, Move!NoTransfer, Move!NoArchive, Move!NoWork
  <2>2. Own'
    BY DEF Own, Underway, Moving, After1, Before2, Copying, T, Move!NoTransfer
  <2>3. Loading'
    BY DEF Loading, Filling, Moving, Has, Applied, Works, At, After1, T
  <2>4. SetUp'
    BY DEF SetUp, Kept, At, Before2, Copying, T
  <2>5. NoCopyYet'
    BY DEF NoCopyYet, Moving, Clear, Asked, TheJob, Works, After1, Before2, T
  <2>6. SamePack'
    BY DEF SamePack, InCopy, Sound, Pushed, Asked, Applied, Works, Copying, T
  <2>7. OneJob'
    BY DEF OneJob, Sound, Pushed, Asked, Works, TheJob, T
  <2>8. Copied'
    BY DEF Copied, Clear, Sound, Asked, Works, TheJob, At, Copying, T
  <2>9. Safe'
    BY DEF Safe, Copying, Move!NoTransfer
  <2>10. QED BY <2>1, <2>2, <2>3, <2>4, <2>5, <2>6, <2>7, <2>8, <2>9 DEF Protected
<1>5. QED BY <1>1, <1>2, <1>3, <1>4 DEF MoveInv

LEMMA CatchUpKeeps ==
  ASSUME MoveInv, Move!MigrationAssumption, Move!CatchUp
  PROVE  MoveInv'
<1>0. /\ MoveTyped /\ Phases /\ OneCall
      /\ SourceTyped /\ NetTyped /\ RowsTyped /\ DiskTyped /\ QueueTyped
  BY DEF MoveInv, MoveTyped
<1>a. step \notin Move!Call
  BY <1>0 DEF Move!CatchUp, Move!theirs, Move!ours, Move!mine, Move!rows, Move!disk,
     Move!queue, Move!option, Move!source, Move!Call, OneCall
<1>b. answer = "none" /\ \A r \in net : ~r.live
  BY <1>0, <1>a, Silent
<1> USE <1>0, <1>a, <1>b DEF Move!CatchUp, Move!theirs, Move!ours, Move!mine, Move!rows,
        Move!disk, Move!queue, Move!option, Move!source
<1>1. MoveTyped'
  <2>1. SourceTyped'
    BY DEF SourceTyped, Move!NoTransfer, Move!MigrationAssumption
  <2>2. NetTyped'
    BY DEF NetTyped
  <2>3. RowsTyped'
    BY DEF RowsTyped, Move!NoTransfer
  <2>4. DiskTyped'
    BY DEF DiskTyped
  <2>5. QueueTyped'
    BY DEF QueueTyped, RowsTyped, Move!NoWork
  <2>6. QED BY <2>1, <2>2, <2>3, <2>4, <2>5 DEF MoveTyped
<1>2. Phases'
  BY DEF Phases, Longer, Move!NoTransfer
<1>3. OneCall'
  BY DEF OneCall, Copying, T
<1>4. ASSUME ~deleted' PROVE Protected'
  <2>0. /\ ~deleted /\ Unused /\ Own /\ Loading /\ SetUp /\ NoCopyYet /\ SamePack
        /\ OneJob /\ Copied /\ Safe
    BY <1>4 DEF MoveInv, Protected
  <2> USE <2>0 DEF OneCall, SourceTyped, NetTyped, RowsTyped, DiskTyped, QueueTyped
  <2>1. Unused'
    BY DEF Unused, T, Move!Transfer, Move!NoTransfer, Move!NoArchive, Move!NoWork
  <2>2. Own'
    BY DEF Own, Underway, Moving, After1, Before2, Copying, T, Move!NoTransfer
  <2>3. Loading'
    BY DEF Loading, Filling, Moving, Has, Applied, Works, At, After1, T
  <2>4. SetUp'
    BY DEF SetUp, Kept, At, Before2, Copying, T
  <2>5. NoCopyYet'
    BY DEF NoCopyYet, Moving, Clear, Asked, TheJob, Works, After1, Before2, T
  <2>6. SamePack'
    BY DEF SamePack, InCopy, Sound, Pushed, Asked, Applied, Works, Copying, T
  <2>7. OneJob'
    BY DEF OneJob, Sound, Pushed, Asked, Works, TheJob, T
  <2>8. Copied'
    BY DEF Copied, Clear, Sound, Asked, Works, TheJob, At, Copying, T
  <2>9. Safe'
    BY DEF Safe, Copying, Move!NoTransfer
  <2>10. QED BY <2>1, <2>2, <2>3, <2>4, <2>5, <2>6, <2>7, <2>8, <2>9 DEF Protected
<1>5. QED BY <1>1, <1>2, <1>3, <1>4 DEF MoveInv

LEMMA RunOutKeeps ==
  ASSUME MoveInv, Move!MigrationAssumption, Move!RunOut
  PROVE  MoveInv'
<1>0. /\ MoveTyped /\ Phases /\ OneCall
      /\ SourceTyped /\ NetTyped /\ RowsTyped /\ DiskTyped /\ QueueTyped
  BY DEF MoveInv, MoveTyped
<1>a. step \notin Move!Call
  BY <1>0 DEF Move!RunOut, Move!theirs, Move!ours, Move!mine, Move!rows, Move!disk, Move!queue,
     Move!option, Move!source, Move!Call, OneCall
<1>b. answer = "none" /\ \A r \in net : ~r.live
  BY <1>0, <1>a, Silent
<1> USE <1>0, <1>a, <1>b DEF Move!RunOut, Move!theirs, Move!ours, Move!mine, Move!rows,
        Move!disk, Move!queue, Move!option, Move!source
<1>1. MoveTyped'
  <2>1. SourceTyped'
    BY DEF SourceTyped, Move!NoTransfer, Move!Step, Move!Call
  <2>2. NetTyped'
    BY DEF NetTyped
  <2>3. RowsTyped'
    BY DEF RowsTyped, Move!NoTransfer
  <2>4. DiskTyped'
    BY DEF DiskTyped
  <2>5. QueueTyped'
    BY DEF QueueTyped, RowsTyped, Move!NoWork
  <2>6. QED BY <2>1, <2>2, <2>3, <2>4, <2>5 DEF MoveTyped
<1>2. Phases'
  BY DEF Phases, Longer, Move!NoTransfer
<1>3. OneCall'
  BY DEF OneCall, Copying, T, SourceTyped
<1>4. ASSUME ~deleted' PROVE Protected'
  <2>0. /\ ~deleted /\ Unused /\ Own /\ Loading /\ SetUp /\ NoCopyYet /\ SamePack
        /\ OneJob /\ Copied /\ Safe
    BY <1>4 DEF MoveInv, Protected
  <2> USE <2>0 DEF OneCall, SourceTyped, NetTyped, RowsTyped, DiskTyped, QueueTyped
  <2>1. Unused'
    BY DEF Unused, T, Move!Transfer, Move!NoTransfer, Move!NoArchive, Move!NoWork
  <2>2. Own'
    BY DEF Own, Underway, Moving, After1, Before2, Copying, T, Move!NoTransfer
  <2>3. Loading'
    BY DEF Loading, Filling, Moving, Has, Applied, Works, At, After1, T
  <2>4. SetUp'
    BY DEF SetUp, Kept, At, Before2, Copying, T
  <2>5. NoCopyYet'
    BY DEF NoCopyYet, Moving, Clear, Asked, TheJob, Works, After1, Before2, T
  <2>6. SamePack'
    BY DEF SamePack, InCopy, Sound, Pushed, Asked, Applied, Works, Copying, T
  <2>7. OneJob'
    BY DEF OneJob, Sound, Pushed, Asked, Works, TheJob, T
  <2>8. Copied'
    BY DEF Copied, Clear, Sound, Asked, Works, TheJob, At, Copying, T
  <2>9. Safe'
    BY DEF Safe, Copying, Move!NoTransfer
  <2>10. QED BY <2>1, <2>2, <2>3, <2>4, <2>5, <2>6, <2>7, <2>8, <2>9 DEF Protected
<1>5. QED BY <1>1, <1>2, <1>3, <1>4 DEF MoveInv

LEMMA PackageKeeps ==
  ASSUME MoveInv, Move!MigrationAssumption, Move!Package
  PROVE  MoveInv'
<1>0. /\ MoveTyped /\ Phases /\ OneCall
      /\ SourceTyped /\ NetTyped /\ RowsTyped /\ DiskTyped /\ QueueTyped
  BY DEF MoveInv, MoveTyped
<1>a. step \notin Move!Call
  BY <1>0 DEF Move!Package, Move!theirs, Move!ours, Move!mine, Move!rows, Move!disk,
     Move!queue, Move!option, Move!source, Move!Call, OneCall
<1>b. answer = "none" /\ \A r \in net : ~r.live
  BY <1>0, <1>a, Silent
<1>c. step = "package" /\ step' = "begin" /\ goal = "move" /\ mark' = arrived /\ pack' = 1..arrived /\ answer = "none"
  BY <1>0, <1>b, AfterIs DEF Move!Package, OneCall, Copying, Move!Call, SourceTyped, NetTyped
<1>d. pack' \subseteq Move!Message /\ step' \in Move!Step /\ mark' \in 0..MaxMail
  BY <1>0, <1>c DEF SourceTyped, Move!Message, Move!Step, Move!Call, Move!MigrationAssumption
<1> USE <1>0, <1>a, <1>b, <1>c, <1>d DEF Move!Package, Move!theirs, Move!ours, Move!mine,
        Move!rows, Move!disk, Move!queue, Move!option, Move!source
<1>1. MoveTyped'
  <2>1. SourceTyped'
    BY DEF SourceTyped, Move!NoTransfer
  <2>2. NetTyped'
    BY DEF NetTyped
  <2>3. RowsTyped'
    BY DEF RowsTyped, Move!NoTransfer
  <2>4. DiskTyped'
    BY DEF DiskTyped
  <2>5. QueueTyped'
    BY DEF QueueTyped, RowsTyped, Move!NoWork
  <2>6. QED BY <2>1, <2>2, <2>3, <2>4, <2>5 DEF MoveTyped
<1>2. Phases'
  BY DEF Phases, Longer, Move!NoTransfer
<1>3. OneCall'
  BY DEF OneCall, Copying, T
<1>4. ASSUME ~deleted' PROVE Protected'
  <2>0. /\ ~deleted /\ Unused /\ Own /\ Loading /\ SetUp /\ NoCopyYet /\ SamePack
        /\ OneJob /\ Copied /\ Safe
    BY <1>4 DEF MoveInv, Protected
  <2> USE <2>0 DEF OneCall, SourceTyped, NetTyped, RowsTyped, DiskTyped, QueueTyped
  <2>1. Unused'
    BY DEF Unused, T, Move!Transfer, Move!NoTransfer, Move!NoArchive, Move!NoWork
  <2>2. Own'
    BY DEF Own, Underway, Moving, After1, Before2, Copying, T, Move!NoTransfer
  <2>3. Loading'
    BY DEF Loading, Filling, Moving, Has, Applied, Works, At, After1, T
  <2>4. SetUp'
    BY DEF SetUp, Kept, At, Before2, Copying, T
  <2>5. NoCopyYet'
    BY DEF NoCopyYet, Moving, Clear, Asked, TheJob, Works, After1, Before2, T
  <2>6. SamePack'
    BY DEF SamePack, InCopy, Sound, Pushed, Asked, Applied, Works, Copying, T
  <2>7. OneJob'
    BY DEF OneJob, Sound, Pushed, Asked, Works, TheJob, T
  <2>8. Copied'
    BY DEF Copied, Clear, Sound, Asked, Works, TheJob, At, Copying, T
  <2>9. Safe'
    BY DEF Safe, Copying, Move!NoTransfer
  <2>10. QED BY <2>1, <2>2, <2>3, <2>4, <2>5, <2>6, <2>7, <2>8, <2>9 DEF Protected
<1>5. QED BY <1>1, <1>2, <1>3, <1>4 DEF MoveInv

LEMMA PackCatchUpKeeps ==
  ASSUME MoveInv, Move!MigrationAssumption, Move!PackCatchUp
  PROVE  MoveInv'
<1>0. /\ MoveTyped /\ Phases /\ OneCall
      /\ SourceTyped /\ NetTyped /\ RowsTyped /\ DiskTyped /\ QueueTyped
  BY DEF MoveInv, MoveTyped
<1>a. step \notin Move!Call
  BY <1>0 DEF Move!PackCatchUp, Move!theirs, Move!ours, Move!mine, Move!rows, Move!disk,
     Move!queue, Move!option, Move!source, Move!Call, OneCall
<1>b. answer = "none" /\ \A r \in net : ~r.live
  BY <1>0, <1>a, Silent
<1>c. step = "pack" /\ step' = "send" /\ goal # "none" /\ kind = "mail" /\ answer = "none"
  BY <1>0, <1>b, AfterIs DEF Move!PackCatchUp, OneCall, Copying, Move!Call, SourceTyped, NetTyped
<1>d. pack' \subseteq Move!Message /\ step' \in Move!Step /\ mark' \in 0..MaxMail
  BY <1>0, <1>c DEF Move!PackCatchUp, SourceTyped, Move!Message, Move!Step, Move!Call,
     Move!MigrationAssumption
<1> USE <1>0, <1>a, <1>b, <1>c, <1>d DEF Move!PackCatchUp, Move!theirs, Move!ours, Move!mine,
        Move!rows, Move!disk, Move!queue, Move!option, Move!source
<1>1. MoveTyped'
  <2>1. SourceTyped'
    BY DEF SourceTyped, Move!NoTransfer
  <2>2. NetTyped'
    BY DEF NetTyped
  <2>3. RowsTyped'
    BY DEF RowsTyped, Move!NoTransfer
  <2>4. DiskTyped'
    BY DEF DiskTyped
  <2>5. QueueTyped'
    BY DEF QueueTyped, RowsTyped, Move!NoWork
  <2>6. QED BY <2>1, <2>2, <2>3, <2>4, <2>5 DEF MoveTyped
<1>2. Phases'
  BY DEF Phases, Longer, Move!NoTransfer
<1>3. OneCall'
  BY DEF OneCall, Copying, T
<1>4. ASSUME ~deleted' PROVE Protected'
  <2>0. /\ ~deleted /\ Unused /\ Own /\ Loading /\ SetUp /\ NoCopyYet /\ SamePack
        /\ OneJob /\ Copied /\ Safe
    BY <1>4 DEF MoveInv, Protected
  <2> USE <2>0 DEF OneCall, SourceTyped, NetTyped, RowsTyped, DiskTyped, QueueTyped
  <2>1. Unused'
    BY DEF Unused, T, Move!Transfer, Move!NoTransfer, Move!NoArchive, Move!NoWork
  <2>2. Own'
    BY DEF Own, Underway, Moving, After1, Before2, Copying, T, Move!NoTransfer
  <2>3. Loading'
    BY DEF Loading, Filling, Moving, Has, Applied, Works, At, After1, T
  <2>4. SetUp'
    BY DEF SetUp, Kept, At, Before2, Copying, T
  <2>5. NoCopyYet'
    BY DEF NoCopyYet, Moving, Clear, Asked, TheJob, Works, After1, Before2, T
  <2>6. SamePack'
    BY DEF SamePack, InCopy, Sound, Pushed, Asked, Applied, Works, Copying, T, NoCopyYet,
       Copied, Clear, Moving, Before2, After1, At, TheJob
  <2>7. OneJob'
    BY DEF OneJob, Sound, Pushed, Asked, Works, TheJob, T, NoCopyYet, Copied, Clear, Moving,
       Before2, After1, At, TheJob, Copying
  <2>8. Copied'
    BY DEF Copied, Clear, Sound, Asked, Works, TheJob, At, Copying, T
  <2>9. Safe'
    BY DEF Safe, Copying, Move!NoTransfer
  <2>10. QED BY <2>1, <2>2, <2>3, <2>4, <2>5, <2>6, <2>7, <2>8, <2>9 DEF Protected
<1>5. QED BY <1>1, <1>2, <1>3, <1>4 DEF MoveInv

LEMMA WaitKeeps ==
  ASSUME MoveInv, Move!MigrationAssumption, Move!Wait
  PROVE  MoveInv'
<1>0. /\ MoveTyped /\ Phases /\ OneCall
      /\ SourceTyped /\ NetTyped /\ RowsTyped /\ DiskTyped /\ QueueTyped
  BY DEF MoveInv, MoveTyped
<1>a. step \notin Move!Call
  BY <1>0 DEF Move!Wait, Move!theirs, Move!ours, Move!mine, Move!rows, Move!disk, Move!queue,
     Move!option, Move!source, Move!Call, OneCall
<1>b. answer = "none" /\ \A r \in net : ~r.live
  BY <1>0, <1>a, Silent
<1>c. goal \in {"move", "copy"} /\ out.status # "done" /\ (step = "imported" \/ step = "finished" \/ step = "caught")
      /\ (goal = "copy" => step = "caught") /\ (kind = "site" => step # "caught") /\ kind \in {"site", "mail"}
      /\ UNCHANGED <<Move!option, src, dns, arrived, mark, pack, net, answer, Move!theirs>>
  BY <1>0 DEF Move!Wait, OneCall, SourceTyped, Copying
<1>d. \/ /\ transfers[T] = Move!Wanted /\ UNCHANGED <<goal, out, lostCopy, moveTroubles>>
         /\ \/ step = "imported" /\ step' = "dns"
            \/ step = "finished" /\ kind = "mail" /\ step' = "pack"
            \/ step = "finished" /\ kind = "site" /\ step' \in {"remove", "end"}
            \/ step = "caught" /\ goal = "copy" /\ step' = "end"
            \/ step = "caught" /\ goal = "move" /\ step' \in {"remove", "end"}
      \/ /\ lostCopy' = (lostCopy \/ step = "caught") /\ moveTroubles' \in 0..MaxTroubles
         /\ \/ step' = "cancel" /\ goal = "move" /\ T # Move!NoTransfer /\ UNCHANGED <<out, goal>>
            \/ step' = "idle" /\ goal' = "none" /\ out' = [out EXCEPT !.status = "failed"]
  <2>1. \/ transfers[T] = Move!Wanted /\ step' = Move!After[step] /\ UNCHANGED <<goal, out, lostCopy, moveTroubles>>
        \/ Move!Fail /\ lostCopy' = (lostCopy \/ step = "caught") /\ moveTroubles' \in 0..MaxTroubles
    BY <1>0, <1>c DEF Move!Wait, Move!Trouble, T, SourceTyped, Move!MigrationAssumption
  <2>2. ASSUME transfers[T] = Move!Wanted, step' = Move!After[step], UNCHANGED <<goal, out, lostCopy, moveTroubles>>
        PROVE  /\ \/ step = "imported" /\ step' = "dns"
                  \/ step = "finished" /\ kind = "mail" /\ step' = "pack"
                  \/ step = "finished" /\ kind = "site" /\ step' \in {"remove", "end"}
                  \/ step = "caught" /\ goal = "copy" /\ step' = "end"
                  \/ step = "caught" /\ goal = "move" /\ step' \in {"remove", "end"}
    BY <1>c, <2>2, AfterIs
  <2>3. ASSUME Move!Fail, lostCopy' = (lostCopy \/ step = "caught"), moveTroubles' \in 0..MaxTroubles
        PROVE  \/ step' = "cancel" /\ goal = "move" /\ T # Move!NoTransfer /\ UNCHANGED <<out, goal>>
               \/ step' = "idle" /\ goal' = "none" /\ out' = [out EXCEPT !.status = "failed"]
    BY <1>c, <2>3 DEF Move!Fail, T
  <2>4. QED BY <2>1, <2>2, <2>3
<1>e. step' \in {"cancel", "idle", "dns", "pack", "remove", "end"}
  BY <1>d
<1> USE <1>0, <1>a, <1>b, <1>c, <1>d, <1>e DEF Move!theirs, Move!ours, Move!mine, Move!rows,
        Move!disk, Move!queue, Move!option, Move!source
<1>1. MoveTyped'
  <2>1. SourceTyped'
    BY DEF SourceTyped, Move!NoTransfer, Move!Step, Move!Call
  <2>2. NetTyped'
    BY DEF NetTyped
  <2>3. RowsTyped'
    BY DEF RowsTyped, Move!NoTransfer
  <2>4. DiskTyped'
    BY DEF DiskTyped
  <2>5. QueueTyped'
    BY DEF QueueTyped, RowsTyped, Move!NoWork
  <2>6. QED BY <2>1, <2>2, <2>3, <2>4, <2>5 DEF MoveTyped
<1>2. Phases'
  BY DEF Phases, Longer, Move!NoTransfer
<1>3. OneCall'
  BY DEF OneCall, Copying, T, SourceTyped
<1>4. ASSUME ~deleted' PROVE Protected'
  <2>0. /\ ~deleted /\ Unused /\ Own /\ Loading /\ SetUp /\ NoCopyYet /\ SamePack
        /\ OneJob /\ Copied /\ Safe
    BY <1>4 DEF MoveInv, Protected
  <2> USE <2>0 DEF OneCall, SourceTyped, NetTyped, RowsTyped, DiskTyped, QueueTyped, Moving,
          Move!Wanted, Works
  <2>1. Unused'
    BY DEF Unused, T, Move!Transfer, Move!NoTransfer, Move!NoArchive, Move!NoWork
  <2>2. Own'
    BY DEF Own, Underway, After1, Before2, Copying, T, Move!NoTransfer
  <2>3. Loading'
    BY DEF Loading, Filling, Has, Applied, At, After1, T
  <2>4. SetUp'
    <3>1. CASE step = "imported" /\ step' = "dns"
      BY <3>1 DEF SetUp, Kept, At, Before2, Copying, Loading, Filling, After1, Has, T
    <3>2. CASE step = "finished" /\ step' \in {"pack", "remove", "end"}
      BY <3>2 DEF SetUp, Kept, At, Before2, Copying, T
    <3>3. CASE step = "caught" /\ step' \in {"remove", "end"}
      BY <3>3 DEF SetUp, SamePack, InCopy, Pushed, Kept, At, Before2, Copying, T
    <3>4. CASE goal' # "move" \/ step' \in {"cancel", "idle"}
      BY <3>4 DEF SetUp, At, Before2, Copying
    <3>5. QED BY <3>1, <3>2, <3>3, <3>4
  <2>5. NoCopyYet'
    BY DEF NoCopyYet, Clear, Asked, TheJob, After1, Before2, T
  <2>6. SamePack'
    BY DEF SamePack, InCopy, Sound, Pushed, Asked, Applied, Copying, T
  <2>7. OneJob'
    BY DEF OneJob, Sound, Pushed, Asked, TheJob, T, NoCopyYet, Before2, Copying, Clear
  <2>8. Copied'
    BY DEF Copied, Clear, Sound, Asked, TheJob, At, Copying, T, SamePack, OneJob, Pushed,
       InCopy, SetUp, NoCopyYet, Before2
  <2>9. Safe'
    BY DEF Safe, Copying, Move!NoTransfer
  <2>10. QED BY <2>1, <2>2, <2>3, <2>4, <2>5, <2>6, <2>7, <2>8, <2>9 DEF Protected
<1>5. QED BY <1>1, <1>2, <1>3, <1>4 DEF MoveInv

LEMMA SwitchDNSKeeps ==
  ASSUME MoveInv, Move!MigrationAssumption, Move!SwitchDNS
  PROVE  MoveInv'
<1>0. /\ MoveTyped /\ Phases /\ OneCall
      /\ SourceTyped /\ NetTyped /\ RowsTyped /\ DiskTyped /\ QueueTyped
  BY DEF MoveInv, MoveTyped
<1>a. step \notin Move!Call
  BY <1>0 DEF Move!SwitchDNS, Move!theirs, Move!ours, Move!mine, Move!rows, Move!disk,
     Move!queue, Move!option, Move!source, Move!Call, OneCall
<1>b. answer = "none" /\ \A r \in net : ~r.live
  BY <1>0, <1>a, Silent
<1>c. step = "dns" /\ goal = "move" /\ UNCHANGED <<Move!option, src, arrived, mark, pack, net, answer, Move!theirs, lostCopy>> /\ out.status # "done"
  BY <1>0 DEF Move!SwitchDNS, OneCall, Copying, SourceTyped
<1>d. dns' \in {"src", "dst"} /\ moveTroubles' \in 0..MaxTroubles
      /\ \/ step' = "finalize" /\ UNCHANGED <<goal, out>>
         \/ step' = "cancel" /\ T # Move!NoTransfer /\ UNCHANGED <<out, goal>>
         \/ step' = "idle" /\ goal' = "none" /\ out' = [out EXCEPT !.status = "failed"]
  BY <1>0, <1>c, AfterIs DEF Move!SwitchDNS, Move!Fail, Move!Trouble, T, SourceTyped,
     Move!MigrationAssumption
<1> USE <1>0, <1>a, <1>b, <1>c, <1>d DEF Move!SwitchDNS, Move!theirs, Move!ours, Move!mine,
        Move!rows, Move!disk, Move!queue, Move!option, Move!source
<1>1. MoveTyped'
  <2>1. SourceTyped'
    BY DEF SourceTyped, Move!NoTransfer, Move!Step, Move!Call
  <2>2. NetTyped'
    BY DEF NetTyped
  <2>3. RowsTyped'
    BY DEF RowsTyped, Move!NoTransfer
  <2>4. DiskTyped'
    BY DEF DiskTyped
  <2>5. QueueTyped'
    BY DEF QueueTyped, RowsTyped, Move!NoWork
  <2>6. QED BY <2>1, <2>2, <2>3, <2>4, <2>5 DEF MoveTyped
<1>2. Phases'
  BY DEF Phases, Longer, Move!NoTransfer
<1>3. OneCall'
  BY DEF OneCall, Copying, T, SourceTyped
<1>4. ASSUME ~deleted' PROVE Protected'
  <2>0. /\ ~deleted /\ Unused /\ Own /\ Loading /\ SetUp /\ NoCopyYet /\ SamePack
        /\ OneJob /\ Copied /\ Safe
    BY <1>4 DEF MoveInv, Protected
  <2> USE <2>0 DEF OneCall, SourceTyped, NetTyped, RowsTyped, DiskTyped, QueueTyped
  <2>1. Unused'
    BY DEF Unused, T, Move!Transfer, Move!NoTransfer, Move!NoArchive, Move!NoWork
  <2>2. Own'
    BY DEF Own, Underway, Moving, After1, Before2, Copying, T, Move!NoTransfer
  <2>3. Loading'
    BY DEF Loading, Filling, Moving, Has, Applied, Works, At, After1, T
  <2>4. SetUp'
    BY DEF SetUp, Kept, At, Before2, Copying, T
  <2>5. NoCopyYet'
    BY DEF NoCopyYet, Moving, Clear, Asked, TheJob, Works, After1, Before2, T
  <2>6. SamePack'
    BY DEF SamePack, InCopy, Sound, Pushed, Asked, Applied, Works, Copying, T
  <2>7. OneJob'
    BY DEF OneJob, Sound, Pushed, Asked, Works, TheJob, T
  <2>8. Copied'
    BY DEF Copied, Clear, Sound, Asked, Works, TheJob, At, Copying, T
  <2>9. Safe'
    BY DEF Safe, Copying, Move!NoTransfer
  <2>10. QED BY <2>1, <2>2, <2>3, <2>4, <2>5, <2>6, <2>7, <2>8, <2>9 DEF Protected
<1>5. QED BY <1>1, <1>2, <1>3, <1>4 DEF MoveInv

LEMMA RemoveKeeps ==
  ASSUME MoveInv, Move!MigrationAssumption, Move!Remove
  PROVE  MoveInv'
<1>0. /\ MoveTyped /\ Phases /\ OneCall
      /\ SourceTyped /\ NetTyped /\ RowsTyped /\ DiskTyped /\ QueueTyped
  BY DEF MoveInv, MoveTyped
<1>a. step \notin Move!Call
  BY <1>0 DEF Move!Remove, Move!theirs, Move!ours, Move!mine, Move!rows, Move!disk, Move!queue,
     Move!option, Move!source, Move!Call, OneCall
<1>b. answer = "none" /\ \A r \in net : ~r.live
  BY <1>0, <1>a, Silent
<1>c. step = "remove" /\ goal = "move" /\ UNCHANGED <<Move!option, dns, out, goal, arrived, mark, pack, net, answer, Move!theirs, lostCopy>> /\ out.status # "done"
  BY <1>0 DEF Move!Remove, OneCall, Copying, SourceTyped
<1>d. src' \in {"here", "part", "gone"} /\ step' \in {"remove", "end"} /\ moveTroubles' \in 0..MaxTroubles
  BY <1>0, <1>c DEF Move!Remove, Move!Trouble, SourceTyped, Move!MigrationAssumption
<1> USE <1>0, <1>a, <1>b, <1>c, <1>d DEF Move!Remove, Move!theirs, Move!ours, Move!mine,
        Move!rows, Move!disk, Move!queue, Move!option, Move!source
<1>1. MoveTyped'
  <2>1. SourceTyped'
    BY DEF SourceTyped, Move!NoTransfer, Move!Step, Move!Call
  <2>2. NetTyped'
    BY DEF NetTyped
  <2>3. RowsTyped'
    BY DEF RowsTyped, Move!NoTransfer
  <2>4. DiskTyped'
    BY DEF DiskTyped
  <2>5. QueueTyped'
    BY DEF QueueTyped, RowsTyped, Move!NoWork
  <2>6. QED BY <2>1, <2>2, <2>3, <2>4, <2>5 DEF MoveTyped
<1>2. Phases'
  BY DEF Phases, Longer, Move!NoTransfer
<1>3. OneCall'
  BY DEF OneCall, Copying, T, SourceTyped
<1>4. ASSUME ~deleted' PROVE Protected'
  <2>0. /\ ~deleted /\ Unused /\ Own /\ Loading /\ SetUp /\ NoCopyYet /\ SamePack
        /\ OneJob /\ Copied /\ Safe
    BY <1>4 DEF MoveInv, Protected
  <2> USE <2>0 DEF OneCall, SourceTyped, NetTyped, RowsTyped, DiskTyped, QueueTyped, Works
  <2>1. Unused'
    BY DEF Unused, T, Move!Transfer, Move!NoTransfer, Move!NoArchive, Move!NoWork
  <2>2. Own'
    BY DEF Own, Underway, Moving, After1, Before2, Copying, T, Move!NoTransfer
  <2>3. Loading'
    BY DEF Loading, Filling, Moving, Has, Applied, At, After1, T
  <2>4. SetUp'
    BY DEF SetUp, Kept, At, Before2, Copying, T
  <2>5. NoCopyYet'
    BY DEF NoCopyYet, Moving, Clear, Asked, TheJob, After1, Before2, T
  <2>6. SamePack'
    BY DEF SamePack, InCopy, Sound, Pushed, Asked, Applied, Copying, T
  <2>7. OneJob'
    BY DEF OneJob, Sound, Pushed, Asked, TheJob, T
  <2>8. Copied'
    BY DEF Copied, Clear, Sound, Asked, TheJob, At, Copying, T
  <2>9. Safe'
    <3>1. /\ built /\ 1..mark \subseteq have /\ owner = T /\ T \in Move!Transfer /\ T # Move!NoTransfer
          /\ transfers[T] \notin {"none", "receiving"} /\ task[T]
          /\ \A r \in net : r.path = "cancel" => r.t # T
      BY DEF SetUp, At, Kept, Own, Underway, Moving, After1, Before2, Copying, Move!Transfer,
         Move!NoTransfer
    <3>2. QED BY <3>1 DEF Safe, Copying, T
  <2>10. QED BY <2>1, <2>2, <2>3, <2>4, <2>5, <2>6, <2>7, <2>8, <2>9 DEF Protected
<1>5. QED BY <1>1, <1>2, <1>3, <1>4 DEF MoveInv

LEMMA DoneKeeps ==
  ASSUME MoveInv, Move!MigrationAssumption, Move!Done
  PROVE  MoveInv'
<1>0. /\ MoveTyped /\ Phases /\ OneCall
      /\ SourceTyped /\ NetTyped /\ RowsTyped /\ DiskTyped /\ QueueTyped
  BY DEF MoveInv, MoveTyped
<1>a. step \notin Move!Call
  BY <1>0 DEF Move!Done, Move!theirs, Move!ours, Move!mine, Move!rows, Move!disk, Move!queue,
     Move!option, Move!source, Move!Call, OneCall
<1>b. answer = "none" /\ \A r \in net : ~r.live
  BY <1>0, <1>a, Silent
<1>c. step = "end" /\ step' = "idle" /\ goal' = "none" /\ out' = [out EXCEPT !.status = "done"]
      /\ UNCHANGED <<Move!option, src, dns, arrived, mark, pack, net, answer, Move!theirs, lostCopy, moveTroubles>>
  BY DEF Move!Done
<1> USE <1>0, <1>a, <1>b, <1>c DEF Move!Done, Move!theirs, Move!ours, Move!mine, Move!rows,
        Move!disk, Move!queue, Move!option, Move!source
<1>1. MoveTyped'
  <2>1. SourceTyped'
    BY DEF SourceTyped, Move!NoTransfer, Move!Step, Move!Call
  <2>2. NetTyped'
    BY DEF NetTyped
  <2>3. RowsTyped'
    BY DEF RowsTyped, Move!NoTransfer
  <2>4. DiskTyped'
    BY DEF DiskTyped
  <2>5. QueueTyped'
    BY DEF QueueTyped, RowsTyped, Move!NoWork
  <2>6. QED BY <2>1, <2>2, <2>3, <2>4, <2>5 DEF MoveTyped
<1>2. Phases'
  BY DEF Phases, Longer, Move!NoTransfer
<1>3. OneCall'
  BY DEF OneCall, Copying, T, SourceTyped
<1>4. ASSUME ~deleted' PROVE Protected'
  <2>0. /\ ~deleted /\ Unused /\ Own /\ Loading /\ SetUp /\ NoCopyYet /\ SamePack
        /\ OneJob /\ Copied /\ Safe
    BY <1>4 DEF MoveInv, Protected
  <2> USE <2>0 DEF OneCall, SourceTyped, NetTyped, RowsTyped, DiskTyped, QueueTyped
  <2>1. Unused'
    BY DEF Unused, T, Move!Transfer, Move!NoTransfer, Move!NoArchive, Move!NoWork
  <2>2. Own'
    BY DEF Own, Underway, Moving, After1, Before2, Copying, T, Move!NoTransfer
  <2>3. Loading'
    BY DEF Loading, Filling, Moving, Has, Applied, Works, At, After1, T
  <2>4. SetUp'
    BY DEF SetUp, Kept, At, Before2, Copying, T
  <2>5. NoCopyYet'
    BY DEF NoCopyYet, Moving, Clear, Asked, TheJob, Works, After1, Before2, T
  <2>6. SamePack'
    BY DEF SamePack, InCopy, Sound, Pushed, Asked, Applied, Works, Copying, T
  <2>7. OneJob'
    BY DEF OneJob, Sound, Pushed, Asked, Works, TheJob, T
  <2>8. Copied'
    BY DEF Copied, Clear, Sound, Asked, Works, TheJob, At, Copying, T, SetUp, At, Own,
       Underway, Moving, After1, Before2
  <2>9. Safe'
    BY DEF Safe, Copying, Move!NoTransfer
  <2>10. QED BY <2>1, <2>2, <2>3, <2>4, <2>5, <2>6, <2>7, <2>8, <2>9 DEF Protected
<1>5. QED BY <1>1, <1>2, <1>3, <1>4 DEF MoveInv

LEMMA AskKeeps ==
  ASSUME MoveInv, Move!MigrationAssumption, Move!Ask
  PROVE  MoveInv'
<1>0. /\ MoveTyped /\ Phases /\ OneCall
      /\ SourceTyped /\ NetTyped /\ RowsTyped /\ DiskTyped /\ QueueTyped
  BY DEF MoveInv, MoveTyped
<1>a. net' = net \cup {[path |-> step, t |-> T, body |-> pack, live |-> TRUE, phase |-> 0, seen |-> "none", built |-> FALSE]}
      /\ step \in Move!Call /\ answer = "none" /\ (\A r \in net : ~r.live)
      /\ UNCHANGED <<Move!option, Move!source, answer, Move!theirs, lostCopy, moveTroubles>>
  BY DEF Move!Ask, Move!Waiting, T
<1>b. \E a : /\ net' = net \cup {a} /\ a \in Request /\ a.path = step /\ a.t = T /\ a.body = pack
              /\ a.live /\ a.phase = 0 /\ a.seen = "none"
  <2> DEFINE new == [path |-> step, t |-> T, body |-> pack, live |-> TRUE, phase |-> 0, seen |-> "none", built |-> FALSE]
  <2>1. T \in 0..MaxTransfers /\ pack \in SUBSET Move!Message /\ "none" \in Move!Status /\ 0 \in 0..3
    BY <1>0 DEF SourceTyped, T, Move!Status
  <2>2. new \in Request
    BY <1>a, <2>1 DEF Request
  <2>3. /\ net' = net \cup {new} /\ new.path = step /\ new.t = T /\ new.body = pack
        /\ new.live /\ new.phase = 0 /\ new.seen = "none"
    BY <1>a
  <2> HIDE DEF new
  <2>4. QED BY <2>2, <2>3
<1> USE <1>0, <1>a, <1>b DEF Move!theirs, Move!ours, Move!mine, Move!rows, Move!disk,
        Move!queue, Move!option, Move!source
<1>1. MoveTyped'
  <2>1. SourceTyped'
    BY DEF SourceTyped, Move!NoTransfer
  <2>2. NetTyped'
    BY DEF NetTyped
  <2>3. RowsTyped'
    BY DEF RowsTyped, Move!NoTransfer
  <2>4. DiskTyped'
    BY DEF DiskTyped
  <2>5. QueueTyped'
    BY DEF QueueTyped, RowsTyped, Move!NoWork
  <2>6. QED BY <2>1, <2>2, <2>3, <2>4, <2>5 DEF MoveTyped
<1>2. Phases'
  BY DEF Phases, Longer, Move!NoTransfer
<1>3. OneCall'
  BY DEF OneCall, Copying, T, SourceTyped
<1>4. ASSUME ~deleted' PROVE Protected'
  <2>0. /\ ~deleted /\ Unused /\ Own /\ Loading /\ SetUp /\ NoCopyYet /\ SamePack
        /\ OneJob /\ Copied /\ Safe
    BY <1>4 DEF MoveInv, Protected
  <2> USE <2>0 DEF OneCall, SourceTyped, NetTyped, RowsTyped, DiskTyped, QueueTyped
  <2>1. Unused'
    BY DEF Unused, T, Move!Transfer, Move!NoTransfer, Move!NoArchive, Move!NoWork
  <2>2. Own'
    BY DEF Own, Underway, Moving, After1, Before2, Copying, T, Move!NoTransfer, Move!Call
  <2>3. Loading'
    BY DEF Loading, Filling, Moving, Has, Applied, Works, At, After1, T
  <2>4. SetUp'
    BY DEF SetUp, Kept, At, Before2, Copying, T
  <2>5. NoCopyYet'
    BY DEF NoCopyYet, Moving, Clear, Asked, TheJob, Works, After1, Before2, T
  <2>6. SamePack'
    BY DEF SamePack, InCopy, Sound, Pushed, Asked, Applied, Works, Copying, T
  <2>7. OneJob'
    BY DEF OneJob, Sound, Pushed, Asked, Works, TheJob, T
  <2>8. Copied'
    BY DEF Copied, Clear, Sound, Asked, Works, TheJob, At, Copying, T
  <2>9. Safe'
    BY DEF Safe, Copying, Move!NoTransfer
  <2>10. QED BY <2>1, <2>2, <2>3, <2>4, <2>5, <2>6, <2>7, <2>8, <2>9 DEF Protected
<1>5. QED BY <1>1, <1>2, <1>3, <1>4 DEF MoveInv

LEMMA GiveUpKeeps ==
  ASSUME MoveInv, Move!MigrationAssumption, Move!GiveUp
  PROVE  MoveInv'
<1>0. /\ MoveTyped /\ Phases /\ OneCall
      /\ SourceTyped /\ NetTyped /\ RowsTyped /\ DiskTyped /\ QueueTyped
  BY DEF MoveInv, MoveTyped
<1>a. UNCHANGED <<Move!option, Move!source, Move!theirs, lostCopy>> /\ answer' = "error" /\ moveTroubles' \in 0..MaxTroubles /\ step \in Move!Call
  BY <1>0 DEF Move!GiveUp, Move!Trouble, SourceTyped, Move!MigrationAssumption, OneCall,
     Move!Call, NetTyped, Request
<1>b. net' \subseteq Request /\ (\A q \in net' : ~q.live)
      /\ \A q \in net' : \E p \in net : q = [p EXCEPT !.live = FALSE] /\ q.path = p.path /\ q.t = p.t /\ q.body = p.body /\ q.phase = p.phase /\ q.seen = p.seen /\ q.built = p.built
  <2>1. PICK r \in net : /\ r.live /\ net' \subseteq (net \ {r}) \cup {[r EXCEPT !.live = FALSE]}
    BY DEF Move!GiveUp
  <2>2. \A q \in net \ {r} : ~q.live
    BY <1>0, <2>1 DEF OneCall
  <2>3. \A q \in net : q \in Request
    BY <1>0 DEF NetTyped
  <2>4. [r EXCEPT !.live = FALSE] \in Request
    BY <2>1, <2>3 DEF Request
  <2>5. QED BY <2>1, <2>2, <2>3, <2>4 DEF Request
<1> USE <1>0, <1>a, <1>b DEF Move!theirs, Move!ours, Move!mine, Move!rows, Move!disk,
        Move!queue, Move!option, Move!source
<1>1. MoveTyped'
  <2>1. SourceTyped'
    BY DEF SourceTyped, Move!NoTransfer
  <2>2. NetTyped'
    BY DEF NetTyped
  <2>3. RowsTyped'
    BY DEF RowsTyped, Move!NoTransfer
  <2>4. DiskTyped'
    BY DEF DiskTyped
  <2>5. QueueTyped'
    BY DEF QueueTyped, RowsTyped, Move!NoWork
  <2>6. QED BY <2>1, <2>2, <2>3, <2>4, <2>5 DEF MoveTyped
<1>2. Phases'
  BY DEF Phases, Longer, Move!NoTransfer
<1>3. OneCall'
  BY DEF OneCall, Copying, T
<1>4. ASSUME ~deleted' PROVE Protected'
  <2>0. /\ ~deleted /\ Unused /\ Own /\ Loading /\ SetUp /\ NoCopyYet /\ SamePack
        /\ OneJob /\ Copied /\ Safe
    BY <1>4 DEF MoveInv, Protected
  <2> USE <2>0 DEF OneCall, SourceTyped, NetTyped, RowsTyped, DiskTyped, QueueTyped, Works
  <2>1. Unused'
    <3>1. \A t \in Move!Transfer : transfers[t] = "none" =>
            /\ t # T /\ files[t] = {} /\ ~late[t].there
            /\ \A r \in net' : r.t = t => r.path \in {"hello", "begin"}
            /\ \A j \in theirJobs : j.t # t
            /\ work.t # t
      BY DEF Unused
    <3>2. \A r \in net' : r.path = "begin" /\ r.phase = 2 => owner = r.t /\ transfers[r.t] = "none"
      BY DEF Unused
    <3>3. \A r, q \in net' : r.path = "begin" /\ r.phase = 2 /\ q.path = "begin" /\ q.phase = 2 => r = q
      <4> SUFFICES ASSUME NEW r \in net', NEW q \in net', r.path = "begin", r.phase = 2,
                          q.path = "begin", q.phase = 2
                   PROVE  r = q
        OBVIOUS
      <4>1. PICK p \in net : r = [p EXCEPT !.live = FALSE] /\ p.path = r.path /\ p.phase = r.phase
        OBVIOUS
      <4>2. PICK o \in net : q = [o EXCEPT !.live = FALSE] /\ o.path = q.path /\ o.phase = q.phase
        OBVIOUS
      <4>3. p = o
        BY <4>1, <4>2 DEF Unused
      <4>4. QED BY <4>1, <4>2, <4>3
    <3>4. QED BY <3>1, <3>2, <3>3 DEF Unused, T
  <2>2. Own'
    BY DEF Own, Underway, Moving, After1, Before2, Copying, T, Move!NoTransfer
  <2>3. Loading'
    BY DEF Loading, Filling, Moving, Has, Applied, At, After1, T
  <2>4. SetUp'
    BY DEF SetUp, Kept, At, Before2, Copying, T
  <2>5. NoCopyYet'
    BY DEF NoCopyYet, Moving, Clear, Asked, TheJob, After1, Before2, T
  <2>6. SamePack'
    BY DEF SamePack, InCopy, Sound, Pushed, Asked, Applied, Copying, T
  <2>7. OneJob'
    BY DEF OneJob, Sound, Pushed, Asked, TheJob, T
  <2>8. Copied'
    BY DEF Copied, Clear, Sound, Asked, TheJob, At, Copying, T
  <2>9. Safe'
    BY DEF Safe, Copying, Move!NoTransfer
  <2>10. QED BY <2>1, <2>2, <2>3, <2>4, <2>5, <2>6, <2>7, <2>8, <2>9 DEF Protected
<1>5. QED BY <1>1, <1>2, <1>3, <1>4 DEF MoveInv

LEMMA SourceDiesKeeps ==
  ASSUME MoveInv, Move!MigrationAssumption, Move!SourceDies
  PROVE  MoveInv'
<1>0. /\ MoveTyped /\ Phases /\ OneCall
      /\ SourceTyped /\ NetTyped /\ RowsTyped /\ DiskTyped /\ QueueTyped
  BY DEF MoveInv, MoveTyped
<1>a. UNCHANGED <<Move!option, src, dns, out, goal, arrived, mark, pack, Move!theirs>> /\ answer' = "none" /\ step' = "idle"
      /\ moveTroubles' \in 0..MaxTroubles /\ step' \in Move!Step /\ lostCopy' = (lostCopy \/ (step \in Copying))
  BY <1>0 DEF Move!SourceDies, Move!Trouble, SourceTyped, Move!MigrationAssumption, Move!Step,
     Copying
<1>b. net' \subseteq Request /\ (\A q \in net' : ~q.live)
      /\ \A q \in net' : \E p \in net : q = [p EXCEPT !.live = FALSE] /\ q.path = p.path /\ q.t = p.t /\ q.body = p.body /\ q.phase = p.phase /\ q.seen = p.seen /\ q.built = p.built
  <2>1. \A p \in net : p \in Request
    BY <1>0 DEF NetTyped
  <2>2. \A p \in net : [p EXCEPT !.live = FALSE] \in Request
    BY <2>1 DEF Request
  <2>3. net' = {[r EXCEPT !.live = FALSE] : r \in net}
    BY DEF Move!SourceDies
  <2>4. QED BY <2>1, <2>2, <2>3 DEF Request
<1> USE <1>0, <1>a, <1>b DEF Move!theirs, Move!ours, Move!mine, Move!rows, Move!disk,
        Move!queue, Move!option, Move!source
<1>1. MoveTyped'
  <2>1. SourceTyped'
    BY DEF SourceTyped, Move!NoTransfer
  <2>2. NetTyped'
    BY DEF NetTyped
  <2>3. RowsTyped'
    BY DEF RowsTyped, Move!NoTransfer
  <2>4. DiskTyped'
    BY DEF DiskTyped
  <2>5. QueueTyped'
    BY DEF QueueTyped, RowsTyped, Move!NoWork
  <2>6. QED BY <2>1, <2>2, <2>3, <2>4, <2>5 DEF MoveTyped
<1>2. Phases'
  BY DEF Phases, Longer, Move!NoTransfer
<1>3. OneCall'
  BY DEF OneCall, Copying, T
<1>4. ASSUME ~deleted' PROVE Protected'
  <2>0. /\ ~deleted /\ Unused /\ Own /\ Loading /\ SetUp /\ NoCopyYet /\ SamePack
        /\ OneJob /\ Copied /\ Safe
    BY <1>4 DEF MoveInv, Protected
  <2> USE <2>0 DEF OneCall, SourceTyped, NetTyped, RowsTyped, DiskTyped, QueueTyped
  <2>1. Unused'
    <3>1. \A t \in Move!Transfer : transfers[t] = "none" =>
            /\ t # T /\ files[t] = {} /\ ~late[t].there
            /\ \A r \in net' : r.t = t => r.path \in {"hello", "begin"}
            /\ \A j \in theirJobs : j.t # t
            /\ work.t # t
      BY DEF Unused
    <3>2. \A r \in net' : r.path = "begin" /\ r.phase = 2 => owner = r.t /\ transfers[r.t] = "none"
      BY DEF Unused
    <3>3. \A r, q \in net' : r.path = "begin" /\ r.phase = 2 /\ q.path = "begin" /\ q.phase = 2 => r = q
      <4> SUFFICES ASSUME NEW r \in net', NEW q \in net', r.path = "begin", r.phase = 2,
                          q.path = "begin", q.phase = 2
                   PROVE  r = q
        OBVIOUS
      <4>1. PICK p \in net : r = [p EXCEPT !.live = FALSE] /\ p.path = r.path /\ p.phase = r.phase
        OBVIOUS
      <4>2. PICK o \in net : q = [o EXCEPT !.live = FALSE] /\ o.path = q.path /\ o.phase = q.phase
        OBVIOUS
      <4>3. p = o
        BY <4>1, <4>2 DEF Unused
      <4>4. QED BY <4>1, <4>2, <4>3
    <3>4. QED BY <3>1, <3>2, <3>3 DEF Unused, T
  <2>2. Own'
    BY DEF Own, Underway, Moving, After1, Before2, Copying, T, Move!NoTransfer
  <2>3. Loading'
    BY DEF Loading, Filling, Moving, Has, Applied, Works, At, After1, T
  <2>4. SetUp'
    BY DEF SetUp, Kept, At, Before2, Copying, T
  <2>5. NoCopyYet'
    BY DEF NoCopyYet, Moving, Clear, Asked, TheJob, Works, After1, Before2, T
  <2>6. SamePack'
    BY DEF SamePack, InCopy, Sound, Pushed, Asked, Applied, Works, Copying, T
  <2>7. OneJob'
    BY DEF OneJob, Sound, Pushed, Asked, Works, TheJob, T
  <2>8. Copied'
    <3>1. Asked({"send", "catchup"}) = {} => Asked({"send", "catchup"})' = {}
      BY DEF Asked, T
    <3>2. Clear => Clear'
      BY <3>1 DEF Clear, TheJob, Works, T
    <3>3. QED BY <3>2 DEF Copied, At, Copying, T, Sound
  <2>9. Safe'
    BY DEF Safe, Copying, Move!NoTransfer
  <2>10. QED BY <2>1, <2>2, <2>3, <2>4, <2>5, <2>6, <2>7, <2>8, <2>9 DEF Protected
<1>5. QED BY <1>1, <1>2, <1>3, <1>4 DEF MoveInv

LEMMA DestinationDiesKeeps ==
  ASSUME MoveInv, Move!MigrationAssumption, Move!DestinationDies
  PROVE  MoveInv'
<1>0. /\ MoveTyped /\ Phases /\ OneCall
      /\ SourceTyped /\ NetTyped /\ RowsTyped /\ DiskTyped /\ QueueTyped
  BY DEF MoveInv, MoveTyped
<1>a. UNCHANGED <<Move!option, Move!source, Move!rows, Move!disk, deleted, lostCopy>> /\ moveTroubles' \in 0..MaxTroubles /\ work' = Move!NoWork
      /\ net' = {r \in net : r.phase = 0}
      /\ \/ answer' = answer /\ \A r \in net : r.live => r.phase = 0
         \/ answer' = "error" /\ step \in Move!Call /\ \A r \in net' : ~r.live
      /\ \/ work = Move!NoWork /\ theirJobs' = theirJobs
         \/ work # Move!NoWork /\ theirJobs' = theirJobs \cup {[kind |-> work.kind, t |-> work.t]}
  <2>1. UNCHANGED <<Move!option, Move!source, Move!rows, Move!disk, deleted, lostCopy>> /\ moveTroubles' \in 0..MaxTroubles /\ work' = Move!NoWork
        /\ net' = {r \in net : r.phase = 0}
        /\ answer' = (IF \E r \in net : r.live /\ r.phase # 0 THEN "error" ELSE answer)
        /\ theirJobs' = IF work = Move!NoWork THEN theirJobs ELSE theirJobs \cup {[kind |-> work.kind, t |-> work.t]}
    <3>1. moveTroubles' \in 0..MaxTroubles
      BY <1>0 DEF Move!DestinationDies, Move!Trouble, SourceTyped, Move!MigrationAssumption
    <3>2. QED BY <3>1 DEF Move!DestinationDies
  <2>2. \A r \in net : r.live => r.path = step
    BY <1>0 DEF OneCall
  <2>3. CASE \E r \in net : r.live /\ r.phase # 0
    <3>1. PICK r \in net : r.live /\ r.phase # 0
      BY <2>3
    <3>2. step \in Move!Call /\ \A q \in net : q.live => q = r
      BY <1>0, <2>2, <3>1 DEF OneCall, NetTyped, Request
    <3>3. answer' = "error" /\ \A q \in net' : ~q.live
      BY <2>1, <2>3, <3>1, <3>2
    <3>4. QED BY <2>1, <3>2, <3>3
  <2>4. CASE ~\E r \in net : r.live /\ r.phase # 0
    BY <2>1, <2>4
  <2>5. QED BY <2>3, <2>4
<1>b. Move!NoWork \in Work
  BY DEF Move!NoWork, Work, Move!NoTransfer, Move!MigrationAssumption
<1> USE <1>0, <1>a, <1>b DEF Move!theirs, Move!ours, Move!mine, Move!rows, Move!disk,
        Move!queue, Move!option, Move!source
<1>1. MoveTyped'
  <2>1. SourceTyped'
    BY DEF SourceTyped, Move!NoTransfer
  <2>2. NetTyped'
    BY DEF NetTyped
  <2>3. RowsTyped'
    BY DEF RowsTyped, Move!NoTransfer
  <2>4. DiskTyped'
    BY DEF DiskTyped
  <2>5. QueueTyped'
    BY DEF QueueTyped, RowsTyped, Move!NoWork
  <2>6. QED BY <2>1, <2>2, <2>3, <2>4, <2>5 DEF MoveTyped
<1>2. Phases'
  BY DEF Phases, Longer, Move!NoTransfer
<1>3. OneCall'
  BY DEF OneCall, Copying, T, NetTyped
<1>4. ASSUME ~deleted' PROVE Protected'
  <2>0. /\ ~deleted /\ Unused /\ Own /\ Loading /\ SetUp /\ NoCopyYet /\ SamePack
        /\ OneJob /\ Copied /\ Safe
    BY <1>4 DEF MoveInv, Protected
  <2> USE <2>0 DEF Move!NoWork, OneCall, SourceTyped, NetTyped, RowsTyped, DiskTyped,
          QueueTyped
  <2>1. Unused'
    BY DEF Unused, T, Move!Transfer, Move!NoTransfer, Move!NoArchive
  <2>2. Own'
    BY DEF Own, Underway, Moving, After1, Before2, Copying, T, Move!NoTransfer
  <2>3. Loading'
    BY DEF Loading, Filling, Moving, Has, Applied, Works, At, After1, T
  <2>4. SetUp'
    BY DEF SetUp, Kept, At, Before2, Copying, T
  <2>5. NoCopyYet'
    BY DEF NoCopyYet, Moving, Clear, Asked, TheJob, Works, After1, Before2, T
  <2>6. SamePack'
    BY DEF SamePack, InCopy, Sound, Pushed, Asked, Applied, Works, Copying, T
  <2>7. OneJob'
    BY DEF OneJob, Sound, Pushed, Asked, Works, TheJob, T
  <2>8. Copied'
    BY DEF Copied, Clear, Sound, Asked, Works, TheJob, At, Copying, T
  <2>9. Safe'
    BY DEF Safe, Copying, Move!NoTransfer
  <2>10. QED BY <2>1, <2>2, <2>3, <2>4, <2>5, <2>6, <2>7, <2>8, <2>9 DEF Protected
<1>5. QED BY <1>1, <1>2, <1>3, <1>4 DEF MoveInv

LEMMA AnsweredKeeps ==
  ASSUME MoveInv, Move!MigrationAssumption, Move!Answered
  PROVE  MoveInv'
<1>0. /\ MoveTyped /\ Phases /\ OneCall
      /\ SourceTyped /\ NetTyped /\ RowsTyped /\ DiskTyped /\ QueueTyped
  BY DEF MoveInv, MoveTyped
<1>a. step \in Move!Call /\ answer \in {"ok", "error"} /\ answer' = "none"
      /\ (\A r \in net : ~r.live) /\ goal # "none" /\ out.status # "done"
      /\ lostCopy' = (lostCopy \/ (answer = "error" /\ step \in {"send", "catchup"}))
      /\ UNCHANGED <<Move!option, src, dns, arrived, mark, pack, net, Move!theirs, moveTroubles>>
  BY <1>0 DEF Move!Answered, OneCall, Move!Call, NetTyped
<1>b. \/ /\ answer = "ok" /\ UNCHANGED <<goal, out>>
         /\ (\/ step = "hello" /\ step' = "package"
             \/ step = "begin" /\ step' = "chunk1"
             \/ step = "chunk1" /\ step' = "chunk2"
             \/ step = "chunk2" /\ step' = "finish"
             \/ step = "finish" /\ step' = "imported"
             \/ step = "finalize" /\ step' = "finished"
             \/ step = "send" /\ step' = "catchup"
             \/ step = "catchup" /\ step' = "caught")
      \/ /\ step = "cancel" \/ answer = "error"
         /\ \/ step' = "cancel" /\ goal = "move" /\ T # Move!NoTransfer /\ UNCHANGED <<out, goal>>
            \/ step' = "idle" /\ goal' = "none" /\ out' = [out EXCEPT !.status = "failed"]
      \/ answer = "error" /\ step \in {"chunk1", "chunk2", "send"} /\ UNCHANGED <<step, goal, out>>
  <2>1. CASE step # "cancel" /\ answer = "ok"
    <3>1. step' = Move!After[step] /\ UNCHANGED <<goal, out>>
      BY <2>1 DEF Move!Answered
    <3>2. QED BY <1>a, <2>1, <3>1, AfterIs DEF Move!Call
  <2>2. CASE step = "cancel" \/ answer = "error"
    <3>1. ~(step # "cancel" /\ answer = "ok")
      BY <2>2, <1>a
    <3>2. \/ step' = "cancel" /\ goal = "move" /\ T # Move!NoTransfer /\ UNCHANGED <<out, goal>>
          \/ step' = "idle" /\ goal' = "none" /\ out' = [out EXCEPT !.status = "failed"]
          \/ step \in {"chunk1", "chunk2", "send"} /\ UNCHANGED <<step, goal, out>>
      BY <3>1 DEF Move!Answered, Move!Fail, T
    <3>3. QED BY <2>2, <3>1, <3>2
  <2>3. QED BY <1>a, <2>1, <2>2
<1> USE <1>0, <1>a, <1>b DEF Move!theirs, Move!ours, Move!mine, Move!rows, Move!disk,
        Move!queue, Move!option, Move!source
<1>1. MoveTyped'
  <2>1. SourceTyped'
    BY DEF SourceTyped, Move!NoTransfer, Move!Step, Move!Call
  <2>2. NetTyped'
    BY DEF NetTyped
  <2>3. RowsTyped'
    BY DEF RowsTyped, Move!NoTransfer
  <2>4. DiskTyped'
    BY DEF DiskTyped
  <2>5. QueueTyped'
    BY DEF QueueTyped, RowsTyped, Move!NoWork
  <2>6. QED BY <2>1, <2>2, <2>3, <2>4, <2>5 DEF MoveTyped
<1>2. Phases'
  BY DEF Phases, Longer, Move!NoTransfer
<1>3. OneCall'
  BY DEF OneCall, Copying, T, SourceTyped
<1>4. ASSUME ~deleted' PROVE Protected'
  <2>0. /\ ~deleted /\ Unused /\ Own /\ Loading /\ SetUp /\ NoCopyYet /\ SamePack
        /\ OneJob /\ Copied /\ Safe
    BY <1>4 DEF MoveInv, Protected
  <2> USE <2>0 DEF OneCall, SourceTyped, NetTyped, RowsTyped, DiskTyped, QueueTyped
  <2>1. Unused'
    BY DEF Unused, T, Move!Transfer, Move!NoTransfer, Move!NoArchive, Move!NoWork
  <2>2. Own'
    BY DEF Own, Underway, Moving, After1, Before2, Copying, T, Move!NoTransfer, Move!Call
  <2>3. Loading'
    BY DEF Loading, Filling, Moving, Has, Applied, Works, At, After1, T
  <2>4. SetUp'
    BY DEF SetUp, Kept, At, Before2, Copying, T
  <2>5. NoCopyYet'
    BY DEF NoCopyYet, Moving, Clear, Asked, TheJob, Works, After1, Before2, T
  <2>6. SamePack'
    BY DEF SamePack, InCopy, Sound, Pushed, Asked, Applied, Works, Copying, T
  <2>7. OneJob'
    BY DEF OneJob, Sound, Pushed, Asked, Works, TheJob, T
  <2>8. Copied'
    BY DEF Copied, Clear, Sound, Asked, Works, TheJob, At, Copying, T
  <2>9. Safe'
    BY DEF Safe, Copying, Move!NoTransfer
  <2>10. QED BY <2>1, <2>2, <2>3, <2>4, <2>5, <2>6, <2>7, <2>8, <2>9 DEF Protected
<1>5. QED BY <1>1, <1>2, <1>3, <1>4 DEF MoveInv

\* A request that is refused.
LEMMA RefusedKeeps ==
  ASSUME MoveInv, Move!MigrationAssumption, NEW r \in net, Move!Reply(r, "error"), UNCHANGED <<Move!ours, out, Move!theirs, moveTroubles>>
  PROVE  MoveInv'
<1>0. /\ MoveTyped /\ Phases /\ OneCall
      /\ SourceTyped /\ NetTyped /\ RowsTyped /\ DiskTyped /\ QueueTyped
  BY DEF MoveInv, MoveTyped
<1>a. /\ r \in Request /\ r.path \in Move!Call /\ (r.seen # "none" => r.t \in Move!Transfer)
      /\ r.live => r.path = step /\ answer = "none" /\ r.body = pack /\ (r.path # "begin" => r.t = T)
      /\ \A q \in net : q.live /\ r.live => q = r
  BY <1>0 DEF NetTyped, OneCall, Phases, Request
<1>b. net' = net \ {r} /\ answer' \in {"none", "ok", "error"} /\ (answer' = answer \/ (r.live /\ answer' = "error"))
  BY <1>0 DEF Move!Reply, NetTyped
<1> USE <1>0, <1>a, <1>b DEF Move!theirs, Move!ours, Move!mine, Move!rows, Move!disk,
        Move!queue, Move!option, Move!source
<1>1. MoveTyped'
  <2>1. SourceTyped'
    BY DEF SourceTyped, Move!NoTransfer
  <2>2. NetTyped'
    BY DEF NetTyped
  <2>3. RowsTyped'
    BY DEF RowsTyped, Move!NoTransfer
  <2>4. DiskTyped'
    BY DEF DiskTyped
  <2>5. QueueTyped'
    BY DEF QueueTyped, RowsTyped, Move!NoWork
  <2>6. QED BY <2>1, <2>2, <2>3, <2>4, <2>5 DEF MoveTyped
<1>2. Phases'
  BY DEF Phases, Longer, Move!NoTransfer
<1>3. OneCall'
  BY DEF OneCall, Copying, T
<1>4. ASSUME ~deleted' PROVE Protected'
  <2>0. /\ ~deleted /\ Unused /\ Own /\ Loading /\ SetUp /\ NoCopyYet /\ SamePack
        /\ OneJob /\ Copied /\ Safe
    BY <1>4 DEF MoveInv, Protected
  <2> USE <2>0 DEF OneCall, SourceTyped, NetTyped, RowsTyped, DiskTyped, QueueTyped
  <2>1. Unused'
    BY DEF Unused, T, Move!Transfer, Move!NoTransfer, Move!NoArchive, Move!NoWork
  <2>2. Own'
    BY DEF Own, Underway, Moving, After1, Before2, Copying, T, Move!NoTransfer, Move!Call
  <2>3. Loading'
    BY DEF Loading, Filling, Moving, Has, Applied, Works, At, After1, T
  <2>4. SetUp'
    BY DEF SetUp, Kept, At, Before2, Copying, T
  <2>5. NoCopyYet'
    BY DEF NoCopyYet, Moving, Clear, Asked, TheJob, Works, After1, Before2, T
  <2>6. SamePack'
    BY DEF SamePack, InCopy, Sound, Pushed, Asked, Applied, Works, Copying, T
  <2>7. OneJob'
    BY DEF OneJob, Sound, Pushed, Asked, Works, TheJob, T
  <2>8. Copied'
    BY DEF Copied, Clear, Sound, Asked, Works, TheJob, At, Copying, T
  <2>9. Safe'
    BY DEF Safe, Copying, Move!NoTransfer
  <2>10. QED BY <2>1, <2>2, <2>3, <2>4, <2>5, <2>6, <2>7, <2>8, <2>9 DEF Protected
<1>5. QED BY <1>1, <1>2, <1>3, <1>4 DEF MoveInv

\* One that is taken, and goes on to change the status.
LEMMA TakenKeeps ==
  ASSUME MoveInv, Move!MigrationAssumption, NEW r \in net, r.path \in Longer, r.t \in Move!Transfer, Move!OnTo(r, 2), UNCHANGED <<Move!ours, out, Move!theirs, moveTroubles>>
  PROVE  MoveInv'
<1>0. /\ MoveTyped /\ Phases /\ OneCall
      /\ SourceTyped /\ NetTyped /\ RowsTyped /\ DiskTyped /\ QueueTyped
  BY DEF MoveInv, MoveTyped
<1>a. /\ r \in Request /\ r.path \in Move!Call /\ (r.seen # "none" => r.t \in Move!Transfer)
      /\ r.live => r.path = step /\ answer = "none" /\ r.body = pack /\ (r.path # "begin" => r.t = T)
      /\ \A q \in net : q.live /\ r.live => q = r
  BY <1>0 DEF NetTyped, OneCall, Phases, Request
<1>b. \E e : /\ net' = (net \ {r}) \cup {e} /\ e \in Request /\ e.phase = 2 /\ e.path = r.path /\ e.t = r.t
            /\ e.body = r.body /\ e.live = r.live /\ e.seen = r.seen /\ e.built = r.built
  <2> DEFINE e == [r EXCEPT !.phase = 2]
  <2>1. /\ e \in Request /\ e.phase = 2 /\ e.path = r.path /\ e.t = r.t
        /\ e.body = r.body /\ e.live = r.live /\ e.seen = r.seen /\ e.built = r.built
    BY <1>a DEF Request
  <2>2. net' = (net \ {r}) \cup {e}
    BY DEF Move!OnTo
  <2> HIDE DEF e
  <2>3. QED BY <2>1, <2>2
<1>c. answer' = answer
  BY DEF Move!OnTo
<1> USE <1>0, <1>a, <1>b, <1>c DEF Move!theirs, Move!ours, Move!mine, Move!rows, Move!disk,
        Move!queue, Move!option, Move!source
<1>1. MoveTyped'
  <2>1. SourceTyped'
    BY DEF SourceTyped, Move!NoTransfer
  <2>2. NetTyped'
    BY DEF NetTyped
  <2>3. RowsTyped'
    BY DEF RowsTyped, Move!NoTransfer
  <2>4. DiskTyped'
    BY DEF DiskTyped
  <2>5. QueueTyped'
    BY DEF QueueTyped, RowsTyped, Move!NoWork
  <2>6. QED BY <2>1, <2>2, <2>3, <2>4, <2>5 DEF MoveTyped
<1>2. Phases'
  BY DEF Phases, Longer, Move!NoTransfer
<1>3. OneCall'
  BY DEF OneCall, Copying, T, Longer
<1>4. ASSUME ~deleted' PROVE Protected'
  <2>0. /\ ~deleted /\ Unused /\ Own /\ Loading /\ SetUp /\ NoCopyYet /\ SamePack
        /\ OneJob /\ Copied /\ Safe
    BY <1>4 DEF MoveInv, Protected
  <2> USE <2>0 DEF OneCall, SourceTyped, NetTyped, RowsTyped, DiskTyped, QueueTyped
  <2>1. Unused'
    BY DEF Unused, T, Move!Transfer, Move!NoTransfer, Move!NoArchive, Move!NoWork, Longer
  <2>2. Own'
    BY DEF Own, Underway, Moving, After1, Before2, Copying, T, Move!NoTransfer, Move!Call
  <2>3. Loading'
    BY DEF Loading, Filling, Moving, Has, Applied, Works, At, After1, T
  <2>4. SetUp'
    BY DEF SetUp, Kept, At, Before2, Copying, T
  <2>5. NoCopyYet'
    BY DEF NoCopyYet, Moving, Clear, Asked, TheJob, Works, After1, Before2, T
  <2>6. SamePack'
    BY DEF SamePack, InCopy, Sound, Pushed, Asked, Applied, Works, Copying, T
  <2>7. OneJob'
    BY DEF OneJob, Sound, Pushed, Asked, Works, TheJob, T
  <2>8. Copied'
    BY DEF Copied, Clear, Sound, Asked, Works, TheJob, At, Copying, T
  <2>9. Safe'
    BY DEF Safe, Copying, Move!NoTransfer, Longer
  <2>10. QED BY <2>1, <2>2, <2>3, <2>4, <2>5, <2>6, <2>7, <2>8, <2>9 DEF Protected
<1>5. QED BY <1>1, <1>2, <1>3, <1>4 DEF MoveInv

LEMMA HelloKeeps ==
  ASSUME MoveInv, Move!MigrationAssumption, NEW r \in net, Move!Hello(r)
  PROVE  MoveInv'
<1>0. /\ MoveTyped /\ Phases /\ OneCall
      /\ SourceTyped /\ NetTyped /\ RowsTyped /\ DiskTyped /\ QueueTyped
  BY DEF MoveInv, MoveTyped
<1>a. /\ r \in Request /\ r.path \in Move!Call /\ (r.seen # "none" => r.t \in Move!Transfer)
      /\ r.live => r.path = step /\ answer = "none" /\ r.body = pack /\ (r.path # "begin" => r.t = T)
      /\ \A q \in net : q.live /\ r.live => q = r
  BY <1>0 DEF NetTyped, OneCall, Phases, Request
<1>b. r.path = "hello" /\ r.phase = 1 /\ UNCHANGED <<Move!ours, out, Move!theirs, moveTroubles>>
      /\ net' = net \ {r} /\ answer' \in {"none", "ok", "error"}
      /\ (answer' = answer \/ (r.live /\ (answer' = "ok" => owner = Move!NoTransfer)))
  BY <1>0 DEF Move!Hello, Move!Reply, NetTyped
<1> USE <1>0, <1>a, <1>b DEF Move!theirs, Move!ours, Move!mine, Move!rows, Move!disk,
        Move!queue, Move!option, Move!source
<1>1. MoveTyped'
  <2>1. SourceTyped'
    BY DEF SourceTyped, Move!NoTransfer
  <2>2. NetTyped'
    BY DEF NetTyped
  <2>3. RowsTyped'
    BY DEF RowsTyped, Move!NoTransfer
  <2>4. DiskTyped'
    BY DEF DiskTyped
  <2>5. QueueTyped'
    BY DEF QueueTyped, RowsTyped, Move!NoWork
  <2>6. QED BY <2>1, <2>2, <2>3, <2>4, <2>5 DEF MoveTyped
<1>2. Phases'
  BY DEF Phases, Longer, Move!NoTransfer
<1>3. OneCall'
  BY DEF OneCall, Copying, T
<1>4. ASSUME ~deleted' PROVE Protected'
  <2>0. /\ ~deleted /\ Unused /\ Own /\ Loading /\ SetUp /\ NoCopyYet /\ SamePack
        /\ OneJob /\ Copied /\ Safe
    BY <1>4 DEF MoveInv, Protected
  <2> USE <2>0 DEF OneCall, SourceTyped, NetTyped, RowsTyped, DiskTyped, QueueTyped
  <2>1. Unused'
    BY DEF Unused, T, Move!Transfer, Move!NoTransfer, Move!NoArchive, Move!NoWork
  <2>2. Own'
    BY DEF Own, Underway, Moving, After1, Before2, Copying, T, Move!NoTransfer, Move!Call
  <2>3. Loading'
    BY DEF Loading, Filling, Moving, Has, Applied, Works, At, After1, T
  <2>4. SetUp'
    BY DEF SetUp, Kept, At, Before2, Copying, T
  <2>5. NoCopyYet'
    BY DEF NoCopyYet, Moving, Clear, Asked, TheJob, Works, After1, Before2, T
  <2>6. SamePack'
    BY DEF SamePack, InCopy, Sound, Pushed, Asked, Applied, Works, Copying, T
  <2>7. OneJob'
    BY DEF OneJob, Sound, Pushed, Asked, Works, TheJob, T
  <2>8. Copied'
    BY DEF Copied, Clear, Sound, Asked, Works, TheJob, At, Copying, T
  <2>9. Safe'
    BY DEF Safe, Copying, Move!NoTransfer
  <2>10. QED BY <2>1, <2>2, <2>3, <2>4, <2>5, <2>6, <2>7, <2>8, <2>9 DEF Protected
<1>5. QED BY <1>1, <1>2, <1>3, <1>4 DEF MoveInv

LEMMA FinalizeKeeps ==
  ASSUME MoveInv, Move!MigrationAssumption, NEW r \in net, Move!Finalize(r)
  PROVE  MoveInv'
<1>1. r.path \in Longer /\ (r.seen = "imported" => r.t \in Move!Transfer) /\ UNCHANGED <<Move!ours, out, Move!theirs, moveTroubles>>
  BY DEF Move!Finalize, Longer, MoveInv, Phases
<1>2. (r.seen = "imported" /\ Move!OnTo(r, 2)) \/ Move!Reply(r, "error")
  BY DEF Move!Finalize
<1>3. QED BY <1>1, <1>2, RefusedKeeps, TakenKeeps

LEMMA CatchUpInKeeps ==
  ASSUME MoveInv, Move!MigrationAssumption, NEW r \in net, Move!CatchUpIn(r)
  PROVE  MoveInv'
<1>1. r.path \in Longer /\ (r.seen \in {"finished", "done"} => r.t \in Move!Transfer) /\ UNCHANGED <<Move!ours, out, Move!theirs, moveTroubles>>
  BY DEF Move!CatchUpIn, Longer, MoveInv, Phases
<1>2. (r.seen \in {"finished", "done"} /\ Move!OnTo(r, 2)) \/ Move!Reply(r, "error")
  BY DEF Move!CatchUpIn
<1>3. QED BY <1>1, <1>2, RefusedKeeps, TakenKeeps

LEMMA ReadKeeps ==
  ASSUME MoveInv, Move!MigrationAssumption, NEW r \in net, Move!Read(r)
  PROVE  MoveInv'
<1>0. /\ MoveTyped /\ Phases /\ OneCall
      /\ SourceTyped /\ NetTyped /\ RowsTyped /\ DiskTyped /\ QueueTyped
  BY DEF MoveInv, MoveTyped
<1>a. /\ r \in Request /\ r.path \in Move!Call /\ (r.seen # "none" => r.t \in Move!Transfer)
      /\ r.live => r.path = step /\ answer = "none" /\ r.body = pack /\ (r.path # "begin" => r.t = T)
      /\ \A q \in net : q.live /\ r.live => q = r
  BY <1>0 DEF NetTyped, OneCall, Phases, Request
<1>b. \E e : /\ net' = (net \ {r}) \cup {e} /\ e \in Request /\ e.phase = 1 /\ e.path = r.path /\ e.t = r.t
            /\ e.body = r.body /\ e.live = r.live
            /\ (e.seen # "none" => e.t \in Move!Transfer /\ e.seen = transfers[e.t] /\ e.built = task[e.t])
  <2> DEFINE s == IF r.t = Move!NoTransfer THEN "none" ELSE transfers[r.t]
             b == IF r.t = Move!NoTransfer THEN FALSE ELSE task[r.t]
             e == [r EXCEPT !.phase = 1, !.seen = s, !.built = b]
  <2>1. r.t # Move!NoTransfer => r.t \in Move!Transfer /\ transfers[r.t] \in Move!Status /\ task[r.t] \in BOOLEAN
    BY <1>0, <1>a DEF Request, Move!Transfer, Move!NoTransfer, RowsTyped, Move!MigrationAssumption
  <2>2. /\ s \in Move!Status /\ b \in BOOLEAN
        /\ s # "none" => r.t \in Move!Transfer /\ s = transfers[r.t] /\ b = task[r.t]
    BY <2>1 DEF Move!Status
  <2>3. net' = (net \ {r}) \cup {e}
    BY DEF Move!Read
  <2> HIDE DEF s, b
  <2>4. e \in [path : Move!Call, t : {r.t}, body : SUBSET Move!Message, live : BOOLEAN,
               phase : {1}, seen : {s}, built : {b}]
    BY <1>a DEF Request
  <2>5. /\ e \in Request /\ e.phase = 1 /\ e.path = r.path /\ e.t = r.t
        /\ e.body = r.body /\ e.live = r.live /\ e.seen = s /\ e.built = b
    <3>1. e.path = r.path /\ e.body = r.body /\ e.live = r.live
      BY <1>a DEF Request
    <3>2. r.t \in 0..MaxTransfers
      BY <1>a DEF Request
    <3> HIDE DEF e
    <3>3. e \in Request
      BY <2>2, <2>4, <3>2 DEF Request
    <3>4. QED BY <2>4, <3>1, <3>3
  <2> HIDE DEF e
  <2>6. QED BY <2>2, <2>3, <2>5
<1>c. answer' = answer /\ r.phase = 0 /\ UNCHANGED <<Move!ours, out, Move!theirs, moveTroubles>>
  BY DEF Move!Read
<1> USE <1>0, <1>a, <1>b, <1>c DEF Move!theirs, Move!ours, Move!mine, Move!rows, Move!disk,
        Move!queue, Move!option, Move!source
<1>1. MoveTyped'
  <2>1. SourceTyped'
    BY DEF SourceTyped, Move!NoTransfer
  <2>2. NetTyped'
    BY DEF NetTyped
  <2>3. RowsTyped'
    BY DEF RowsTyped, Move!NoTransfer
  <2>4. DiskTyped'
    BY DEF DiskTyped
  <2>5. QueueTyped'
    BY DEF QueueTyped, RowsTyped, Move!NoWork
  <2>6. QED BY <2>1, <2>2, <2>3, <2>4, <2>5 DEF MoveTyped
<1>2. Phases'
  BY DEF Phases, Longer, Move!NoTransfer
<1>3. OneCall'
  BY DEF OneCall, Copying, T
<1>4. ASSUME ~deleted' PROVE Protected'
  <2>0. /\ ~deleted /\ Unused /\ Own /\ Loading /\ SetUp /\ NoCopyYet /\ SamePack
        /\ OneJob /\ Copied /\ Safe
    BY <1>4 DEF MoveInv, Protected
  <2> USE <2>0 DEF OneCall, SourceTyped, NetTyped, RowsTyped, DiskTyped, QueueTyped
  <2>1. Unused'
    BY DEF Unused, T, Move!Transfer, Move!NoTransfer, Move!NoArchive, Move!NoWork
  <2>2. Own'
    BY DEF Own, Underway, Moving, After1, Before2, Copying, T, Move!NoTransfer, Move!Call
  <2>3. Loading'
    BY DEF Loading, Filling, Moving, Has, Applied, Works, At, After1, T
  <2>4. SetUp'
    BY DEF SetUp, Kept, At, Before2, Copying, T
  <2>5. NoCopyYet'
    BY DEF NoCopyYet, Moving, Clear, Asked, TheJob, Works, After1, Before2, T
  <2>6. SamePack'
    BY DEF SamePack, InCopy, Sound, Pushed, Asked, Applied, Works, Copying, T
  <2>7. OneJob'
    BY DEF OneJob, Sound, Pushed, Asked, Works, TheJob, T
  <2>8. Copied'
    BY DEF Copied, Clear, Sound, Asked, Works, TheJob, At, Copying, T
  <2>9. Safe'
    BY DEF Safe, Copying, Move!NoTransfer
  <2>10. QED BY <2>1, <2>2, <2>3, <2>4, <2>5, <2>6, <2>7, <2>8, <2>9 DEF Protected
<1>5. QED BY <1>1, <1>2, <1>3, <1>4 DEF MoveInv

LEMMA RowsBegunKeeps ==
  ASSUME MoveInv, Move!MigrationAssumption, NEW r \in net, r.path = "begin", owner = Move!NoTransfer, NEW t \in Move!Fresh,
         owner' = t, net' = (net \ {r}) \cup {[r EXCEPT !.phase = 2, !.t = t]},
         UNCHANGED <<answer, Move!ours, out, transfers, task, Move!disk, Move!queue, deleted, moveTroubles>>
  PROVE  MoveInv'
<1>0. /\ MoveTyped /\ Phases /\ OneCall
      /\ SourceTyped /\ NetTyped /\ RowsTyped /\ DiskTyped /\ QueueTyped
  BY DEF MoveInv, MoveTyped
<1>a. /\ r \in Request /\ r.path \in Move!Call /\ (r.seen # "none" => r.t \in Move!Transfer)
      /\ r.live => r.path = step /\ answer = "none" /\ r.body = pack /\ (r.path # "begin" => r.t = T)
      /\ \A q \in net : q.live /\ r.live => q = r
  BY <1>0 DEF NetTyped, OneCall, Phases, Request
<1>b. owner = Move!NoTransfer /\ owner' \in Move!Transfer /\ transfers[owner'] = "none" /\ answer' = answer /\ r.path = "begin"
      /\ UNCHANGED <<Move!ours, out, transfers, task, Move!disk, Move!queue, deleted, moveTroubles>>
  BY DEF Move!Fresh
<1>c. \E e : /\ net' = (net \ {r}) \cup {e} /\ e \in Request /\ e.phase = 2 /\ e.path = r.path /\ e.t = owner'
            /\ e.body = r.body /\ e.live = r.live /\ e.seen = r.seen /\ e.built = r.built
  <2> DEFINE e == [r EXCEPT !.phase = 2, !.t = t]
  <2>1. t \in 0..MaxTransfers /\ owner' = t
    BY DEF Move!Fresh, Move!Transfer, Move!MigrationAssumption
  <2>2. net' = (net \ {r}) \cup {e}
    OBVIOUS
  <2>3. e \in [path : Move!Call, t : {t}, body : SUBSET Move!Message, live : BOOLEAN,
               phase : {2}, seen : Move!Status, built : BOOLEAN]
    BY <1>a DEF Request
  <2>4. /\ e \in Request /\ e.phase = 2 /\ e.path = r.path /\ e.t = owner'
        /\ e.body = r.body /\ e.live = r.live /\ e.seen = r.seen /\ e.built = r.built
    <3>1. e.path = r.path /\ e.body = r.body /\ e.live = r.live /\ e.seen = r.seen /\ e.built = r.built
      BY <1>a DEF Request
    <3> HIDE DEF e
    <3>2. e \in Request
      BY <2>1, <2>3 DEF Request
    <3>3. QED BY <2>1, <2>3, <3>1, <3>2
  <2> HIDE DEF e
  <2>5. QED BY <2>2, <2>4
<1> USE <1>0, <1>a, <1>b, <1>c DEF Move!theirs, Move!ours, Move!mine, Move!rows, Move!disk,
        Move!queue, Move!option, Move!source
<1>1. MoveTyped'
  <2>1. SourceTyped'
    BY DEF SourceTyped, Move!NoTransfer
  <2>2. NetTyped'
    BY DEF NetTyped
  <2>3. RowsTyped'
    BY DEF RowsTyped, Move!NoTransfer, Move!Transfer, Move!MigrationAssumption
  <2>4. DiskTyped'
    BY DEF DiskTyped
  <2>5. QueueTyped'
    BY DEF QueueTyped, RowsTyped, Move!NoWork
  <2>6. QED BY <2>1, <2>2, <2>3, <2>4, <2>5 DEF MoveTyped
<1>2. Phases'
  BY DEF Phases, Longer, Move!NoTransfer
<1>3. OneCall'
  BY DEF OneCall, Copying, T
<1>4. ASSUME ~deleted' PROVE Protected'
  <2>0. /\ ~deleted /\ Unused /\ Own /\ Loading /\ SetUp /\ NoCopyYet /\ SamePack
        /\ OneJob /\ Copied /\ Safe
    BY <1>4 DEF MoveInv, Protected
  <2> USE <2>0 DEF OneCall, SourceTyped, NetTyped, RowsTyped, DiskTyped, QueueTyped
  <2>1. Unused'
    BY DEF Unused, T, Move!Transfer, Move!NoTransfer, Move!NoArchive, Move!NoWork, Phases
  <2>2. Own'
    BY DEF Own, Underway, Moving, After1, Before2, Copying, T, Move!NoTransfer,
       Move!NoTransfer, Move!Transfer
  <2>3. Loading'
    BY DEF Loading, Filling, Moving, Has, Applied, Works, At, After1, T
  <2>4. SetUp'
    BY DEF SetUp, Kept, At, Before2, Copying, T
  <2>5. NoCopyYet'
    BY DEF NoCopyYet, Moving, Clear, Asked, TheJob, Works, After1, Before2, T
  <2>6. SamePack'
    BY DEF SamePack, InCopy, Sound, Pushed, Asked, Applied, Works, Copying, T
  <2>7. OneJob'
    BY DEF OneJob, Sound, Pushed, Asked, Works, TheJob, T
  <2>8. Copied'
    BY DEF Copied, Clear, Sound, Asked, Works, TheJob, At, Copying, T
  <2>9. Safe'
    BY DEF Safe, Copying, Move!NoTransfer, Move!NoTransfer
  <2>10. QED BY <2>1, <2>2, <2>3, <2>4, <2>5, <2>6, <2>7, <2>8, <2>9 DEF Protected
<1>5. QED BY <1>1, <1>2, <1>3, <1>4 DEF MoveInv

LEMMA BeginTransferKeeps ==
  ASSUME MoveInv, Move!MigrationAssumption, NEW r \in net, Move!BeginTransfer(r)
  PROVE  MoveInv'
<1>0. /\ MoveTyped /\ Phases /\ OneCall
      /\ SourceTyped /\ NetTyped /\ RowsTyped /\ DiskTyped /\ QueueTyped
  BY DEF MoveInv, MoveTyped
<1>a. /\ r \in Request /\ r.path \in Move!Call /\ (r.seen # "none" => r.t \in Move!Transfer)
      /\ r.live => r.path = step /\ answer = "none" /\ r.body = pack /\ (r.path # "begin" => r.t = T)
      /\ \A q \in net : q.live /\ r.live => q = r
  BY <1>0 DEF NetTyped, OneCall, Phases, Request
<1>b. /\ r.path = "begin" /\ r.phase = 2 /\ r.t \in Move!Transfer
      /\ transfers' = [transfers EXCEPT ![r.t] = "receiving"]
      /\ net' = net \ {r} /\ UNCHANGED <<Move!ours, task, owner, Move!disk, Move!queue, deleted, moveTroubles>>
      /\ \/ r.live /\ answer' = "ok" /\ out' = [out EXCEPT !.transfer = r.t] /\ T' = r.t
            /\ out'.status = out.status /\ step = "begin" /\ goal = "move" /\ out.status # "done"
         \/ ~r.live /\ answer' = answer /\ out' = out /\ T' = T
      /\ out' \in [status : {"none", "queued", "running", "done", "failed"}, transfer : 0..MaxTransfers]
  <2>1. /\ r.path = "begin" /\ r.phase = 2 /\ r.t \in Move!Transfer
        /\ transfers' = [transfers EXCEPT ![r.t] = "receiving"]
        /\ net' = net \ {r} /\ UNCHANGED <<Move!ours, task, owner, Move!disk, Move!queue, deleted, moveTroubles>>
    BY <1>0 DEF Move!BeginTransfer, Move!Reply, Phases
  <2>2. r.live => answer' = "ok" /\ out' = [out EXCEPT !.transfer = r.t] /\ step = "begin" /\ goal = "move"
                  /\ out.status # "done"
    BY <1>0, <1>a, <2>1 DEF Move!BeginTransfer, Move!Reply, OneCall, Copying, SourceTyped
  <2>3. ~r.live => answer' = answer /\ out' = out
    BY DEF Move!BeginTransfer, Move!Reply
  <2>4. r.t \in 0..MaxTransfers /\ out \in [status : {"none", "queued", "running", "done", "failed"}, transfer : 0..MaxTransfers]
    BY <1>0, <2>1 DEF Move!Transfer, Move!MigrationAssumption, SourceTyped
  <2>5. QED BY <1>a, <2>1, <2>2, <2>3, <2>4 DEF T, Request
<1> USE <1>0, <1>a, <1>b DEF Move!theirs, Move!ours, Move!mine, Move!rows, Move!disk,
        Move!queue, Move!option, Move!source
<1>1. MoveTyped'
  <2>1. SourceTyped'
    BY DEF SourceTyped, Move!NoTransfer
  <2>2. NetTyped'
    BY DEF NetTyped
  <2>3. RowsTyped'
    BY DEF RowsTyped, Move!NoTransfer, Move!Status
  <2>4. DiskTyped'
    BY DEF DiskTyped
  <2>5. QueueTyped'
    BY DEF QueueTyped, RowsTyped, Move!NoWork
  <2>6. QED BY <2>1, <2>2, <2>3, <2>4, <2>5 DEF MoveTyped
<1>2. Phases'
  BY DEF Phases, Longer, Move!NoTransfer
<1>3. OneCall'
  BY DEF OneCall, Copying, T
<1>4. ASSUME ~deleted' PROVE Protected'
  <2>0. /\ ~deleted /\ Unused /\ Own /\ Loading /\ SetUp /\ NoCopyYet /\ SamePack
        /\ OneJob /\ Copied /\ Safe
    BY <1>4 DEF MoveInv, Protected
  <2> USE <2>0 DEF Unused, OneCall, SourceTyped, NetTyped, RowsTyped, DiskTyped, QueueTyped
  <2>1. Unused'
    BY DEF T, Move!Transfer, Move!NoTransfer, Move!NoArchive, Move!NoWork
  <2>2. Own'
    BY DEF Own, Underway, Moving, After1, Before2, Copying, T, Move!NoTransfer
  <2>3. Loading'
    BY DEF Loading, Filling, Moving, Has, Applied, Works, At, After1, T
  <2>4. SetUp'
    BY DEF SetUp, Kept, At, Before2, Copying, T
  <2>5. NoCopyYet'
    BY DEF NoCopyYet, Moving, Clear, Asked, TheJob, Works, After1, Before2, T
  <2>6. SamePack'
    BY DEF SamePack, InCopy, Sound, Pushed, Asked, Applied, Works, Copying, T
  <2>7. OneJob'
    BY DEF OneJob, Sound, Pushed, Asked, Works, TheJob, T
  <2>8. Copied'
    BY DEF Copied, Clear, Sound, Asked, Works, TheJob, At, Copying, T
  <2>9. Safe'
    BY DEF Safe, Copying, Move!NoTransfer
  <2>10. QED BY <2>1, <2>2, <2>3, <2>4, <2>5, <2>6, <2>7, <2>8, <2>9 DEF Protected
<1>5. QED BY <1>1, <1>2, <1>3, <1>4 DEF MoveInv

LEMMA BeginRowsKeeps ==
  ASSUME MoveInv, Move!MigrationAssumption, NEW r \in net, Move!BeginRows(r)
  PROVE  MoveInv'
<1>1. CASE Move!Reply(r, "error") /\ UNCHANGED owner
  BY <1>1, RefusedKeeps DEF Move!BeginRows, Move!ours, Move!theirs, Move!rows
<1>2. CASE owner = Move!NoTransfer /\ \E t \in Move!Fresh : /\ owner' = t /\ UNCHANGED answer
              /\ net' = (net \ {r}) \cup {[r EXCEPT !.phase = 2, !.t = t]}
  BY <1>2, RowsBegunKeeps DEF Move!BeginRows
<1>3. QED BY <1>1, <1>2 DEF Move!BeginRows

\* A chunk that is written.
LEMMA WrittenKeeps ==
  ASSUME MoveInv, Move!MigrationAssumption, NEW r \in net, r.path \in {"chunk1", "chunk2"}, r.t \in Move!Transfer,
         files' = [files EXCEPT ![r.t] = IF r.path = "chunk1" THEN {1} ELSE @ \cup {2}],
         load' = [load EXCEPT ![r.t] = r.body],
         UNCHANGED <<Move!ours, out, Move!rows, late, built, have, Move!queue, deleted, moveTroubles>>, Move!Reply(r, "ok")
  PROVE  MoveInv'
<1>0. /\ MoveTyped /\ Phases /\ OneCall
      /\ SourceTyped /\ NetTyped /\ RowsTyped /\ DiskTyped /\ QueueTyped
  BY DEF MoveInv, MoveTyped
<1>a. /\ r \in Request /\ r.path \in Move!Call /\ (r.seen # "none" => r.t \in Move!Transfer)
      /\ r.live => r.path = step /\ answer = "none" /\ r.body = pack /\ (r.path # "begin" => r.t = T)
      /\ \A q \in net : q.live /\ r.live => q = r
  BY <1>0 DEF NetTyped, OneCall, Phases, Request
<1>b. net' = net \ {r} /\ answer' \in {"none", "ok", "error"} /\ (answer' = answer \/ (r.live /\ answer' = "ok"))
  BY <1>0 DEF Move!Reply, NetTyped
<1>c. files' \in [Move!Transfer -> SUBSET {1, 2}] /\ load' \in [Move!Transfer -> SUBSET Move!Message]
      /\ load'[r.t] = r.body /\ \A t \in Move!Transfer : t # r.t => files'[t] = files[t] /\ load'[t] = load[t]
  <2>1. r.body \in SUBSET Move!Message
    BY <1>a DEF Request
  <2>2. /\ files \in [Move!Transfer -> SUBSET {1, 2}] /\ load \in [Move!Transfer -> SUBSET Move!Message]
        /\ {1} \in SUBSET {1, 2} /\ files[r.t] \cup {2} \in SUBSET {1, 2}
    BY <1>0 DEF DiskTyped
  <2>3. files' \in [Move!Transfer -> SUBSET {1, 2}] /\ \A t \in Move!Transfer : t # r.t => files'[t] = files[t]
    BY <2>2
  <2>4. load' \in [Move!Transfer -> SUBSET Move!Message] /\ load'[r.t] = r.body
        /\ \A t \in Move!Transfer : t # r.t => load'[t] = load[t]
    BY <2>1, <2>2
  <2>5. QED BY <2>3, <2>4
<1> USE <1>0, <1>a, <1>b, <1>c DEF Move!theirs, Move!ours, Move!mine, Move!rows, Move!disk,
        Move!queue, Move!option, Move!source
<1>1. MoveTyped'
  <2>1. SourceTyped'
    BY DEF SourceTyped, Move!NoTransfer
  <2>2. NetTyped'
    BY DEF NetTyped
  <2>3. RowsTyped'
    BY DEF RowsTyped, Move!NoTransfer
  <2>4. DiskTyped'
    BY DEF DiskTyped
  <2>5. QueueTyped'
    BY DEF QueueTyped, RowsTyped, Move!NoWork
  <2>6. QED BY <2>1, <2>2, <2>3, <2>4, <2>5 DEF MoveTyped
<1>2. Phases'
  BY DEF Phases, Longer, Move!NoTransfer
<1>3. OneCall'
  BY DEF OneCall, Copying, T
<1>4. ASSUME ~deleted' PROVE Protected'
  <2>0. /\ ~deleted /\ Unused /\ Own /\ Loading /\ SetUp /\ NoCopyYet /\ SamePack
        /\ OneJob /\ Copied /\ Safe
    BY <1>4 DEF MoveInv, Protected
  <2> USE <2>0 DEF OneCall, SourceTyped, NetTyped, RowsTyped, DiskTyped, QueueTyped
  <2>1. Unused'
    BY DEF Unused, T, Move!Transfer, Move!NoTransfer, Move!NoArchive, Move!NoWork
  <2>2. Own'
    BY DEF Own, Underway, Moving, After1, Before2, Copying, T, Move!NoTransfer
  <2>3. Loading'
    BY DEF Loading, Filling, Moving, Has, Applied, Works, At, After1, T
  <2>4. SetUp'
    BY DEF SetUp, Kept, At, Before2, Copying, T
  <2>5. NoCopyYet'
    BY DEF NoCopyYet, Moving, Clear, Asked, TheJob, Works, After1, Before2, T
  <2>6. SamePack'
    BY DEF SamePack, InCopy, Sound, Pushed, Asked, Applied, Works, Copying, T
  <2>7. OneJob'
    BY DEF OneJob, Sound, Pushed, Asked, Works, TheJob, T
  <2>8. Copied'
    BY DEF Copied, Clear, Sound, Asked, Works, TheJob, At, Copying, T
  <2>9. Safe'
    BY DEF Safe, Copying, Move!NoTransfer
  <2>10. QED BY <2>1, <2>2, <2>3, <2>4, <2>5, <2>6, <2>7, <2>8, <2>9 DEF Protected
<1>5. QED BY <1>1, <1>2, <1>3, <1>4 DEF MoveInv

LEMMA UploadKeeps ==
  ASSUME MoveInv, Move!MigrationAssumption, NEW r \in net, Move!Upload(r)
  PROVE  MoveInv'
<1>1. CASE Move!Reply(r, "error") /\ UNCHANGED <<files, load>>
  BY <1>1, RefusedKeeps DEF Move!Upload, Move!ours, Move!theirs, Move!disk
<1>2. CASE /\ r.seen = "receiving" /\ Move!Reply(r, "ok")
           /\ files' = [files EXCEPT ![r.t] = IF r.path = "chunk1" THEN {1} ELSE @ \cup {2}]
           /\ load' = [load EXCEPT ![r.t] = r.body]
  <2>1. r.t \in Move!Transfer
    BY <1>2 DEF MoveInv, Phases
  <2>2. QED BY <1>2, <2>1, WrittenKeeps DEF Move!Upload
<1>3. QED BY <1>1, <1>2 DEF Move!Upload

LEMMA SentKeeps ==
  ASSUME MoveInv, Move!MigrationAssumption, NEW r \in net, r.path = "send", r.t \in Move!Transfer,
         late' = [late EXCEPT ![r.t] = [there |-> TRUE, mail |-> r.body]],
         UNCHANGED <<Move!ours, out, Move!rows, files, load, built, have, Move!queue, deleted, moveTroubles>>, Move!Reply(r, "ok")
  PROVE  MoveInv'
<1>0. /\ MoveTyped /\ Phases /\ OneCall
      /\ SourceTyped /\ NetTyped /\ RowsTyped /\ DiskTyped /\ QueueTyped
  BY DEF MoveInv, MoveTyped
<1>a. /\ r \in Request /\ r.path \in Move!Call /\ (r.seen # "none" => r.t \in Move!Transfer)
      /\ r.live => r.path = step /\ answer = "none" /\ r.body = pack /\ (r.path # "begin" => r.t = T)
      /\ \A q \in net : q.live /\ r.live => q = r
  BY <1>0 DEF NetTyped, OneCall, Phases, Request
<1>b. net' = net \ {r} /\ answer' \in {"none", "ok", "error"} /\ (answer' = answer \/ (r.live /\ answer' = "ok"))
  BY <1>0 DEF Move!Reply, NetTyped
<1>c. late' \in [Move!Transfer -> Archive] /\ late'[r.t].there /\ late'[r.t].mail = r.body
      /\ \A t \in Move!Transfer : t # r.t => late'[t] = late[t]
  <2>1. [there |-> TRUE, mail |-> r.body] \in Archive
    BY <1>a DEF Request, Archive
  <2>2. QED BY <1>0, <2>1 DEF DiskTyped
<1> USE <1>0, <1>a, <1>b, <1>c DEF Move!theirs, Move!ours, Move!mine, Move!rows, Move!disk,
        Move!queue, Move!option, Move!source
<1>1. MoveTyped'
  <2>1. SourceTyped'
    BY DEF SourceTyped, Move!NoTransfer
  <2>2. NetTyped'
    BY DEF NetTyped
  <2>3. RowsTyped'
    BY DEF RowsTyped, Move!NoTransfer
  <2>4. DiskTyped'
    BY DEF DiskTyped
  <2>5. QueueTyped'
    BY DEF QueueTyped, RowsTyped, Move!NoWork
  <2>6. QED BY <2>1, <2>2, <2>3, <2>4, <2>5 DEF MoveTyped
<1>2. Phases'
  BY DEF Phases, Longer, Move!NoTransfer
<1>3. OneCall'
  BY DEF OneCall, Copying, T
<1>4. ASSUME ~deleted' PROVE Protected'
  <2>0. /\ ~deleted /\ Unused /\ Own /\ Loading /\ SetUp /\ NoCopyYet /\ SamePack
        /\ OneJob /\ Copied /\ Safe
    BY <1>4 DEF MoveInv, Protected
  <2> USE <2>0 DEF OneCall, SourceTyped, NetTyped, RowsTyped, DiskTyped, QueueTyped
  <2>1. Unused'
    BY DEF Unused, T, Move!Transfer, Move!NoTransfer, Move!NoArchive, Move!NoWork
  <2>2. Own'
    BY DEF Own, Underway, Moving, After1, Before2, Copying, T, Move!NoTransfer
  <2>3. Loading'
    BY DEF Loading, Filling, Moving, Has, Applied, Works, At, After1, T
  <2>4. SetUp'
    BY DEF SetUp, Kept, At, Before2, Copying, T
  <2>5. NoCopyYet'
    BY DEF NoCopyYet, Moving, Clear, Asked, TheJob, Works, After1, Before2, T
  <2>6. SamePack'
    BY DEF SamePack, InCopy, Sound, Pushed, Asked, Applied, Works, Copying, T
  <2>7. OneJob'
    BY DEF OneJob, Sound, Pushed, Asked, Works, TheJob, T
  <2>8. Copied'
    BY DEF Copied, Clear, Sound, Asked, Works, TheJob, At, Copying, T
  <2>9. Safe'
    BY DEF Safe, Copying, Move!NoTransfer
  <2>10. QED BY <2>1, <2>2, <2>3, <2>4, <2>5, <2>6, <2>7, <2>8, <2>9 DEF Protected
<1>5. QED BY <1>1, <1>2, <1>3, <1>4 DEF MoveInv

LEMMA UploadCatchUpKeeps ==
  ASSUME MoveInv, Move!MigrationAssumption, NEW r \in net, Move!UploadCatchUp(r)
  PROVE  MoveInv'
<1>1. CASE Move!Reply(r, "error") /\ UNCHANGED late
  BY <1>1, RefusedKeeps DEF Move!UploadCatchUp, Move!ours, Move!theirs, Move!disk
<1>2. CASE /\ r.seen \in {"finished", "done"} /\ Move!Reply(r, "ok")
           /\ late' = [late EXCEPT ![r.t] = [there |-> TRUE, mail |-> r.body]]
  <2>1. r.t \in Move!Transfer
    BY <1>2 DEF MoveInv, Phases
  <2>2. QED BY <1>2, <2>1, SentKeeps DEF Move!UploadCatchUp
<1>3. QED BY <1>1, <1>2 DEF Move!UploadCatchUp

\* The hashes do not match.
LEMMA UnlikeKeeps ==
  ASSUME MoveInv, Move!MigrationAssumption, NEW r \in net, r.path \in Longer, r.t \in Move!Transfer, Move!Reply(r, "error"),
         transfers' = [transfers EXCEPT ![r.t] = "failed"],
         UNCHANGED <<Move!ours, out, task, owner, Move!disk, Move!queue, deleted, moveTroubles>>
  PROVE  MoveInv'
<1>0. /\ MoveTyped /\ Phases /\ OneCall
      /\ SourceTyped /\ NetTyped /\ RowsTyped /\ DiskTyped /\ QueueTyped
  BY DEF MoveInv, MoveTyped
<1>a. /\ r \in Request /\ r.path \in Move!Call /\ (r.seen # "none" => r.t \in Move!Transfer)
      /\ r.live => r.path = step /\ answer = "none" /\ r.body = pack /\ (r.path # "begin" => r.t = T)
      /\ \A q \in net : q.live /\ r.live => q = r
  BY <1>0 DEF NetTyped, OneCall, Phases, Request
<1>b. net' = net \ {r} /\ answer' \in {"none", "ok", "error"} /\ (answer' = answer \/ (r.live /\ answer' = "error"))
  BY <1>0 DEF Move!Reply, NetTyped
<1>c. transfers' \in [Move!Transfer -> Move!Status] /\ transfers'[r.t] = "failed"
      /\ \A t \in Move!Transfer : t # r.t => transfers'[t] = transfers[t]
  BY <1>0 DEF RowsTyped, Move!Status, Move!Ended
<1> USE <1>0, <1>a, <1>b, <1>c DEF Move!theirs, Move!ours, Move!mine, Move!rows, Move!disk,
        Move!queue, Move!option, Move!source
<1>1. MoveTyped'
  <2>1. SourceTyped'
    BY DEF SourceTyped, Move!NoTransfer
  <2>2. NetTyped'
    BY DEF NetTyped
  <2>3. RowsTyped'
    BY DEF RowsTyped, Move!NoTransfer
  <2>4. DiskTyped'
    BY DEF DiskTyped
  <2>5. QueueTyped'
    BY DEF QueueTyped, RowsTyped, Move!NoWork
  <2>6. QED BY <2>1, <2>2, <2>3, <2>4, <2>5 DEF MoveTyped
<1>2. Phases'
  BY DEF Phases, Longer, Move!NoTransfer
<1>3. OneCall'
  BY DEF OneCall, Copying, T
<1>4. ASSUME ~deleted' PROVE Protected'
  <2>0. /\ ~deleted /\ Unused /\ Own /\ Loading /\ SetUp /\ NoCopyYet /\ SamePack
        /\ OneJob /\ Copied /\ Safe
    BY <1>4 DEF MoveInv, Protected
  <2>a. HasTransfer
    BY <2>0, TransferIs
  <2> USE <2>0, <2>a DEF OneCall, SourceTyped, NetTyped, RowsTyped, DiskTyped, QueueTyped,
          HasTransfer, Works
  <2>1. Unused'
    <3>1. transfers[r.t] # "none"
      BY DEF Unused, Longer
    <3>2. QED BY <3>1 DEF Unused, T, Move!Transfer, Move!NoTransfer, Move!NoArchive,
                 Move!NoWork, Longer
  <2>2. Own'
    BY DEF Own, Underway, Moving, After1, Before2, Copying, T, Move!NoTransfer, Move!Call
  <2>3. Loading'
    BY DEF Loading, Filling, Moving, Has, Applied, At, After1, T
  <2>4. SetUp'
    BY DEF SetUp, Kept, At, Before2, Copying, T
  <2>5. NoCopyYet'
    BY DEF NoCopyYet, Moving, Clear, Asked, TheJob, After1, Before2, T
  <2>6. SamePack'
    BY DEF SamePack, InCopy, Sound, Pushed, Asked, Applied, Copying, T
  <2>7. OneJob'
    BY DEF OneJob, Sound, Pushed, Asked, TheJob, T
  <2>8. Copied'
    BY DEF Copied, Clear, Sound, Asked, TheJob, At, Copying, T
  <2>9. Safe'
    BY DEF Safe, Copying, Move!NoTransfer, Move!Transfer
  <2>10. QED BY <2>1, <2>2, <2>3, <2>4, <2>5, <2>6, <2>7, <2>8, <2>9 DEF Protected
<1>5. QED BY <1>1, <1>2, <1>3, <1>4 DEF MoveInv

LEMMA FinishKeeps ==
  ASSUME MoveInv, Move!MigrationAssumption, NEW r \in net, Move!Finish(r)
  PROVE  MoveInv'
<1>1. r.path \in Longer /\ UNCHANGED <<Move!ours, out, task, owner, Move!disk, Move!queue, deleted, moveTroubles>>
  BY DEF Move!Finish, Longer
<1>2. CASE Move!Reply(r, "error") /\ UNCHANGED transfers
  BY <1>1, <1>2, RefusedKeeps DEF Move!theirs, Move!rows
<1>3. CASE r.seen = "receiving" /\ Move!OnTo(r, 2) /\ UNCHANGED transfers
  <2>1. r.t \in Move!Transfer
    BY <1>3 DEF MoveInv, Phases
  <2>2. QED BY <1>1, <1>3, <2>1, TakenKeeps DEF Move!theirs, Move!rows
<1>4. CASE r.seen = "receiving" /\ Move!Reply(r, "error") /\ transfers' = [transfers EXCEPT ![r.t] = "failed"]
  <2>1. r.t \in Move!Transfer
    BY <1>4 DEF MoveInv, Phases
  <2>2. QED BY <1>1, <1>4, <2>1, UnlikeKeeps
<1>5. QED BY <1>2, <1>3, <1>4 DEF Move!Finish

LEMMA SetStatusKeeps ==
  ASSUME MoveInv, Move!MigrationAssumption, NEW r \in net, Move!SetStatus(r)
  PROVE  MoveInv'
<1>0. /\ MoveTyped /\ Phases /\ OneCall
      /\ SourceTyped /\ NetTyped /\ RowsTyped /\ DiskTyped /\ QueueTyped
  BY DEF MoveInv, MoveTyped
<1>a. /\ r \in Request /\ r.path \in Move!Call /\ (r.seen # "none" => r.t \in Move!Transfer)
      /\ r.live => r.path = step /\ answer = "none" /\ r.body = pack /\ (r.path # "begin" => r.t = T)
      /\ \A q \in net : q.live /\ r.live => q = r
  BY <1>0 DEF NetTyped, OneCall, Phases, Request
<1>b. \E e : /\ net' = (net \ {r}) \cup {e} /\ e \in Request /\ e.phase = 3 /\ e.path = r.path /\ e.t = r.t
            /\ e.body = r.body /\ e.live = r.live /\ e.seen = r.seen /\ e.built = r.built
  <2> DEFINE e == [r EXCEPT !.phase = 3]
  <2>1. /\ e \in Request /\ e.phase = 3 /\ e.path = r.path /\ e.t = r.t
        /\ e.body = r.body /\ e.live = r.live /\ e.seen = r.seen /\ e.built = r.built
    BY <1>a DEF Request
  <2>2. net' = (net \ {r}) \cup {e}
    BY DEF Move!SetStatus, Move!OnTo
  <2> HIDE DEF e
  <2>3. QED BY <2>1, <2>2
<1>c. /\ r.path \in Longer /\ r.phase = 2 /\ r.t \in Move!Transfer /\ answer' = answer
      /\ UNCHANGED <<Move!ours, out, task, owner, Move!disk, Move!queue, deleted, moveTroubles>>
  BY <1>0 DEF Move!SetStatus, Move!OnTo, Longer, Phases
<1>d. transfers' \in [Move!Transfer -> Move!Status] /\ transfers'[r.t] \in {"importing", "finishing", "catching_up"}
      /\ \A t \in Move!Transfer : t # r.t => transfers'[t] = transfers[t]
  <2>1. Move!GoesTo(r.path) \in {"importing", "finishing", "catching_up"}
    BY DEF Move!GoesTo
  <2>2. QED BY <1>0, <1>c, <2>1 DEF Move!SetStatus, RowsTyped, Move!Status
<1> USE <1>0, <1>a, <1>b, <1>c, <1>d DEF Move!theirs, Move!ours, Move!mine, Move!rows,
        Move!disk, Move!queue, Move!option, Move!source
<1>1. MoveTyped'
  <2>1. SourceTyped'
    BY DEF SourceTyped, Move!NoTransfer
  <2>2. NetTyped'
    BY DEF NetTyped
  <2>3. RowsTyped'
    BY DEF RowsTyped, Move!NoTransfer
  <2>4. DiskTyped'
    BY DEF DiskTyped
  <2>5. QueueTyped'
    BY DEF QueueTyped, RowsTyped, Move!NoWork
  <2>6. QED BY <2>1, <2>2, <2>3, <2>4, <2>5 DEF MoveTyped
<1>2. Phases'
  BY DEF Phases, Longer, Move!NoTransfer
<1>3. OneCall'
  BY DEF OneCall, Copying, T, Longer
<1>4. ASSUME ~deleted' PROVE Protected'
  <2>0. /\ ~deleted /\ Unused /\ Own /\ Loading /\ SetUp /\ NoCopyYet /\ SamePack
        /\ OneJob /\ Copied /\ Safe
    BY <1>4 DEF MoveInv, Protected
  <2>a. HasTransfer
    BY <2>0, TransferIs
  <2> USE <2>0, <2>a DEF OneCall, SourceTyped, NetTyped, RowsTyped, DiskTyped, QueueTyped,
          HasTransfer, Works
  <2>1. Unused'
    <3>1. transfers[r.t] # "none" /\ \A t \in Move!Transfer : transfers'[t] = "none" <=> transfers[t] = "none"
      BY DEF Unused, Longer
    <3>2. \A t \in Move!Transfer : transfers'[t] = "none" =>
            /\ t # T /\ files[t] = {} /\ ~late[t].there
            /\ \A q \in net' : q.t = t => q.path \in {"hello", "begin"}
            /\ \A j \in theirJobs : j.t # t
            /\ work.t # t
      BY <3>1 DEF Unused
    <3>3. \A q \in net' : q.path = "begin" => q \in net
      BY DEF Longer
    <3>4. \A q \in net' : q.path = "begin" /\ q.phase = 2 => owner = q.t /\ transfers'[q.t] = "none"
      BY <3>1, <3>3 DEF Unused, Phases
    <3>5. \A q, p \in net' : q.path = "begin" /\ q.phase = 2 /\ p.path = "begin" /\ p.phase = 2 => q = p
      BY <3>3 DEF Unused
    <3>6. QED BY <3>2, <3>4, <3>5 DEF Unused, T
  <2>2. Own'
    BY DEF Own, Underway, Moving, After1, Before2, Copying, T, Move!NoTransfer, Move!Call
  <2>3. Loading'
    BY DEF Loading, Filling, Moving, Has, Applied, At, After1, T
  <2>4. SetUp'
    BY DEF SetUp, Kept, At, Before2, Copying, T
  <2>5. NoCopyYet'
    BY DEF NoCopyYet, Moving, Clear, Asked, TheJob, After1, Before2, T
  <2>6. SamePack'
    BY DEF SamePack, InCopy, Sound, Pushed, Asked, Applied, Copying, T
  <2>7. OneJob'
    BY DEF OneJob, Sound, Pushed, Asked, TheJob, T
  <2>8. Copied'
    BY DEF Copied, Clear, Sound, Asked, TheJob, At, Copying, T
  <2>9. Safe'
    BY DEF Safe, Copying, Move!NoTransfer, Move!Transfer, Longer
  <2>10. QED BY <2>1, <2>2, <2>3, <2>4, <2>5, <2>6, <2>7, <2>8, <2>9 DEF Protected
<1>5. QED BY <1>1, <1>2, <1>3, <1>4 DEF MoveInv

LEMMA PushJobKeeps ==
  ASSUME MoveInv, Move!MigrationAssumption, NEW r \in net, Move!PushJob(r)
  PROVE  MoveInv'
<1>0. /\ MoveTyped /\ Phases /\ OneCall
      /\ SourceTyped /\ NetTyped /\ RowsTyped /\ DiskTyped /\ QueueTyped
  BY DEF MoveInv, MoveTyped
<1>a. /\ r \in Request /\ r.path \in Move!Call /\ (r.seen # "none" => r.t \in Move!Transfer)
      /\ r.live => r.path = step /\ answer = "none" /\ r.body = pack /\ (r.path # "begin" => r.t = T)
      /\ \A q \in net : q.live /\ r.live => q = r
  BY <1>0 DEF NetTyped, OneCall, Phases, Request
<1>b. /\ r.phase = 3 /\ r.path \in Longer /\ r.t \in Move!Transfer /\ UNCHANGED <<Move!ours, out, Move!rows, Move!disk, work, deleted, moveTroubles>>
      /\ net' = net \ {r} /\ answer' \in {"none", "ok", "error"} /\ (answer' = answer \/ (r.live /\ answer' = "ok"))
      /\ r.live => answer' = "ok"
  BY <1>0 DEF Move!PushJob, Move!Reply, NetTyped, Phases
<1>c. \E j : theirJobs' = theirJobs \cup {j} /\ j.t = r.t /\ j \in [kind : Move!JobKind, t : Move!Transfer] /\ (j.kind = "catchup" <=> r.path = "catchup")
  <2> DEFINE j == [kind |-> Move!JobOf(r.path), t |-> r.t]
  <2>1. j.t = r.t /\ j \in [kind : Move!JobKind, t : Move!Transfer] /\ (j.kind = "catchup" <=> r.path = "catchup")
    BY <1>b DEF Move!JobOf, Move!JobKind, Longer
  <2>2. theirJobs' = theirJobs \cup {j}
    BY DEF Move!PushJob
  <2> HIDE DEF j
  <2>3. QED BY <2>1, <2>2
<1> USE <1>0, <1>a, <1>b, <1>c DEF Move!theirs, Move!ours, Move!mine, Move!rows, Move!disk,
        Move!queue, Move!option, Move!source
<1>1. MoveTyped'
  <2>1. SourceTyped'
    BY DEF Longer, SourceTyped, Move!NoTransfer
  <2>2. NetTyped'
    BY DEF Longer, NetTyped
  <2>3. RowsTyped'
    BY DEF Longer, RowsTyped, Move!NoTransfer
  <2>4. DiskTyped'
    BY DEF Longer, DiskTyped
  <2>5. QueueTyped'
    BY DEF Longer, QueueTyped, RowsTyped, Move!NoWork
  <2>6. QED BY <2>1, <2>2, <2>3, <2>4, <2>5 DEF MoveTyped
<1>2. Phases'
  BY DEF Longer, Phases, Longer, Move!NoTransfer
<1>3. OneCall'
  BY DEF Longer, OneCall, Copying, T
<1>4. ASSUME ~deleted' PROVE Protected'
  <2>0. /\ ~deleted /\ Unused /\ Own /\ Loading /\ SetUp /\ NoCopyYet /\ SamePack
        /\ OneJob /\ Copied /\ Safe
    BY <1>4 DEF MoveInv, Protected, Longer
  <2>a. HasTransfer
    BY <2>0, TransferIs
  <2> USE <2>0, <2>a DEF Longer, OneCall, SourceTyped, NetTyped, RowsTyped, DiskTyped,
          QueueTyped, HasTransfer, Works
  <2>1. Unused'
    <3>1. transfers[r.t] # "none"
      BY DEF Unused
    <3>2. QED BY <3>1 DEF Unused, T, Move!Transfer, Move!NoTransfer, Move!NoArchive, Move!NoWork
  <2>2. Own'
    BY DEF Own, Underway, Moving, After1, Before2, Copying, T, Move!NoTransfer, Move!Call
  <2>3. Loading'
    BY DEF Loading, Filling, Moving, Has, Applied, At, After1, T
  <2>4. SetUp'
    BY DEF SetUp, Kept, At, Before2, Copying, T
  <2>5. NoCopyYet'
    BY DEF NoCopyYet, Moving, Clear, Asked, TheJob, After1, Before2, T
  <2>6. SamePack'
    BY DEF SamePack, InCopy, Sound, Pushed, Asked, Applied, Copying, T, OneJob
  <2>7. OneJob'
    BY DEF OneJob, Sound, Pushed, Asked, TheJob, T
  <2>8. Copied'
    BY DEF Copied, Clear, Sound, Asked, TheJob, At, Copying, T
  <2>9. Safe'
    BY DEF Safe, Copying, Move!NoTransfer
  <2>10. QED BY <2>1, <2>2, <2>3, <2>4, <2>5, <2>6, <2>7, <2>8, <2>9 DEF Protected
<1>5. QED BY <1>1, <1>2, <1>3, <1>4 DEF MoveInv

LEMMA CancelKeeps ==
  ASSUME MoveInv, Move!MigrationAssumption, NEW r \in net, Move!Cancel(r)
  PROVE  MoveInv'
<1>0. /\ MoveTyped /\ Phases /\ OneCall
      /\ SourceTyped /\ NetTyped /\ RowsTyped /\ DiskTyped /\ QueueTyped
  BY DEF MoveInv, MoveTyped
<1>a. /\ r \in Request /\ r.path \in Move!Call /\ (r.seen # "none" => r.t \in Move!Transfer)
      /\ r.live => r.path = step /\ answer = "none" /\ r.body = pack /\ (r.path # "begin" => r.t = T)
      /\ \A q \in net : q.live /\ r.live => q = r
  BY <1>0 DEF NetTyped, OneCall, Phases, Request
<1>b. r.path = "cancel" /\ r.phase = 1 /\ UNCHANGED <<Move!ours, out, task, load, late, built, have, Move!queue, deleted, moveTroubles>>
  BY DEF Move!Cancel
<1>c. net' = net \ {r} /\ answer' \in {"none", "ok", "error"} /\ (answer' = answer \/ (r.live /\ answer' = "ok"))
  BY <1>0 DEF Move!Cancel, Move!Reply, NetTyped
<1>d. \/ UNCHANGED <<owner, files, transfers>>
      \/ /\ r.seen = "receiving" \/ (r.seen = "failed" /\ ~r.built)
         /\ r.t \in Move!Transfer /\ (owner' = IF owner = r.t THEN Move!NoTransfer ELSE owner)
         /\ files' \in [Move!Transfer -> SUBSET {1, 2}] /\ transfers' \in [Move!Transfer -> Move!Status]
         /\ files'[r.t] = {} /\ transfers'[r.t] = "cancelled"
         /\ \A t \in Move!Transfer : t # r.t => files'[t] = files[t] /\ transfers'[t] = transfers[t]
  BY <1>0, <1>a DEF Move!Cancel, DiskTyped, RowsTyped, Move!Status, Move!Ended
<1> USE <1>0, <1>a, <1>b, <1>c, <1>d DEF Move!theirs, Move!ours, Move!mine, Move!rows,
        Move!disk, Move!queue, Move!option, Move!source
<1>1. MoveTyped'
  <2>1. SourceTyped'
    BY DEF SourceTyped, Move!NoTransfer
  <2>2. NetTyped'
    BY DEF NetTyped
  <2>3. RowsTyped'
    BY DEF RowsTyped, Move!NoTransfer, Move!MigrationAssumption
  <2>4. DiskTyped'
    BY DEF DiskTyped
  <2>5. QueueTyped'
    BY DEF QueueTyped, RowsTyped, Move!NoWork
  <2>6. QED BY <2>1, <2>2, <2>3, <2>4, <2>5 DEF MoveTyped
<1>2. Phases'
  BY DEF Phases, Longer, Move!NoTransfer
<1>3. OneCall'
  BY DEF OneCall, Copying, T
<1>4. ASSUME ~deleted' PROVE Protected'
  <2>0. /\ ~deleted /\ Unused /\ Own /\ Loading /\ SetUp /\ NoCopyYet /\ SamePack
        /\ OneJob /\ Copied /\ Safe
    BY <1>4 DEF MoveInv, Protected
  <2>a. HasTransfer
    BY <2>0, TransferIs
  <2> USE <2>0, <2>a DEF OneCall, SourceTyped, NetTyped, RowsTyped, DiskTyped, QueueTyped,
          HasTransfer, Works
  <2>1. Unused'
    <3>1. (r.t \in Move!Transfer => transfers[r.t] # "none") /\ \A t \in Move!Transfer : transfers'[t] = "none" => transfers[t] = "none" /\ t # r.t
      BY DEF Unused
    <3>2. \A t \in Move!Transfer : transfers'[t] = "none" =>
            /\ t # T /\ files'[t] = {} /\ ~late[t].there
            /\ \A q \in net' : q.t = t => q.path \in {"hello", "begin"}
            /\ \A j \in theirJobs : j.t # t
            /\ work.t # t
      BY <3>1 DEF Unused
    <3>3. \A q \in net' : q.path = "begin" /\ q.phase = 2 => owner' = q.t /\ transfers'[q.t] = "none"
      BY <3>1 DEF Unused, Phases
    <3>4. \A q, p \in net' : q.path = "begin" /\ q.phase = 2 /\ p.path = "begin" /\ p.phase = 2 => q = p
      BY DEF Unused
    <3>5. QED BY <3>2, <3>3, <3>4 DEF Unused, T
  <2>2. Own'
    BY DEF Own, Underway, Moving, After1, Before2, Copying, T, Move!NoTransfer, Move!Call
  <2>3. Loading'
    BY DEF Loading, Filling, Moving, Has, Applied, At, After1, T
  <2>4. SetUp'
    BY DEF SetUp, Kept, At, Before2, Copying, T
  <2>5. NoCopyYet'
    BY DEF NoCopyYet, Moving, Clear, Asked, TheJob, After1, Before2, T
  <2>6. SamePack'
    BY DEF SamePack, InCopy, Sound, Pushed, Asked, Applied, Copying, T
  <2>7. OneJob'
    BY DEF OneJob, Sound, Pushed, Asked, TheJob, T
  <2>8. Copied'
    BY DEF Copied, Clear, Sound, Asked, TheJob, At, Copying, T
  <2>9. Safe'
    <3>1. CASE UNCHANGED <<owner, files, transfers>>
      BY <3>1 DEF Safe, Copying, T
    <3>2. CASE ~UNCHANGED <<owner, files, transfers>>
      <4>1. src = "here" \/ owner # r.t
        BY <3>2 DEF Safe
      <4>2. src = "here" \/ (owner' = owner /\ (owner \in Move!Transfer => transfers'[owner] = transfers[owner]))
        BY <3>2, <4>1
      <4>3. owner # Move!NoTransfer => owner \in Move!Transfer
        BY DEF Move!Transfer, Move!NoTransfer, Move!MigrationAssumption
      <4>4. QED BY <4>2, <4>3 DEF Safe, Copying, T
    <3>3. QED BY <3>1, <3>2
  <2>10. QED BY <2>1, <2>2, <2>3, <2>4, <2>5, <2>6, <2>7, <2>8, <2>9 DEF Protected
<1>5. QED BY <1>1, <1>2, <1>3, <1>4 DEF MoveInv

LEMMA TakeJobKeeps ==
  ASSUME MoveInv, Move!MigrationAssumption, NEW j \in theirJobs, Move!TakeJob(j)
  PROVE  MoveInv'
<1>0. /\ MoveTyped /\ Phases /\ OneCall
      /\ SourceTyped /\ NetTyped /\ RowsTyped /\ DiskTyped /\ QueueTyped
  BY DEF MoveInv, MoveTyped
<1>a. /\ j \in [kind : Move!JobKind, t : Move!Transfer] /\ j = [kind |-> j.kind, t |-> j.t]
      /\ work = Move!NoWork /\ theirJobs' = theirJobs \ {j}
      /\ work' \in Work /\ work'.kind = j.kind /\ work'.t = j.t /\ work'.at = "build" /\ work' # Move!NoWork
      /\ UNCHANGED <<Move!mine, transfers, owner, Move!disk, deleted, moveTroubles>>
  <2>1. j \in [kind : Move!JobKind, t : Move!Transfer] /\ j = [kind |-> j.kind, t |-> j.t]
    BY <1>0 DEF QueueTyped
  <2>2. j.kind \in Move!JobKind \cup {"none"} /\ j.t \in 0..MaxTransfers
    BY <2>1 DEF Move!Transfer, Move!MigrationAssumption
  <2>3. work' = [kind |-> j.kind, t |-> j.t, at |-> "build", ok |-> TRUE]
    BY DEF Move!TakeJob
  <2>4. work' \in Work
    BY <2>2, <2>3 DEF Work
  <2>5. work'.kind = j.kind /\ work'.t = j.t /\ work'.at = "build" /\ work' # Move!NoWork
    BY <2>3 DEF Move!NoWork
  <2>6. QED BY <2>1, <2>4, <2>5 DEF Move!TakeJob
<1>b. task' \in [Move!Transfer -> BOOLEAN] /\ task'[j.t] /\ \A t \in Move!Transfer : task[t] => task'[t]
  BY <1>0, <1>a DEF Move!TakeJob, RowsTyped
<1> USE <1>0, <1>a, <1>b DEF Move!theirs, Move!ours, Move!mine, Move!rows, Move!disk,
        Move!queue, Move!option, Move!source
<1>1. MoveTyped'
  <2>1. SourceTyped'
    BY DEF SourceTyped, Move!NoTransfer
  <2>2. NetTyped'
    BY DEF NetTyped
  <2>3. RowsTyped'
    BY DEF RowsTyped, Move!NoTransfer
  <2>4. DiskTyped'
    BY DEF DiskTyped
  <2>5. QueueTyped'
    BY DEF QueueTyped, RowsTyped, Move!NoWork
  <2>6. QED BY <2>1, <2>2, <2>3, <2>4, <2>5 DEF MoveTyped
<1>2. Phases'
  BY DEF Phases, Longer, Move!NoTransfer
<1>3. OneCall'
  BY DEF OneCall, Copying, T
<1>4. ASSUME ~deleted' PROVE Protected'
  <2>0. /\ ~deleted /\ Unused /\ Own /\ Loading /\ SetUp /\ NoCopyYet /\ SamePack
        /\ OneJob /\ Copied /\ Safe
    BY <1>4 DEF MoveInv, Protected
  <2>a. HasTransfer
    BY <2>0, TransferIs
  <2> USE <2>0, <2>a DEF Move!NoWork, OneCall, SourceTyped, NetTyped, RowsTyped, DiskTyped,
          QueueTyped, HasTransfer
  <2>1. Unused'
    BY DEF Unused, T, Move!Transfer, Move!NoTransfer, Move!NoArchive
  <2>2. Own'
    BY DEF Own, Underway, Moving, After1, Before2, Copying, T, Move!NoTransfer, Move!Transfer
  <2>3. Loading'
    BY DEF Loading, Filling, Moving, Has, Applied, Works, At, After1, T, Own, Underway
  <2>4. SetUp'
    BY DEF SetUp, Kept, At, Before2, Copying, T
  <2>5. NoCopyYet'
    BY DEF NoCopyYet, Moving, Clear, Asked, TheJob, Works, After1, Before2, T
  <2>6. SamePack'
    BY DEF SamePack, InCopy, Sound, Pushed, Asked, Applied, Works, Copying, T
  <2>7. OneJob'
    BY DEF OneJob, Sound, Pushed, Asked, Works, TheJob, T
  <2>8. Copied'
    BY DEF Copied, Clear, Sound, Asked, Works, TheJob, At, Copying, T
  <2>9. Safe'
    BY DEF Safe, Copying, Move!NoTransfer, Move!Transfer, Move!MigrationAssumption
  <2>10. QED BY <2>1, <2>2, <2>3, <2>4, <2>5, <2>6, <2>7, <2>8, <2>9 DEF Protected
<1>5. QED BY <1>1, <1>2, <1>3, <1>4 DEF MoveInv

LEMMA ImportKeeps ==
  ASSUME MoveInv, Move!MigrationAssumption, Move!Import
  PROVE  MoveInv'
<1>0. /\ MoveTyped /\ Phases /\ OneCall
      /\ SourceTyped /\ NetTyped /\ RowsTyped /\ DiskTyped /\ QueueTyped
  BY DEF MoveInv, MoveTyped
<1>a. work # Move!NoWork /\ work \in Work /\ work.kind \in Move!JobKind /\ work.t \in Move!Transfer /\ task[work.t] /\ work.at = "build" /\ work.kind = "in"
      /\ UNCHANGED <<Move!mine, Move!rows, files, load, late, theirJobs, deleted>>
  BY <1>0 DEF Move!Import, Move!NoWork, QueueTyped
<1>b. work' \in Work /\ work'.kind = work.kind /\ work'.t = work.t /\ work'.at = "clean" /\ work' # Move!NoWork
  <2>1. work' = [work EXCEPT !.at = "clean"] \/ work' = [work EXCEPT !.at = "clean", !.ok = FALSE]
    BY DEF Move!Import
  <2>2. CASE work' = [work EXCEPT !.at = "clean"]
    BY <1>a, <2>2 DEF Work, Move!NoWork
  <2>3. CASE work' = [work EXCEPT !.at = "clean", !.ok = FALSE]
    BY <1>a, <2>3 DEF Work, Move!NoWork
  <2>4. QED BY <2>1, <2>2, <2>3
<1>c. moveTroubles' \in 0..MaxTroubles
      /\ \/ files[work.t] = {1, 2} /\ built' = TRUE /\ have' = have \cup load[work.t]
         \/ work'.ok = FALSE /\ UNCHANGED <<built, have>>
  <2>1. work' = [work EXCEPT !.at = "clean", !.ok = FALSE] => work'.ok = FALSE
    BY <1>a DEF Work
  <2>2. QED BY <1>0, <2>1 DEF Move!Import, Move!Trouble, SourceTyped, Move!MigrationAssumption
<1> USE <1>0, <1>a, <1>b, <1>c DEF Move!theirs, Move!ours, Move!mine, Move!rows, Move!disk,
        Move!queue, Move!option, Move!source
<1>1. MoveTyped'
  <2>1. SourceTyped'
    BY DEF SourceTyped, Move!NoTransfer
  <2>2. NetTyped'
    BY DEF NetTyped
  <2>3. RowsTyped'
    BY DEF RowsTyped, Move!NoTransfer
  <2>4. DiskTyped'
    BY DEF DiskTyped, Move!Transfer
  <2>5. QueueTyped'
    BY DEF QueueTyped, RowsTyped, Move!NoWork
  <2>6. QED BY <2>1, <2>2, <2>3, <2>4, <2>5 DEF MoveTyped
<1>2. Phases'
  BY DEF Phases, Longer, Move!NoTransfer
<1>3. OneCall'
  BY DEF OneCall, Copying, T
<1>4. ASSUME ~deleted' PROVE Protected'
  <2>0. /\ ~deleted /\ Unused /\ Own /\ Loading /\ SetUp /\ NoCopyYet /\ SamePack
        /\ OneJob /\ Copied /\ Safe
    BY <1>4 DEF MoveInv, Protected
  <2>a. HasTransfer
    BY <2>0, TransferIs
  <2> USE <2>0, <2>a DEF OneCall, SourceTyped, NetTyped, RowsTyped, DiskTyped, QueueTyped,
          HasTransfer
  <2>1. Unused'
    BY DEF Unused, T, Move!Transfer, Move!NoTransfer, Move!NoArchive, Move!NoWork
  <2>2. Own'
    BY DEF Own, Underway, Moving, After1, Before2, Copying, T, Move!NoTransfer
  <2>3. Loading'
    BY DEF Loading, Filling, Moving, Has, Applied, Works, At, After1, T, Move!NoWork
  <2>4. SetUp'
    BY DEF SetUp, Kept, At, Before2, Copying, T
  <2>5. NoCopyYet'
    BY DEF NoCopyYet, Moving, Clear, Asked, TheJob, Works, After1, Before2, T
  <2>6. SamePack'
    BY DEF SamePack, InCopy, Sound, Pushed, Asked, Applied, Works, Copying, T
  <2>7. OneJob'
    BY DEF OneJob, Sound, Pushed, Asked, Works, TheJob, T
  <2>8. Copied'
    BY DEF Copied, Clear, Sound, Asked, Works, TheJob, At, Copying, T
  <2>9. Safe'
    BY DEF Safe, Copying, Move!NoTransfer
  <2>10. QED BY <2>1, <2>2, <2>3, <2>4, <2>5, <2>6, <2>7, <2>8, <2>9 DEF Protected
<1>5. QED BY <1>1, <1>2, <1>3, <1>4 DEF MoveInv

LEMMA ApplyCatchUpKeeps ==
  ASSUME MoveInv, Move!MigrationAssumption, Move!ApplyCatchUp
  PROVE  MoveInv'
<1>0. /\ MoveTyped /\ Phases /\ OneCall
      /\ SourceTyped /\ NetTyped /\ RowsTyped /\ DiskTyped /\ QueueTyped
  BY DEF MoveInv, MoveTyped
<1>a. work # Move!NoWork /\ work \in Work /\ work.kind \in Move!JobKind /\ work.t \in Move!Transfer /\ task[work.t] /\ work.at = "build" /\ work.kind = "catchup"
      /\ UNCHANGED <<Move!mine, Move!rows, files, load, late, built, theirJobs, deleted>>
  BY <1>0 DEF Move!ApplyCatchUp, Move!NoWork, QueueTyped
<1>b. work' \in Work /\ work'.kind = work.kind /\ work'.t = work.t /\ work'.at = "clean" /\ work' # Move!NoWork
  <2>1. work' = [work EXCEPT !.at = "clean"] \/ work' = [work EXCEPT !.at = "clean", !.ok = FALSE]
    BY DEF Move!ApplyCatchUp
  <2>2. CASE work' = [work EXCEPT !.at = "clean"]
    BY <1>a, <2>2 DEF Work, Move!NoWork
  <2>3. CASE work' = [work EXCEPT !.at = "clean", !.ok = FALSE]
    BY <1>a, <2>3 DEF Work, Move!NoWork
  <2>4. QED BY <2>1, <2>2, <2>3
<1>c. moveTroubles' \in 0..MaxTroubles
      /\ \/ late[work.t].there /\ have' = have \cup late[work.t].mail
         \/ work'.ok = FALSE /\ UNCHANGED have
  <2>1. work' = [work EXCEPT !.at = "clean", !.ok = FALSE] => work'.ok = FALSE
    BY <1>a DEF Work
  <2>2. QED BY <1>0, <2>1 DEF Move!ApplyCatchUp, Move!Trouble, SourceTyped, Move!MigrationAssumption
<1> USE <1>0, <1>a, <1>b, <1>c DEF Move!theirs, Move!ours, Move!mine, Move!rows, Move!disk,
        Move!queue, Move!option, Move!source
<1>1. MoveTyped'
  <2>1. SourceTyped'
    BY DEF SourceTyped, Move!NoTransfer
  <2>2. NetTyped'
    BY DEF NetTyped
  <2>3. RowsTyped'
    BY DEF RowsTyped, Move!NoTransfer
  <2>4. DiskTyped'
    BY DEF DiskTyped, Move!Transfer, Archive
  <2>5. QueueTyped'
    BY DEF QueueTyped, RowsTyped, Move!NoWork
  <2>6. QED BY <2>1, <2>2, <2>3, <2>4, <2>5 DEF MoveTyped
<1>2. Phases'
  BY DEF Phases, Longer, Move!NoTransfer
<1>3. OneCall'
  BY DEF OneCall, Copying, T
<1>4. ASSUME ~deleted' PROVE Protected'
  <2>0. /\ ~deleted /\ Unused /\ Own /\ Loading /\ SetUp /\ NoCopyYet /\ SamePack
        /\ OneJob /\ Copied /\ Safe
    BY <1>4 DEF MoveInv, Protected
  <2>a. HasTransfer
    BY <2>0, TransferIs
  <2> USE <2>0, <2>a DEF OneCall, SourceTyped, NetTyped, RowsTyped, DiskTyped, QueueTyped,
          HasTransfer
  <2>1. Unused'
    BY DEF Unused, T, Move!Transfer, Move!NoTransfer, Move!NoArchive, Move!NoWork
  <2>2. Own'
    BY DEF Own, Underway, Moving, After1, Before2, Copying, T, Move!NoTransfer
  <2>3. Loading'
    BY DEF Loading, Filling, Moving, Has, Applied, Works, At, After1, T, Move!NoWork
  <2>4. SetUp'
    BY DEF SetUp, Kept, At, Before2, Copying, T
  <2>5. NoCopyYet'
    BY DEF NoCopyYet, Moving, Clear, Asked, TheJob, Works, After1, Before2, T
  <2>6. SamePack'
    BY DEF SamePack, InCopy, Sound, Pushed, Asked, Applied, Works, Copying, T
  <2>7. OneJob'
    BY DEF OneJob, Sound, Pushed, Asked, Works, TheJob, T
  <2>8. Copied'
    BY DEF Copied, Clear, Sound, Asked, Works, TheJob, At, Copying, T
  <2>9. Safe'
    BY DEF Safe, Copying, Move!NoTransfer
  <2>10. QED BY <2>1, <2>2, <2>3, <2>4, <2>5, <2>6, <2>7, <2>8, <2>9 DEF Protected
<1>5. QED BY <1>1, <1>2, <1>3, <1>4 DEF MoveInv

LEMMA FinishImportKeeps ==
  ASSUME MoveInv, Move!MigrationAssumption, Move!FinishImport
  PROVE  MoveInv'
<1>0. /\ MoveTyped /\ Phases /\ OneCall
      /\ SourceTyped /\ NetTyped /\ RowsTyped /\ DiskTyped /\ QueueTyped
  BY DEF MoveInv, MoveTyped
<1>a. work # Move!NoWork /\ work \in Work /\ work.kind \in Move!JobKind /\ work.t \in Move!Transfer /\ task[work.t] /\ work.at = "build" /\ work.kind = "finish"
      /\ UNCHANGED <<Move!mine, Move!rows, Move!disk, theirJobs, deleted, moveTroubles>>
  BY <1>0 DEF Move!FinishImport, Move!NoWork, QueueTyped
<1>b. work' \in Work /\ work'.kind = work.kind /\ work'.t = work.t /\ work'.at = "clean" /\ work' # Move!NoWork
  <2>1. work \in Work /\ work' = [work EXCEPT !.at = "clean"]
    BY <1>a DEF Move!FinishImport
  <2>2. QED BY <2>1 DEF Work, Move!NoWork
<1> USE <1>0, <1>a, <1>b DEF Move!theirs, Move!ours, Move!mine, Move!rows, Move!disk,
        Move!queue, Move!option, Move!source
<1>1. MoveTyped'
  <2>1. SourceTyped'
    BY DEF SourceTyped, Move!NoTransfer
  <2>2. NetTyped'
    BY DEF NetTyped
  <2>3. RowsTyped'
    BY DEF RowsTyped, Move!NoTransfer
  <2>4. DiskTyped'
    BY DEF DiskTyped
  <2>5. QueueTyped'
    BY DEF QueueTyped, RowsTyped, Move!NoWork
  <2>6. QED BY <2>1, <2>2, <2>3, <2>4, <2>5 DEF MoveTyped
<1>2. Phases'
  BY DEF Phases, Longer, Move!NoTransfer
<1>3. OneCall'
  BY DEF OneCall, Copying, T
<1>4. ASSUME ~deleted' PROVE Protected'
  <2>0. /\ ~deleted /\ Unused /\ Own /\ Loading /\ SetUp /\ NoCopyYet /\ SamePack
        /\ OneJob /\ Copied /\ Safe
    BY <1>4 DEF MoveInv, Protected
  <2> USE <2>0 DEF OneCall, SourceTyped, NetTyped, RowsTyped, DiskTyped, QueueTyped
  <2>1. Unused'
    BY DEF Unused, T, Move!Transfer, Move!NoTransfer, Move!NoArchive, Move!NoWork
  <2>2. Own'
    BY DEF Own, Underway, Moving, After1, Before2, Copying, T, Move!NoTransfer
  <2>3. Loading'
    BY DEF Loading, Filling, Moving, Has, Applied, Works, At, After1, T
  <2>4. SetUp'
    BY DEF SetUp, Kept, At, Before2, Copying, T
  <2>5. NoCopyYet'
    BY DEF NoCopyYet, Moving, Clear, Asked, TheJob, Works, After1, Before2, T
  <2>6. SamePack'
    BY DEF SamePack, InCopy, Sound, Pushed, Asked, Applied, Works, Copying, T
  <2>7. OneJob'
    BY DEF OneJob, Sound, Pushed, Asked, Works, TheJob, T
  <2>8. Copied'
    BY DEF Copied, Clear, Sound, Asked, Works, TheJob, At, Copying, T
  <2>9. Safe'
    BY DEF Safe, Copying, Move!NoTransfer
  <2>10. QED BY <2>1, <2>2, <2>3, <2>4, <2>5, <2>6, <2>7, <2>8, <2>9 DEF Protected
<1>5. QED BY <1>1, <1>2, <1>3, <1>4 DEF MoveInv

LEMMA RemoveArchivesKeeps ==
  ASSUME MoveInv, Move!MigrationAssumption, Move!RemoveArchives
  PROVE  MoveInv'
<1>0. /\ MoveTyped /\ Phases /\ OneCall
      /\ SourceTyped /\ NetTyped /\ RowsTyped /\ DiskTyped /\ QueueTyped
  BY DEF MoveInv, MoveTyped
<1>a. work # Move!NoWork /\ work \in Work /\ work.kind \in Move!JobKind /\ work.t \in Move!Transfer /\ task[work.t] /\ work.at = "clean"
      /\ UNCHANGED <<Move!mine, Move!rows, load, built, have, theirJobs, deleted, moveTroubles>>
  BY <1>0 DEF Move!RemoveArchives, Move!NoWork, QueueTyped
<1>b. work' \in Work /\ work'.kind = work.kind /\ work'.t = work.t /\ work'.at = "mark" /\ work' # Move!NoWork /\ work'.ok = work.ok
  <2>1. work \in Work /\ work' = [work EXCEPT !.at = "mark"]
    BY <1>a DEF Move!RemoveArchives
  <2>2. QED BY <2>1 DEF Work, Move!NoWork
<1>c. /\ files' \in [Move!Transfer -> SUBSET {1, 2}] /\ late' \in [Move!Transfer -> Archive]
      /\ \A t \in Move!Transfer : /\ files'[t] = files[t] \/ files'[t] = {}
                                  /\ late'[t] = late[t] \/ ~late'[t].there
                                  /\ work.kind = "catchup" /\ work.t = t => ~late'[t].there
  <2>1. Move!NoArchive \in Archive /\ ~Move!NoArchive.there
    BY DEF Move!NoArchive, Archive
  <2>2. QED BY <1>0, <1>a, <2>1 DEF Move!RemoveArchives, DiskTyped
<1> USE <1>0, <1>a, <1>b, <1>c DEF Move!theirs, Move!ours, Move!mine, Move!rows, Move!disk,
        Move!queue, Move!option, Move!source
<1>1. MoveTyped'
  <2>1. SourceTyped'
    BY DEF SourceTyped, Move!NoTransfer
  <2>2. NetTyped'
    BY DEF NetTyped
  <2>3. RowsTyped'
    BY DEF RowsTyped, Move!NoTransfer
  <2>4. DiskTyped'
    BY DEF DiskTyped
  <2>5. QueueTyped'
    BY DEF QueueTyped, RowsTyped, Move!NoWork
  <2>6. QED BY <2>1, <2>2, <2>3, <2>4, <2>5 DEF MoveTyped
<1>2. Phases'
  BY DEF Phases, Longer, Move!NoTransfer
<1>3. OneCall'
  BY DEF OneCall, Copying, T
<1>4. ASSUME ~deleted' PROVE Protected'
  <2>0. /\ ~deleted /\ Unused /\ Own /\ Loading /\ SetUp /\ NoCopyYet /\ SamePack
        /\ OneJob /\ Copied /\ Safe
    BY <1>4 DEF MoveInv, Protected
  <2>a. HasTransfer
    BY <2>0, TransferIs
  <2> USE <2>0, <2>a DEF OneCall, SourceTyped, NetTyped, RowsTyped, DiskTyped, QueueTyped,
          HasTransfer
  <2>1. Unused'
    BY DEF Unused, T, Move!Transfer, Move!NoTransfer, Move!NoArchive, Move!NoWork
  <2>2. Own'
    BY DEF Own, Underway, Moving, After1, Before2, Copying, T, Move!NoTransfer
  <2>3. Loading'
    BY DEF Loading, Filling, Moving, Has, Applied, Works, At, After1, T
  <2>4. SetUp'
    BY DEF SetUp, Kept, At, Before2, Copying, T
  <2>5. NoCopyYet'
    BY DEF NoCopyYet, Moving, Clear, Asked, TheJob, Works, After1, Before2, T
  <2>6. SamePack'
    BY DEF SamePack, InCopy, Sound, Pushed, Asked, Applied, Works, Copying, T
  <2>7. OneJob'
    BY DEF OneJob, Sound, Pushed, Asked, Works, TheJob, T
  <2>8. Copied'
    BY DEF Copied, Clear, Sound, Asked, Works, TheJob, At, Copying, T
  <2>9. Safe'
    BY DEF Safe, Copying, Move!NoTransfer
  <2>10. QED BY <2>1, <2>2, <2>3, <2>4, <2>5, <2>6, <2>7, <2>8, <2>9 DEF Protected
<1>5. QED BY <1>1, <1>2, <1>3, <1>4 DEF MoveInv

LEMMA MarkOutcomeKeeps ==
  ASSUME MoveInv, Move!MigrationAssumption, Move!MarkOutcome
  PROVE  MoveInv'
<1>0. /\ MoveTyped /\ Phases /\ OneCall
      /\ SourceTyped /\ NetTyped /\ RowsTyped /\ DiskTyped /\ QueueTyped
  BY DEF MoveInv, MoveTyped
<1>a. work # Move!NoWork /\ work \in Work /\ work.kind \in Move!JobKind /\ work.t \in Move!Transfer /\ task[work.t] /\ work.at = "mark" /\ work' = Move!NoWork /\ Move!NoWork \in Work
      /\ UNCHANGED <<Move!mine, task, owner, Move!disk, theirJobs, deleted, moveTroubles>>
  BY <1>0 DEF Move!MarkOutcome, Move!NoWork, QueueTyped, Work, Move!NoTransfer,
     Move!MigrationAssumption
<1>b. transfers' \in [Move!Transfer -> Move!Status] /\ (\A t \in Move!Transfer : t # work.t => transfers'[t] = transfers[t])
      /\ transfers'[work.t] \in {"failed", "imported", "finished", "done"}
      /\ (transfers'[work.t] = "imported" => work.ok /\ work.kind = "in")
      /\ (transfers'[work.t] = "done" => work.ok /\ (work.kind = "catchup" \/ kind = "site"))
  <2>1. /\ Move!Outcome \in {"failed", "imported", "finished", "done"}
        /\ Move!Outcome = "imported" => work.ok /\ work.kind = "in"
        /\ Move!Outcome = "done" => work.ok /\ (work.kind = "catchup" \/ kind = "site")
    BY <1>0, <1>a DEF Move!Outcome, Move!JobKind, SourceTyped
  <2>2. QED BY <1>0, <1>a, <2>1 DEF Move!MarkOutcome, RowsTyped, Move!Status, Move!Ended
<1> USE <1>0, <1>a, <1>b DEF Move!theirs, Move!ours, Move!mine, Move!rows, Move!disk,
        Move!queue, Move!option, Move!source
<1>1. MoveTyped'
  <2>1. SourceTyped'
    BY DEF SourceTyped, Move!NoTransfer
  <2>2. NetTyped'
    BY DEF NetTyped
  <2>3. RowsTyped'
    BY DEF RowsTyped, Move!NoTransfer
  <2>4. DiskTyped'
    BY DEF DiskTyped
  <2>5. QueueTyped'
    BY DEF QueueTyped, RowsTyped, Move!NoWork
  <2>6. QED BY <2>1, <2>2, <2>3, <2>4, <2>5 DEF MoveTyped
<1>2. Phases'
  BY DEF Phases, Longer, Move!NoTransfer
<1>3. OneCall'
  BY DEF OneCall, Copying, T
<1>4. ASSUME ~deleted' PROVE Protected'
  <2>0. /\ ~deleted /\ Unused /\ Own /\ Loading /\ SetUp /\ NoCopyYet /\ SamePack
        /\ OneJob /\ Copied /\ Safe
    BY <1>4 DEF MoveInv, Protected
  <2>a. HasTransfer
    BY <2>0, TransferIs
  <2> USE <2>0, <2>a DEF OneCall, SourceTyped, NetTyped, RowsTyped, DiskTyped, QueueTyped,
          HasTransfer, Works, Move!NoWork
  <2>1. Unused'
    <3>1. \A t \in Move!Transfer : transfers'[t] = "none" => transfers[t] = "none" /\ t # work.t
      OBVIOUS
    <3>2. \A t \in Move!Transfer : transfers'[t] = "none" =>
            /\ t # T /\ files[t] = {} /\ ~late[t].there
            /\ \A q \in net : q.t = t => q.path \in {"hello", "begin"}
            /\ \A j \in theirJobs : j.t # t
            /\ Move!NoWork.t # t
      BY <3>1 DEF Unused, Move!NoTransfer, Move!Transfer
    <3>3. \A q \in net : q.path = "begin" /\ q.phase = 2 => q.t \in Move!Transfer /\ owner = q.t /\ transfers[q.t] = "none"
      BY DEF Unused, Phases
    <3>4. work.t \in Move!Transfer /\ transfers[work.t] # "none"
      BY DEF Unused
    <3>5. \A q \in net : q.path = "begin" /\ q.phase = 2 => owner = q.t /\ transfers'[q.t] = "none"
      BY <3>3, <3>4
    <3>6. QED BY <3>2, <3>5 DEF Unused, T
  <2>2. Own'
    BY DEF Own, Underway, Moving, After1, Before2, Copying, T, Move!NoTransfer, Move!Transfer
  <2>3. Loading'
    BY DEF Loading, Filling, Moving, Has, Applied, At, After1, T
  <2>4. SetUp'
    BY DEF SetUp, Kept, At, Before2, Copying, T
  <2>5. NoCopyYet'
    BY DEF NoCopyYet, Moving, Clear, Asked, TheJob, After1, Before2, T
  <2>6. SamePack'
    BY DEF SamePack, InCopy, Sound, Pushed, Asked, Applied, Copying, T
  <2>7. OneJob'
    BY DEF OneJob, Sound, Pushed, Asked, TheJob, T, Copying
  <2>8. Copied'
    BY DEF Copied, Clear, Sound, Asked, TheJob, At, Copying, T
  <2>9. Safe'
    BY DEF Safe, Copying, Move!NoTransfer, Move!Transfer, Move!MigrationAssumption
  <2>10. QED BY <2>1, <2>2, <2>3, <2>4, <2>5, <2>6, <2>7, <2>8, <2>9 DEF Protected
<1>5. QED BY <1>1, <1>2, <1>3, <1>4 DEF MoveInv

LEMMA DeleteThereKeeps ==
  ASSUME MoveInv, Move!MigrationAssumption, Move!DeleteThere
  PROVE  MoveInv'
<1>1. deleted' = TRUE /\ owner' = Move!NoTransfer /\ built' = FALSE /\ have' = {}
      /\ UNCHANGED <<Move!mine, transfers, task, files, load, late, Move!queue, moveTroubles>>
  BY DEF Move!DeleteThere
<1>2. Move!NoTransfer \in 0..MaxTransfers
  BY DEF Move!NoTransfer, Move!MigrationAssumption
<1>3. SourceTyped /\ NetTyped /\ RowsTyped /\ DiskTyped /\ QueueTyped /\ Phases /\ OneCall
  BY DEF MoveInv, MoveTyped
<1>a. SourceTyped'
  BY <1>1, <1>3 DEF SourceTyped, Move!mine, Move!option, Move!source
<1>b. NetTyped' /\ Phases'
  BY <1>1, <1>3 DEF NetTyped, Phases, Move!mine
<1>c. RowsTyped' /\ DiskTyped'
  BY <1>1, <1>2, <1>3 DEF RowsTyped, DiskTyped
<1>d. QueueTyped'
  BY <1>1, <1>3 DEF QueueTyped, Move!queue
<1>e. OneCall'
  BY <1>1, <1>3 DEF OneCall, T, Move!mine, Move!option, Move!source
<1>f. MoveTyped'
  BY <1>a, <1>b, <1>c, <1>d DEF MoveTyped
<1>4. QED BY <1>1, <1>b, <1>e, <1>f DEF MoveInv

LEMMA MoveStutters ==
  ASSUME MoveInv, UNCHANGED Move!vars
  PROVE  MoveInv'
<1>1. UNCHANGED <<Move!option, Move!source, net, answer, Move!rows, Move!disk, Move!queue, deleted, lostCopy, moveTroubles>>
  BY DEF Move!vars
<1>2. SourceTyped /\ NetTyped /\ RowsTyped /\ DiskTyped /\ QueueTyped /\ Phases /\ OneCall
  BY DEF MoveInv, MoveTyped
<1> USE DEF Move!option, Move!source, Move!rows, Move!disk, Move!queue
<1>3. SourceTyped' /\ NetTyped' /\ RowsTyped' /\ DiskTyped' /\ QueueTyped'
  BY <1>1, <1>2 DEF SourceTyped, NetTyped, RowsTyped, DiskTyped, QueueTyped
<1>4. Phases' /\ OneCall'
  BY <1>1, <1>2 DEF Phases, OneCall, T
<1>5. ASSUME ~deleted' PROVE Protected'
  <2>1. Protected
    BY <1>1, <1>5 DEF MoveInv
  <2>2. Unused' /\ Own'
    BY <1>1, <2>1 DEF Protected, Unused, Own, Underway, Moving, T
  <2>3. Loading' /\ SetUp'
    BY <1>1, <2>1 DEF Protected, Loading, SetUp, Filling, Moving, At, Has, Kept, Applied, Works, T
  <2>4. NoCopyYet' /\ Copied'
    BY <1>1, <2>1 DEF Protected, NoCopyYet, Copied, Clear, Asked, TheJob, Works, Moving, At,
       Sound, T
  <2>5. SamePack' /\ OneJob'
    BY <1>1, <2>1 DEF Protected, SamePack, OneJob, InCopy, Sound, Pushed, Asked, TheJob, Works,
       Applied, T
  <2>6. Safe'
    BY <1>1, <2>1 DEF Protected, Safe
  <2>7. QED BY <2>2, <2>3, <2>4, <2>5, <2>6 DEF Protected
<1>6. QED BY <1>3, <1>4, <1>5 DEF MoveInv, MoveTyped

LEMMA MoveGoesOn ==
  ASSUME MoveInv, Move!MigrationAssumption, Move!Next
  PROVE  MoveInv'
<1>1. CASE Move!MailArrives \/ Move!Start \/ Move!CatchUp \/ Move!RunOut \/ Move!Ask \/ Move!GiveUp \/ Move!Answered
  BY <1>1, MailArrivesKeeps, StartKeeps, CatchUpKeeps, RunOutKeeps, AskKeeps, GiveUpKeeps,
     AnsweredKeeps
<1>2. CASE Move!Package \/ Move!PackCatchUp \/ Move!Wait \/ Move!SwitchDNS \/ Move!Remove \/ Move!Done
  BY <1>2, PackageKeeps, PackCatchUpKeeps, WaitKeeps, SwitchDNSKeeps, RemoveKeeps, DoneKeeps
<1>3. ASSUME NEW r \in net,
             \/ Move!Read(r) \/ Move!Hello(r) \/ Move!BeginRows(r) \/ Move!BeginTransfer(r)
             \/ Move!Upload(r) \/ Move!UploadCatchUp(r) \/ Move!Finish(r) \/ Move!Finalize(r)
             \/ Move!CatchUpIn(r) \/ Move!SetStatus(r) \/ Move!PushJob(r) \/ Move!Cancel(r)
      PROVE  MoveInv'
  <2>1. CASE Move!Read(r) \/ Move!Hello(r) \/ Move!BeginRows(r) \/ Move!BeginTransfer(r)
    BY <2>1, ReadKeeps, HelloKeeps, BeginRowsKeeps, BeginTransferKeeps
  <2>2. CASE Move!Upload(r) \/ Move!UploadCatchUp(r) \/ Move!Finish(r) \/ Move!Finalize(r)
    BY <2>2, UploadKeeps, UploadCatchUpKeeps, FinishKeeps, FinalizeKeeps
  <2>3. CASE Move!CatchUpIn(r) \/ Move!SetStatus(r) \/ Move!PushJob(r) \/ Move!Cancel(r)
    BY <2>3, CatchUpInKeeps, SetStatusKeeps, PushJobKeeps, CancelKeeps
  <2>4. QED BY <1>3, <2>1, <2>2, <2>3
<1>4. CASE \E j \in theirJobs : Move!TakeJob(j)
  BY <1>4, TakeJobKeeps
<1>5. CASE Move!Import \/ Move!ApplyCatchUp \/ Move!FinishImport \/ Move!RemoveArchives \/ Move!MarkOutcome
  BY <1>5, ImportKeeps, ApplyCatchUpKeeps, FinishImportKeeps, RemoveArchivesKeeps, MarkOutcomeKeeps
<1>6. CASE Move!DeleteThere \/ Move!SourceDies \/ Move!DestinationDies
  BY <1>6, DeleteThereKeeps, SourceDiesKeeps, DestinationDiesKeeps
<1>7. QED BY <1>1, <1>2, <1>3, <1>4, <1>5, <1>6 DEF Move!Next

LEMMA MoveMeans == MoveInv => Move!MoveKept
<1> SUFFICES ASSUME MoveInv PROVE Move!MoveKept
  OBVIOUS
<1>1. Move!NeverLost
  BY DEF Move!NeverLost, MoveInv, Protected, Safe
<1>2. Move!CopiedIsThere
  BY DEF Move!CopiedIsThere, MoveInv, Protected, Copied
<1>3. QED BY <1>1, <1>2 DEF Move!MoveKept

MoveFocus == focus = "move" => MoveInv

LEMMA MoveStarts == Init => MoveFocus
<1> SUFFICES ASSUME Init, focus = "move" PROVE MoveInv
  BY DEF MoveFocus
<1>1. Move!Init
  BY DEF Init
<1>2. QED BY <1>1, MoveAssumption, MoveFirst

LEMMA MoveStep == MoveFocus /\ [Next]_vars => MoveFocus'
<1> SUFFICES ASSUME MoveFocus, [Next]_vars, focus' = "move" PROVE MoveInv'
  BY DEF MoveFocus
<1>1. focus = "move" /\ (Move!Next \/ UNCHANGED moveVars) /\ MoveInv
  BY DEF Next, vars, MoveFocus
<1>2. UNCHANGED moveVars => UNCHANGED Move!vars
  BY DEF moveVars, Move!vars, Move!option, Move!source, Move!rows, Move!disk, Move!queue
<1>3. QED BY <1>1, <1>2, MoveAssumption, MoveGoesOn, MoveStutters

\* Whatever call between the two panels is lost, late or repeated, whatever step
\* fails and whichever panel dies and runs its job again: the original is only
\* touched once the other panel has the site or mail domain set up with every
\* message of the last copy, and it stays there; and when a move or a catch-up
\* says it is done, the messages up to the mark are in the new mailboxes
\* (migrate.go, runMigrationOut and migrateCancel; mail/migrate.go, PackageCatchUp).
THEOREM NothingIsLostOnTheWay == Spec => []MoveKept
<1>1. MoveInv => Move!TypeOK
  <2> SUFFICES ASSUME MoveInv PROVE Move!TypeOK
    OBVIOUS
  <2>1. SourceTyped /\ NetTyped /\ RowsTyped /\ DiskTyped /\ QueueTyped
    BY DEF MoveInv, MoveTyped
  <2>2. out.status \in {"none", "queued", "running", "done", "failed"} /\ out.transfer \in 0..MaxTransfers
    BY <2>1 DEF SourceTyped
  <2>3. \A r \in net : r.path \in Move!Call /\ r.phase \in 0..3 /\ r.seen \in Move!Status
    BY <2>1 DEF NetTyped, Request
  <2>4. QED
    BY <2>1, <2>2, <2>3 DEF Move!TypeOK, SourceTyped, NetTyped, RowsTyped, DiskTyped, QueueTyped
<1>2. MoveFocus => MoveKept
  BY <1>1, MoveMeans DEF MoveFocus, MoveKept
<1>3. QED BY <1>2, MoveStarts, MoveStep, PTL DEF Spec

(***************************************************************************)
(* Backups, for any number of workers, backups, runs, restores, changes    *)
(* and failures.  A directory or folder is one run's until its row is      *)
(* complete, and one row's from then on (Owns, Owned), as a backup has one *)
(* job in the queue or at a worker (OneEach); so what a run has written so *)
(* far is whole and of the site it began with (Takes), and so is what a    *)
(* complete row is of (Complete), unless somebody is removing it or died   *)
(* over that.  The site's root is away in one worker's hands at most, with *)
(* the old one set aside (Swapped).  A restore that has the site to itself *)
(* (Quiet) puts back the two halves its backup found, which were of one    *)
(* version (PutBack).                                                      *)
(***************************************************************************)
\* The types of what the module keeps.
Row == Copies!Backup \cup {1}
Half == [files : Copies!Content, db : Copies!Content]
Held == [there : BOOLEAN, copy : Half]
Record == [status : Copies!Status, kind : {"scheduled", "manual"}, dir : 0..MaxRuns, key : 0..MaxRuns]
Place == [kind : {"none", "backup", "restore"}, b : Row, at : Copies!At, dir : 0..MaxRuns, got : Half,
          todo : SUBSET Copies!Backup, old : Row]
Removal == [at : {"idle", "files", "row"}, b : Row, dir : 0..MaxRuns, key : 0..MaxRuns]

SiteTyped == root \in Copies!Content /\ db \in Copies!Content /\ status \in {"active", "deploying", "failed"}
StoreTyped == row \in [Copies!Backup -> Record] /\ disk \in [Copies!Dir -> Held] /\ bucket \in [Copies!Dir -> Held]
WorkTyped ==
    /\ jobs \subseteq [kind : {"backup", "restore"}, b : Copies!Backup] /\ asking \subseteq Copies!Backup
    /\ run \in [Worker -> Place] /\ page \in Removal
    /\ page.at # "idle" => page.b \in Copies!Backup
    /\ \A w \in Worker : /\ Copies!Busy(w) => run[w].b \in Copies!Backup
                         /\ run[w].at = "unrow" => run[w].old \in Copies!Backup
SwapTyped == staging \in [Copies!Backup -> Copies!Content] /\ aside \in [Worker -> Copies!Content] /\ left \subseteq Copies!Content
PastTyped ==
    /\ was \in [Copies!Dir -> Half] /\ mixed \in BOOLEAN /\ parted \in BOOLEAN /\ cut \subseteq Copies!Backup
    /\ asked \in 0..MaxBackups /\ runs \in 0..MaxRuns /\ restores \in 0..MaxRestores
    /\ version \in 0..MaxVersion /\ troubles \in 0..MaxTroubles
Typed == SiteTyped /\ StoreTyped /\ WorkTyped /\ SwapTyped /\ PastTyped

\* Which steps are whose.
Making == {"room", "dump", "archive", "upload", "drop", "mark", "finish"}
InDir(w) == run[w].kind = "backup" /\ run[w].at \in Making \cup {"clean", "lose"}
Restoring == {"download", "extract", "extracted", "away", "in", "back", "tidy", "empty", "load",
              "active", "fail"}
Restores(w) == run[w].kind = "restore" /\ run[w].at # "begin"
Stages ==
    \A w \in Worker :
        /\ run[w].kind = "none" => run[w].at = "idle"
        /\ run[w].kind = "backup" =>
             run[w].at \in Making \cup {"clean", "lose", "begin", "prune", "forget", "unrow"}
        /\ run[w].kind = "restore" => run[w].at \in Restoring \cup {"begin"}
        /\ run[w].at \in {"upload", "drop", "mark", "download"} => run[w].b \in Remote

\* A backup has one job, and a restore of it another.
OneEach ==
    /\ \A b \in asking : b <= asked /\ [kind |-> "backup", b |-> b] \notin jobs
    /\ \A j \in jobs : j.b <= asked
    /\ \A w \in Worker : Copies!Busy(w) =>
         /\ run[w].b <= asked
         /\ [kind |-> run[w].kind, b |-> run[w].b] \notin jobs
         /\ run[w].kind = "backup" => run[w].b \notin asking
         /\ \A v \in Worker : run[v].kind = run[w].kind /\ run[v].b = run[w].b => v = w

Known == \A b \in Copies!Backup : row[b].status # "none" => b <= asked

\* A directory is one run's, and one row's.
Owned(b) ==
    /\ row[b].dir <= runs /\ row[b].key <= runs
    /\ row[b].status = "none" => row[b].dir = Copies!NoDir /\ row[b].key = Copies!NoDir
    /\ \A c \in Copies!Backup :
         /\ row[b].dir # Copies!NoDir /\ row[c].dir = row[b].dir => c = b
         /\ row[b].key # Copies!NoDir /\ row[c].key = row[b].key => c = b
    /\ row[b].status = "complete" => Copies!TakenAt(b) # Copies!NoDir
    /\ page.at = "files" /\ page.dir # Copies!NoDir /\ row[b].dir = page.dir => b = page.b
    /\ page.at = "files" /\ page.key # Copies!NoDir /\ row[b].key = page.key => b = page.b
OwnDirs ==
    /\ \A b \in Copies!Backup : Owned(b)
    /\ page.at = "files" => page.dir <= runs /\ page.key <= runs
Owns(w) ==
    /\ run[w].dir \in 1..runs
    /\ row[run[w].b].status \in {"none", "running"}
    /\ \A c \in Copies!Backup : /\ row[c].dir = run[w].dir => c = run[w].b
                                /\ row[c].key = run[w].dir => c = run[w].b /\ run[w].at = "finish"
    /\ page.at = "files" /\ run[w].at # "finish" => page.key # run[w].dir
    /\ page.at = "files" /\ run[w].dir \in {page.dir, page.key} => page.b = run[w].b
    /\ \A v \in Worker : InDir(v) /\ run[v].dir = run[w].dir => v = w
OwnRun ==
    \A w \in Worker : /\ Restores(w) => run[w].dir \in 1..runs
                      /\ InDir(w) => Owns(w)

\* A copy with both halves; and, unless something else was at the site, with
\* those of when it began.
Both(copy, d) == copy.files # Copies!Nil /\ copy.db # Copies!Nil /\ (~mixed => copy = was[d])
Going(b) == Copies!Removing(b) \/ b \in cut
Stored(b, where, d) == Both(where[d].copy, d) \/ (where[d] = Copies!Gone /\ Going(b))
Holding(b) == IF b \in Remote THEN Stored(b, bucket, row[b].key) ELSE Stored(b, disk, row[b].dir)

\* No half of a site's files is anywhere.
NoHalf ==
    /\ root # Copies!Part /\ db # Copies!Nil
    /\ \A d \in Copies!Dir : disk[d].copy.files # Copies!Part /\ bucket[d].copy.files # Copies!Part
    /\ \A w \in Worker : run[w].got.files # Copies!Part /\ aside[w] # Copies!Part

Complete == \A b \in Copies!Backup : row[b].status = "complete" => Holding(b)
Takes(w) ==
    LET b == run[w].b
        d == run[w].dir
        at == run[w].at IN
    /\ at \in {"room", "dump", "archive"} /\ ~mixed => was[d].files = root /\ was[d].db = db
    /\ at \in Making \ {"finish"} /\ row[b].status # "none" => row[b].dir = d
    /\ at = "archive" /\ disk[d].there =>
         disk[d].copy.db # Copies!Nil /\ (~mixed => disk[d].copy.db = was[d].db)
    /\ at = "upload" /\ disk[d].there => Both(disk[d].copy, d)
    /\ at \in {"drop", "mark"} => Both(bucket[d].copy, d)
    /\ at = "finish" /\ row[b].status # "none" => Copies!TakenAt(b) = d /\ Holding(b)
Taking == \A w \in Worker : run[w].kind = "backup" => Takes(w)

\* The root is away in one pair of hands.
Away(w) == aside[w] # Copies!Nil /\ run[w].at \in {"in", "back"}
Swapped ==
    /\ root = Copies!Nil => IF parted THEN left # {} ELSE \E w \in Worker : Away(w)
    /\ parted => left # {}
    /\ \A w \in Worker :
         /\ aside[w] # Copies!Nil => run[w].at \in {"in", "back", "tidy"}
         /\ run[w].at = "in" => aside[w] # Copies!Nil
         /\ Away(w) => root = Copies!Nil /\ \A v \in Worker : Away(v) => v = w
         /\ run[w].at \in {"away", "in"} => staging[run[w].b] \notin {Copies!Nil, Copies!Part}

\* A restore by itself puts back what its backup found.
Quiet == ~mixed =>
    /\ \A v, w \in Worker : run[v].kind = "restore" /\ Copies!Busy(w) => v = w
    /\ \A d \in 1..runs : was[d].files = was[d].db
    /\ status = "active" => root = db
Returns(w) ==
    LET d == run[w].dir
        at == run[w].at IN
    /\ status # "active"
    /\ at = "download" => bucket[d] = Copies!Gone \/ bucket[d].copy = was[d]
    /\ at \in Restoring \ {"download", "active", "fail"} => Copies!Source(w) \in {Copies!NoCopy, was[d]}
    /\ at \in {"away", "in"} => staging[run[w].b] = was[d].files
    /\ at \in {"tidy", "empty", "load"} => root = was[d].files
    /\ at = "active" => root = db
PutBack == ~mixed => \A w \in Worker : Restores(w) => Returns(w)

CopiesInv == /\ Typed /\ Stages /\ OneEach /\ Known /\ OwnDirs /\ OwnRun /\ NoHalf
             /\ Complete /\ Taking /\ Swapped /\ Quiet /\ PutBack

LEMMA CopyBounds ==
  ASSUME Copies!BackupsAssumption
  PROVE  /\ MaxBackups \in Nat /\ MaxRuns \in Nat /\ MaxRestores \in Nat /\ MaxVersion \in Nat
         /\ MaxTroubles \in Nat
  BY DEF Copies!BackupsAssumption

\* What a step of a worker leaves alone.
LEMMA GotoIs ==
  ASSUME WorkTyped, NEW w \in Worker, NEW s \in Copies!At, Copies!Goto(w, s), s # "unrow"
  PROVE  /\ run' \in [Worker -> Place]
         /\ run'[w].at = s /\ run'[w].kind = run[w].kind /\ run'[w].b = run[w].b
         /\ run'[w].dir = run[w].dir /\ run'[w].got = run[w].got /\ run'[w].todo = run[w].todo
         /\ run'[w].old = run[w].old
         /\ \A v \in Worker : v # w => run'[v] = run[v]
         /\ \A v \in Worker : /\ run'[v].kind = run[v].kind /\ run'[v].b = run[v].b
                              /\ run'[v].at = "unrow" => run'[v].old \in Copies!Backup
  BY DEF WorkTyped, Copies!Goto, Place

LEMMA StopIs ==
  ASSUME WorkTyped, Copies!BackupsAssumption, NEW w \in Worker, Copies!Stop(w)
  PROVE  /\ run' \in [Worker -> Place]
         /\ run'[w] = Copies!Idle /\ run'[w].at = "idle" /\ run'[w].kind = "none"
         /\ \A v \in Worker : v # w => run'[v] = run[v]
         /\ \A v \in Worker : run'[v].kind # "none" => run'[v] = run[v]
<1>1. Copies!Idle \in Place
  BY CopyBounds DEF Copies!Idle, Place, Row, Copies!At, Copies!NoCopy, Half, Copies!Content,
     Copies!Nil, Copies!NoDir, Copies!Backup
<1>2. Copies!Idle.at = "idle" /\ Copies!Idle.kind = "none"
  BY DEF Copies!Idle
<1>3. QED BY <1>1, <1>2 DEF WorkTyped, Copies!Stop

\* Where a finished backup is, and the directory of a run.
LEMMA InPlace ==
  ASSUME StoreTyped, OwnDirs, NEW b \in Copies!Backup, row[b].status = "complete"
  PROVE  Copies!TakenAt(b) \in Copies!Dir
  BY DEF StoreTyped, OwnDirs, Owned, Copies!TakenAt, Record, Copies!Dir, Copies!NoDir

LEMMA RunDir ==
  ASSUME OwnRun, PastTyped, Copies!BackupsAssumption, NEW w \in Worker, InDir(w) \/ Restores(w)
  PROVE  run[w].dir \in Copies!Dir /\ run[w].dir \in 1..runs
  BY CopyBounds DEF OwnRun, Owns, PastTyped, Copies!Dir

\* What a row says of its copy stays so while nobody touches either.
LEMMA StillHolding ==
  ASSUME NEW b \in Copies!Backup, Holding(b), row'[b] = row[b], Going(b) => Going(b)', mixed => mixed',
         was'[Copies!TakenAt(b)] = was[Copies!TakenAt(b)],
         IF b \in Remote
           THEN \/ bucket'[row[b].key] = bucket[row[b].key]
                \/ bucket'[row[b].key] = Copies!Gone /\ Going(b)'
           ELSE \/ disk'[row[b].dir] = disk[row[b].dir]
                \/ disk'[row[b].dir] = Copies!Gone /\ Going(b)'
  PROVE  Holding(b)'
<1>1. CASE b \in Remote
  BY <1>1 DEF Holding, Stored, Both, Copies!TakenAt
<1>2. CASE b \notin Remote
  BY <1>2 DEF Holding, Stored, Both, Copies!TakenAt
<1>3. QED BY <1>1, <1>2

\* A backup under way is as far as it was while nobody touches its directory.
LEMMA OthersTake ==
  ASSUME NEW w \in Worker, run[w].kind = "backup", Takes(w), run'[w] = run[w], Stages,
         mixed => mixed', mixed' \/ (root' = root /\ db' = db),
         InDir(w) =>
           /\ was'[run[w].dir] = was[run[w].dir]
           /\ disk'[run[w].dir] \in {disk[run[w].dir], Copies!Gone}
           /\ run[w].at \in {"drop", "mark"} => bucket'[run[w].dir] = bucket[run[w].dir]
           /\ row'[run[w].b] = row[run[w].b] \/ row'[run[w].b].status = "none"
           /\ run[w].at = "finish" /\ Copies!TakenAt(run[w].b) = run[w].dir /\ row'[run[w].b] = row[run[w].b]
                /\ row[run[w].b].status # "none" /\ Holding(run[w].b) => Holding(run[w].b)'
  PROVE  Takes(w)'
<1>1. ~Copies!Gone.there
  BY DEF Copies!Gone
<1>2. CASE run[w].at \in Making
  BY <1>1 DEF InDir, Takes, Both, Copies!TakenAt, Making
<1>3. CASE run[w].at \notin Making
  BY <1>3 DEF Takes, Making
<1>4. QED BY <1>2, <1>3

\* An UPDATE changes one row, if it is there.
LEMMA UpdateIs ==
  ASSUME StoreTyped, NEW b \in Copies!Backup, NEW new \in Record, Copies!Update(b, new), new.status # "none"
  PROVE  /\ row' \in [Copies!Backup -> Record]
         /\ \A c \in Copies!Backup : c # b => row'[c] = row[c]
         /\ row[b].status = "none" => row'[b] = row[b]
         /\ row[b].status # "none" => row'[b] = new
         /\ row'[b].status = "none" <=> row[b].status = "none"
  BY DEF StoreTyped, Copies!Update

LEMMA SameTaking ==
  ASSUME Taking, Typed, Stages, OwnRun, Copies!BackupsAssumption,
         UNCHANGED <<run, row, disk, bucket, mixed, was, root, db, page, cut>>
  PROVE  Taking'
<1> SUFFICES ASSUME NEW w \in Worker, run[w].kind = "backup" PROVE Takes(w)'
  BY DEF Taking
<1>1. Takes(w) /\ run[w].b \in Copies!Backup
  BY DEF Taking, Typed, WorkTyped, Copies!Busy
<1>2. \A b \in Copies!Backup : Holding(b) => Holding(b)'
  <2>1. \A b \in Copies!Backup : Going(b) => Going(b)'
    BY DEF Going, Copies!Removing
  <2>2. QED BY <2>1, StillHolding
<1>3. QED BY <1>1, <1>2, OthersTake

LEMMA MakeRoomKeeps ==
  ASSUME CopiesInv, Copies!BackupsAssumption, NEW w \in Worker, Copies!MakeRoom(w)
  PROVE  CopiesInv'
<1> SUFFICES ASSUME SiteTyped /\ StoreTyped /\ WorkTyped /\ SwapTyped /\ PastTyped /\ Stages /\
                    OneEach /\ Known /\ OwnDirs /\ OwnRun /\ NoHalf /\ Complete /\ Taking /\
                    Swapped /\ Quiet /\ PutBack
             PROVE  CopiesInv'
  BY DEF CopiesInv, Typed
<1>   root' = root /\ db' = db /\ status' = status /\ row' = row /\ bucket' = bucket /\
      jobs' = jobs /\ asking' = asking /\ page' = page /\ staging' = staging /\ aside' = aside /\
      left' = left /\ was' = was /\ mixed' = mixed /\ parted' = parted /\ cut' = cut /\
      asked' = asked /\ runs' = runs /\ restores' = restores /\ version' = version /\
      troubles' = troubles
  BY DEF Copies!MakeRoom, Copies!site, Copies!queue, Copies!swap, Copies!history,
     Copies!bounds, Copies!steps
<1>a. Copies!Goto(w, "dump") /\ run[w].kind = "backup" /\ run[w].at = "room"
  BY DEF Copies!MakeRoom, Copies!site, Copies!queue, Copies!swap, Copies!history,
     Copies!bounds, Copies!steps, Copies!Doing
<1>b. /\ run' \in [Worker -> Place]
      /\ run'[w].at = "dump" /\ run'[w].kind = "backup"
      /\ run'[w].b = run[w].b /\ run'[w].dir = run[w].dir
      /\ run'[w].got = run[w].got
      /\ \A v \in Worker : v # w => run'[v] = run[v]
      /\ \A v \in Worker : run'[v].kind = run[v].kind /\ run'[v].b = run[v].b
            /\ (run'[v].at = "unrow" => run'[v].old \in Copies!Backup)
  BY <1>a, GotoIs DEF Copies!At
<1>c. run[w].dir \in Copies!Dir /\ run[w].b \in Copies!Backup /\ InDir(w)
      /\ row[run[w].b].status \in {"none", "running"}
  BY <1>a, RunDir DEF InDir, Making, OwnRun, Owns, WorkTyped, Copies!Busy
<1>d. /\ disk'[run[w].dir] = [there |-> TRUE, copy |-> Copies!NoCopy]
      /\ \A d \in Copies!Dir : d # run[w].dir => disk'[d] = disk[d]
      /\ disk' \in [Copies!Dir -> Held]
  BY <1>a, <1>b, <1>c DEF Copies!MakeRoom, Copies!site, Copies!queue, Copies!swap,
     Copies!history, Copies!bounds, Copies!steps, StoreTyped, SiteTyped, Held, Half,
     Copies!NoCopy, Copies!Content, Copies!Doing, Copies!Gone
<1>e. \A b \in Copies!Backup : Going(b) => Going(b)'
  BY <1>a, <1>b DEF Going, Copies!Removing
<1>f. \A b \in Copies!Backup \ {run[w].b} : Copies!TakenAt(b) \in Copies!Dir /\ Holding(b) => Holding(b)'
  <2> SUFFICES ASSUME NEW b \in Copies!Backup, b # run[w].b, Copies!TakenAt(b) \in Copies!Dir, Holding(b) PROVE Holding(b)'
    OBVIOUS
  <2>1. row[b].dir # run[w].dir /\ row[b].key # run[w].dir
    BY <1>c DEF OwnRun, Owns
  <2>2. IF b \in Remote THEN bucket'[row[b].key] = bucket[row[b].key]
                       ELSE disk'[row[b].dir] = disk[row[b].dir]
    BY <2>1, <1>d DEF Copies!TakenAt
  <2>3. QED BY <2>2, <1>d, <1>e, StillHolding
<1>1. SiteTyped' /\ SwapTyped' /\ PastTyped' /\ Known'
  BY DEF SiteTyped, SwapTyped, PastTyped, Known
<1>2. StoreTyped'
  BY <1>c, <1>d DEF StoreTyped
<1>3. WorkTyped'
  BY <1>b DEF WorkTyped, Copies!Busy
<1>4. Stages'
  BY <1>a, <1>b DEF Stages, Making, Restoring
<1>5. OneEach'
  BY <1>a, <1>b DEF OneEach, Copies!Busy
<1>6. OwnDirs'
  BY DEF OwnDirs, Owned, Copies!TakenAt, Copies!NoDir
<1>7. OwnRun'
  BY <1>a, <1>b, <1>c DEF OwnRun, Owns, InDir, Restores, Making
<1>8. NoHalf'
  BY <1>a, <1>b, <1>c, <1>d DEF NoHalf, Copies!Part, Copies!Nil, Copies!NoCopy, Copies!Gone
<1>9. Complete'
  BY <1>c, <1>d, <1>f, InPlace DEF Complete
<1>10. Taking'
  <2> SUFFICES ASSUME NEW v \in Worker, run'[v].kind = "backup" PROVE Takes(v)'
    BY DEF Taking
  <2>1. CASE v = w
    BY <1>a, <1>b, <1>e, <1>f, <2>1 DEF Taking, Takes, Making, Both, Copies!NoCopy, Copies!Nil
  <2>2. CASE v # w
    <3>0. run'[v] = run[v] /\ run[v].kind = "backup" /\ run[w].kind = "backup"
      BY <1>a, <1>b, <2>2
    <3>1. run[v].kind = "backup" /\ Takes(v) /\ run'[v] = run[v] /\ run[v].b # run[w].b
      BY <3>0, <2>2, Zenon DEF Taking, OneEach, Copies!Busy
    <3>2. InDir(v) => run[v].dir \in Copies!Dir /\ run[v].dir # run[w].dir
      BY <1>c, <2>2, RunDir DEF OwnRun, Owns
    <3>3. run[v].b \in Copies!Backup
      BY <3>1 DEF WorkTyped, Copies!Busy
    <3>4. QED BY <1>d, <1>f, <3>1, <3>2, <3>3, OthersTake
  <2>3. QED BY <2>1, <2>2
<1>11. Swapped'
  BY <1>a, <1>b DEF Swapped, Away
<1>12. Quiet'
  BY <1>a, <1>b DEF Quiet, Copies!Busy
<1>13. PutBack'
  BY <1>a, <1>b DEF PutBack, Quiet, Restores, Copies!Busy
<1>14. QED BY <1>1, <1>2, <1>3, <1>4, <1>5, <1>6, <1>7, <1>8, <1>9, <1>10, <1>11, <1>12,
      <1>13 DEF CopiesInv, Typed

LEMMA DumpDatabaseKeeps ==
  ASSUME CopiesInv, Copies!BackupsAssumption, NEW w \in Worker, Copies!DumpDatabase(w)
  PROVE  CopiesInv'
<1> SUFFICES ASSUME SiteTyped /\ StoreTyped /\ WorkTyped /\ SwapTyped /\ PastTyped /\ Stages /\
                    OneEach /\ Known /\ OwnDirs /\ OwnRun /\ NoHalf /\ Complete /\ Taking /\
                    Swapped /\ Quiet /\ PutBack
             PROVE  CopiesInv'
  BY DEF CopiesInv, Typed
<1>   root' = root /\ db' = db /\ status' = status /\ row' = row /\ bucket' = bucket /\
      jobs' = jobs /\ asking' = asking /\ page' = page /\ staging' = staging /\ aside' = aside /\
      left' = left /\ was' = was /\ mixed' = mixed /\ parted' = parted /\ cut' = cut /\
      asked' = asked /\ runs' = runs /\ restores' = restores /\ version' = version /\
      troubles' = troubles
  BY DEF Copies!DumpDatabase, Copies!Write, Copies!site, Copies!queue, Copies!swap,
     Copies!history, Copies!bounds, Copies!steps
<1>a. (Copies!Goto(w, "archive") \/ Copies!Goto(w, "clean")) /\ run[w].kind = "backup" /\ run[w].at = "dump"
  BY DEF Copies!DumpDatabase, Copies!Write, Copies!site, Copies!queue, Copies!swap,
     Copies!history, Copies!bounds, Copies!steps, Copies!Doing, Copies!Write
<1>b. /\ run' \in [Worker -> Place]
      /\ run'[w].at \in {"archive", "clean"} /\ run'[w].kind = "backup"
      /\ run'[w].b = run[w].b /\ run'[w].dir = run[w].dir
      /\ run'[w].got = run[w].got
      /\ \A v \in Worker : v # w => run'[v] = run[v]
      /\ \A v \in Worker : run'[v].kind = run[v].kind /\ run'[v].b = run[v].b
            /\ (run'[v].at = "unrow" => run'[v].old \in Copies!Backup)
  BY <1>a, GotoIs DEF Copies!At
<1>c. run[w].dir \in Copies!Dir /\ run[w].b \in Copies!Backup /\ InDir(w)
      /\ row[run[w].b].status \in {"none", "running"}
  BY <1>a, RunDir DEF InDir, Making, OwnRun, Owns, WorkTyped, Copies!Busy
<1>d. /\ disk'[run[w].dir].there => run'[w].at = "clean" \/ (run'[w].at = "archive" /\ disk'[run[w].dir].copy.db = db
                                                     /\ disk'[run[w].dir].copy.files = disk[run[w].dir].copy.files)
      /\ disk'[run[w].dir].copy.files = disk[run[w].dir].copy.files
      /\ \A d \in Copies!Dir : d # run[w].dir => disk'[d] = disk[d]
      /\ disk' \in [Copies!Dir -> Held]
  <2>0. disk[run[w].dir] \in Held /\ root \in Copies!Content /\ db \in Copies!Content
    BY <1>c DEF StoreTyped, SiteTyped
  <2>1. CASE disk[run[w].dir].there
    <3>1. disk' = [disk EXCEPT ![run[w].dir].copy = [disk[run[w].dir].copy EXCEPT !.db = db]]
      BY <2>1 DEF Copies!DumpDatabase, Copies!Write
    <3>2. run'[w].at = "archive"
      BY <2>1, GotoIs DEF Copies!At, Copies!DumpDatabase, Copies!Write
    <3>3. QED BY <1>c, <2>0, <2>1, <3>1, <3>2, Zenon DEF StoreTyped, Held, Half
  <2>2. CASE ~disk[run[w].dir].there
    <3>1. disk' = disk /\ Copies!Goto(w, "clean")
      BY <2>2 DEF Copies!DumpDatabase, Copies!Write
    <3>2. run'[w].at = "clean"
      BY <3>1, GotoIs DEF Copies!At
    <3>3. QED BY <1>c, <2>2, <3>1, <3>2 DEF StoreTyped
  <2>3. QED BY <2>1, <2>2
<1>e. \A b \in Copies!Backup : Going(b) => Going(b)'
  BY <1>a, <1>b DEF Going, Copies!Removing
<1>f. \A b \in Copies!Backup \ {run[w].b} : Copies!TakenAt(b) \in Copies!Dir /\ Holding(b) => Holding(b)'
  <2> SUFFICES ASSUME NEW b \in Copies!Backup, b # run[w].b, Copies!TakenAt(b) \in Copies!Dir, Holding(b) PROVE Holding(b)'
    OBVIOUS
  <2>1. row[b].dir # run[w].dir /\ row[b].key # run[w].dir
    BY <1>c DEF OwnRun, Owns
  <2>2. IF b \in Remote THEN bucket'[row[b].key] = bucket[row[b].key]
                       ELSE disk'[row[b].dir] = disk[row[b].dir]
    BY <2>1, <1>d DEF Copies!TakenAt
  <2>3. QED BY <2>2, <1>d, <1>e, StillHolding
<1>1. SiteTyped' /\ SwapTyped' /\ PastTyped' /\ Known'
  BY DEF SiteTyped, SwapTyped, PastTyped, Known
<1>2. StoreTyped'
  BY <1>c, <1>d DEF StoreTyped
<1>3. WorkTyped'
  BY <1>b DEF WorkTyped, Copies!Busy
<1>4. Stages'
  BY <1>a, <1>b DEF Stages, Making, Restoring
<1>5. OneEach'
  BY <1>a, <1>b DEF OneEach, Copies!Busy
<1>6. OwnDirs'
  BY DEF OwnDirs, Owned, Copies!TakenAt, Copies!NoDir
<1>7. OwnRun'
  BY <1>a, <1>b, <1>c DEF OwnRun, Owns, InDir, Restores, Making
<1>8. NoHalf'
  BY <1>b, <1>d DEF NoHalf, Copies!Part, Copies!Nil, Copies!NoCopy, Copies!Gone
<1>9. Complete'
  BY <1>c, <1>d, <1>f, InPlace DEF Complete
<1>10. Taking'
  <2> SUFFICES ASSUME NEW v \in Worker, run'[v].kind = "backup" PROVE Takes(v)'
    BY DEF Taking
  <2>1. CASE v = w
    <3>1. run[w].kind = "backup" /\ run[w].at = "dump" /\ Takes(w) /\ db # Copies!Nil
      BY <1>a DEF Taking, NoHalf
    <3>2. CASE run'[w].at = "archive"
      BY <1>b, <1>d, <2>1, <3>1, <3>2 DEF Takes, Making
    <3>3. CASE run'[w].at = "clean"
      BY <2>1, <3>3 DEF Takes, Making
    <3>4. QED BY <1>b, <3>2, <3>3
  <2>2. CASE v # w
    <3>0. run'[v] = run[v] /\ run[v].kind = "backup" /\ run[w].kind = "backup"
      BY <1>a, <1>b, <2>2
    <3>1. run[v].kind = "backup" /\ Takes(v) /\ run'[v] = run[v] /\ run[v].b # run[w].b
      BY <3>0, <2>2, Zenon DEF Taking, OneEach, Copies!Busy
    <3>2. InDir(v) => run[v].dir \in Copies!Dir /\ run[v].dir # run[w].dir
      BY <1>c, <2>2, RunDir DEF OwnRun, Owns
    <3>3. run[v].b \in Copies!Backup
      BY <3>1 DEF WorkTyped, Copies!Busy
    <3>4. QED BY <1>d, <1>f, <3>1, <3>2, <3>3, OthersTake
  <2>3. QED BY <2>1, <2>2
<1>11. Swapped'
  BY <1>a, <1>b DEF Swapped, Away
<1>12. Quiet'
  BY <1>a, <1>b DEF Quiet, Copies!Busy
<1>13. PutBack'
  BY <1>a, <1>b DEF PutBack, Quiet, Restores, Copies!Busy
<1>14. QED BY <1>1, <1>2, <1>3, <1>4, <1>5, <1>6, <1>7, <1>8, <1>9, <1>10, <1>11, <1>12,
      <1>13 DEF CopiesInv, Typed

LEMMA ArchiveFilesKeeps ==
  ASSUME CopiesInv, Copies!BackupsAssumption, NEW w \in Worker, Copies!ArchiveFiles(w)
  PROVE  CopiesInv'
<1> SUFFICES ASSUME SiteTyped /\ StoreTyped /\ WorkTyped /\ SwapTyped /\ PastTyped /\ Stages /\
                    OneEach /\ Known /\ OwnDirs /\ OwnRun /\ NoHalf /\ Complete /\ Taking /\
                    Swapped /\ Quiet /\ PutBack
             PROVE  CopiesInv'
  BY DEF CopiesInv, Typed
<1>   root' = root /\ db' = db /\ status' = status /\ row' = row /\ bucket' = bucket /\
      jobs' = jobs /\ asking' = asking /\ page' = page /\ staging' = staging /\ aside' = aside /\
      left' = left /\ was' = was /\ mixed' = mixed /\ parted' = parted /\ cut' = cut /\
      asked' = asked /\ runs' = runs /\ restores' = restores /\ version' = version /\
      troubles' = troubles
  BY DEF Copies!ArchiveFiles, Copies!Write, Copies!site, Copies!queue, Copies!swap,
     Copies!history, Copies!bounds, Copies!steps
<1>a. (Copies!Goto(w, "upload") \/ Copies!Goto(w, "finish") \/ Copies!Goto(w, "clean")) /\ run[w].kind = "backup" /\ run[w].at = "archive"
  BY DEF Copies!ArchiveFiles, Copies!Write, Copies!site, Copies!queue, Copies!swap,
     Copies!history, Copies!bounds, Copies!steps, Copies!Doing, Copies!Write
<1>b. /\ run' \in [Worker -> Place]
      /\ run'[w].at \in {"upload", "finish", "clean"} /\ run'[w].kind = "backup"
      /\ run'[w].b = run[w].b /\ run'[w].dir = run[w].dir
      /\ run'[w].got = run[w].got
      /\ \A v \in Worker : v # w => run'[v] = run[v]
      /\ \A v \in Worker : run'[v].kind = run[v].kind /\ run'[v].b = run[v].b
            /\ (run'[v].at = "unrow" => run'[v].old \in Copies!Backup)
  BY <1>a, GotoIs DEF Copies!At
<1>c. run[w].dir \in Copies!Dir /\ run[w].b \in Copies!Backup /\ InDir(w)
      /\ row[run[w].b].status \in {"none", "running"}
  BY <1>a, RunDir DEF InDir, Making, OwnRun, Owns, WorkTyped, Copies!Busy
<1>d. /\ disk'[run[w].dir].there => run'[w].at = "clean" \/ (root # Copies!Nil /\ disk[run[w].dir].there
                                                     /\ disk'[run[w].dir].copy.db = disk[run[w].dir].copy.db
                                                     /\ disk'[run[w].dir].copy.files = root)
      /\ disk'[run[w].dir].copy.files \in {root, disk[run[w].dir].copy.files}
      /\ run'[w].at = "finish" => run[w].b \notin Remote /\ disk'[run[w].dir].there
      /\ run'[w].at = "upload" => run[w].b \in Remote
      /\ \A d \in Copies!Dir : d # run[w].dir => disk'[d] = disk[d]
      /\ disk' \in [Copies!Dir -> Held]
  <2>0. disk[run[w].dir] \in Held /\ root \in Copies!Content /\ db \in Copies!Content
    BY <1>c DEF StoreTyped, SiteTyped
  <2>1. CASE disk[run[w].dir].there
    <3>1. disk' = [disk EXCEPT ![run[w].dir].copy = [disk[run[w].dir].copy EXCEPT !.files = root]]
      BY <2>1 DEF Copies!ArchiveFiles, Copies!Write
    <3>2. root # Copies!Nil /\ run'[w].at = IF run[w].b \in Remote THEN "upload" ELSE "finish"
      <4>1. root # Copies!Nil /\ Copies!Goto(w, IF run[w].b \in Remote THEN "upload" ELSE "finish")
        BY <2>1 DEF Copies!ArchiveFiles, Copies!Write
      <4>2. QED BY <4>1, GotoIs DEF Copies!At
    <3>3. QED BY <1>c, <2>0, <2>1, <3>1, <3>2, Zenon DEF StoreTyped, Held, Half
  <2>2. CASE ~disk[run[w].dir].there
    <3>1. disk' = disk /\ Copies!Goto(w, "clean")
      BY <2>2 DEF Copies!ArchiveFiles, Copies!Write
    <3>2. run'[w].at = "clean"
      BY <3>1, GotoIs DEF Copies!At
    <3>3. QED BY <1>c, <2>2, <3>1, <3>2 DEF StoreTyped
  <2>3. QED BY <2>1, <2>2
<1>e. \A b \in Copies!Backup : Going(b) => Going(b)'
  BY <1>a, <1>b DEF Going, Copies!Removing
<1>f. \A b \in Copies!Backup \ {run[w].b} : Copies!TakenAt(b) \in Copies!Dir /\ Holding(b) => Holding(b)'
  <2> SUFFICES ASSUME NEW b \in Copies!Backup, b # run[w].b, Copies!TakenAt(b) \in Copies!Dir, Holding(b) PROVE Holding(b)'
    OBVIOUS
  <2>1. row[b].dir # run[w].dir /\ row[b].key # run[w].dir
    BY <1>c DEF OwnRun, Owns
  <2>2. IF b \in Remote THEN bucket'[row[b].key] = bucket[row[b].key]
                       ELSE disk'[row[b].dir] = disk[row[b].dir]
    BY <2>1, <1>d DEF Copies!TakenAt
  <2>3. QED BY <2>2, <1>d, <1>e, StillHolding
<1>1. SiteTyped' /\ SwapTyped' /\ PastTyped' /\ Known'
  BY DEF SiteTyped, SwapTyped, PastTyped, Known
<1>2. StoreTyped'
  BY <1>c, <1>d DEF StoreTyped
<1>3. WorkTyped'
  BY <1>b DEF WorkTyped, Copies!Busy
<1>4. Stages'
  BY <1>b, <1>d DEF Stages, Making, Restoring
<1>5. OneEach'
  BY <1>a, <1>b DEF OneEach, Copies!Busy
<1>6. OwnDirs'
  BY DEF OwnDirs, Owned, Copies!TakenAt, Copies!NoDir
<1>7. OwnRun'
  BY <1>a, <1>b, <1>c DEF OwnRun, Owns, InDir, Restores, Making
<1>8. NoHalf'
  BY <1>b, <1>d DEF NoHalf, Copies!Part, Copies!Nil, Copies!NoCopy, Copies!Gone
<1>9. Complete'
  BY <1>c, <1>f, InPlace DEF Complete
<1>10. Taking'
  <2> SUFFICES ASSUME NEW v \in Worker, run'[v].kind = "backup" PROVE Takes(v)'
    BY DEF Taking
  <2>1. CASE v = w
    <3>0. run[w].kind = "backup" /\ Takes(w)
      BY <1>a DEF Taking
    <3>1. CASE run'[w].at = "clean"
      BY <3>1, <2>1 DEF Takes, Making
    <3>2. CASE run'[w].at # "clean"
      <4>1. was[run[w].dir] \in Half /\ (~mixed => was[run[w].dir].files = root)
        BY <1>a, <1>c, <3>0 DEF PastTyped, Takes
      <4>2. disk'[run[w].dir].copy \in Half
        BY <1>c, <1>d DEF Held
      <4>3. disk'[run[w].dir].there => Both(disk[run[w].dir].copy, run[w].dir)'
        BY <1>b, <1>a, <1>d, <3>0, <3>2, <4>1, <4>2 DEF Takes, Both, Half
      <4>4. QED BY <1>a, <1>b, <1>d, <2>1, <3>0, <3>2, <4>3 DEF Takes, Holding, Stored,
         Copies!TakenAt, Making
    <3>3. QED BY <3>1, <3>2
  <2>2. CASE v # w
    <3>0. run'[v] = run[v] /\ run[v].kind = "backup" /\ run[w].kind = "backup"
      BY <1>a, <1>b, <2>2
    <3>1. run[v].kind = "backup" /\ Takes(v) /\ run'[v] = run[v] /\ run[v].b # run[w].b
      BY <3>0, <2>2, Zenon DEF Taking, OneEach, Copies!Busy
    <3>2. InDir(v) => run[v].dir \in Copies!Dir /\ run[v].dir # run[w].dir
      BY <1>c, <2>2, RunDir DEF OwnRun, Owns
    <3>3. run[v].b \in Copies!Backup
      BY <3>1 DEF WorkTyped, Copies!Busy
    <3>4. QED BY <1>d, <1>f, <3>1, <3>2, <3>3, OthersTake
  <2>3. QED BY <2>1, <2>2
<1>11. Swapped'
  BY <1>a, <1>b DEF Swapped, Away
<1>12. Quiet'
  BY <1>a, <1>b DEF Quiet, Copies!Busy
<1>13. PutBack'
  BY <1>a, <1>b DEF PutBack, Quiet, Restores, Copies!Busy
<1>14. QED BY <1>1, <1>2, <1>3, <1>4, <1>5, <1>6, <1>7, <1>8, <1>9, <1>10, <1>11, <1>12,
      <1>13 DEF CopiesInv, Typed

LEMMA UploadBackupKeeps ==
  ASSUME CopiesInv, Copies!BackupsAssumption, NEW w \in Worker, Copies!Upload(w)
  PROVE  CopiesInv'
<1> SUFFICES ASSUME SiteTyped /\ StoreTyped /\ WorkTyped /\ SwapTyped /\ PastTyped /\ Stages /\
                    OneEach /\ Known /\ OwnDirs /\ OwnRun /\ NoHalf /\ Complete /\ Taking /\
                    Swapped /\ Quiet /\ PutBack
             PROVE  CopiesInv'
  BY DEF CopiesInv, Typed
<1>   root' = root /\ db' = db /\ status' = status /\ row' = row /\ disk' = disk /\
      jobs' = jobs /\ asking' = asking /\ page' = page /\ staging' = staging /\ aside' = aside /\
      left' = left /\ was' = was /\ mixed' = mixed /\ parted' = parted /\ cut' = cut /\
      asked' = asked /\ runs' = runs /\ restores' = restores /\ version' = version /\
      troubles' = troubles
  BY DEF Copies!Upload, Copies!site, Copies!queue, Copies!swap, Copies!history, Copies!bounds,
     Copies!steps
<1>a. (Copies!Goto(w, "drop") \/ Copies!Goto(w, "clean")) /\ run[w].kind = "backup" /\ run[w].at = "upload"
  BY DEF Copies!Upload, Copies!site, Copies!queue, Copies!swap, Copies!history, Copies!bounds,
     Copies!steps, Copies!Doing
<1>b. /\ run' \in [Worker -> Place]
      /\ run'[w].at \in {"drop", "clean"} /\ run'[w].kind = "backup"
      /\ run'[w].b = run[w].b /\ run'[w].dir = run[w].dir
      /\ run'[w].got = run[w].got
      /\ \A v \in Worker : v # w => run'[v] = run[v]
      /\ \A v \in Worker : run'[v].kind = run[v].kind /\ run'[v].b = run[v].b
            /\ (run'[v].at = "unrow" => run'[v].old \in Copies!Backup)
  BY <1>a, GotoIs DEF Copies!At
<1>c. run[w].dir \in Copies!Dir /\ run[w].b \in Copies!Backup /\ InDir(w)
      /\ row[run[w].b].status \in {"none", "running"}
  BY <1>a, RunDir DEF InDir, Making, OwnRun, Owns, WorkTyped, Copies!Busy
<1>d. /\ bucket'[run[w].dir] \in {bucket[run[w].dir], disk[run[w].dir]}
      /\ run'[w].at = "drop" => disk[run[w].dir].there /\ bucket'[run[w].dir] = disk[run[w].dir]
      /\ \A d \in Copies!Dir : d # run[w].dir => bucket'[d] = bucket[d]
      /\ bucket' \in [Copies!Dir -> Held]
  <2>1. CASE disk[run[w].dir].there
    BY <1>c, <2>1 DEF Copies!Upload, StoreTyped
  <2>2. CASE ~disk[run[w].dir].there
    <3>1. bucket' = bucket /\ Copies!Goto(w, "clean")
      BY <2>2 DEF Copies!Upload
    <3>2. run'[w].at = "clean"
      BY <3>1, GotoIs DEF Copies!At
    <3>3. QED BY <3>1, <3>2 DEF StoreTyped
  <2>3. QED BY <2>1, <2>2
<1>e. \A b \in Copies!Backup : Going(b) => Going(b)'
  BY <1>a, <1>b DEF Going, Copies!Removing
<1>f. \A b \in Copies!Backup \ {run[w].b} : Copies!TakenAt(b) \in Copies!Dir /\ Holding(b) => Holding(b)'
  <2> SUFFICES ASSUME NEW b \in Copies!Backup, b # run[w].b, Copies!TakenAt(b) \in Copies!Dir, Holding(b) PROVE Holding(b)'
    OBVIOUS
  <2>1. row[b].dir # run[w].dir /\ row[b].key # run[w].dir
    BY <1>c DEF OwnRun, Owns
  <2>2. IF b \in Remote THEN bucket'[row[b].key] = bucket[row[b].key]
                       ELSE disk'[row[b].dir] = disk[row[b].dir]
    BY <2>1, <1>d DEF Copies!TakenAt
  <2>3. QED BY <2>2, <1>d, <1>e, StillHolding
<1>1. SiteTyped' /\ SwapTyped' /\ PastTyped' /\ Known'
  BY DEF SiteTyped, SwapTyped, PastTyped, Known
<1>2. StoreTyped'
  BY <1>c, <1>d DEF StoreTyped
<1>3. WorkTyped'
  BY <1>b DEF WorkTyped, Copies!Busy
<1>4. Stages'
  BY <1>a, <1>b DEF Stages, Making, Restoring
<1>5. OneEach'
  BY <1>a, <1>b DEF OneEach, Copies!Busy
<1>6. OwnDirs'
  BY DEF OwnDirs, Owned, Copies!TakenAt, Copies!NoDir
<1>7. OwnRun'
  BY <1>a, <1>b, <1>c DEF OwnRun, Owns, InDir, Restores, Making
<1>8. NoHalf'
  BY <1>b, <1>d DEF NoHalf, Copies!Part, Copies!Nil, Copies!NoCopy, Copies!Gone
<1>9. Complete'
  BY <1>c, <1>d, <1>f, InPlace DEF Complete
<1>10. Taking'
  <2> SUFFICES ASSUME NEW v \in Worker, run'[v].kind = "backup" PROVE Takes(v)'
    BY DEF Taking
  <2>1. CASE v = w
    BY <1>a, <1>b, <1>d, <1>f, <2>1 DEF Taking, Takes, Making, Both
  <2>2. CASE v # w
    <3>0. run'[v] = run[v] /\ run[v].kind = "backup" /\ run[w].kind = "backup"
      BY <1>a, <1>b, <2>2
    <3>1. run[v].kind = "backup" /\ Takes(v) /\ run'[v] = run[v] /\ run[v].b # run[w].b
      BY <3>0, <2>2, Zenon DEF Taking, OneEach, Copies!Busy
    <3>2. InDir(v) => run[v].dir \in Copies!Dir /\ run[v].dir # run[w].dir
      BY <1>c, <2>2, RunDir DEF OwnRun, Owns
    <3>3. run[v].b \in Copies!Backup
      BY <3>1 DEF WorkTyped, Copies!Busy
    <3>4. QED BY <1>d, <1>f, <3>1, <3>2, <3>3, OthersTake
  <2>3. QED BY <2>1, <2>2
<1>11. Swapped'
  BY <1>a, <1>b DEF Swapped, Away
<1>12. Quiet'
  BY <1>a, <1>b DEF Quiet, Copies!Busy
<1>13. PutBack'
  BY <1>a, <1>b DEF PutBack, Quiet, Restores, Copies!Busy
<1>14. QED BY <1>1, <1>2, <1>3, <1>4, <1>5, <1>6, <1>7, <1>8, <1>9, <1>10, <1>11, <1>12,
      <1>13 DEF CopiesInv, Typed

LEMMA DropLocalKeeps ==
  ASSUME CopiesInv, Copies!BackupsAssumption, NEW w \in Worker, Copies!DropLocal(w)
  PROVE  CopiesInv'
<1> SUFFICES ASSUME SiteTyped /\ StoreTyped /\ WorkTyped /\ SwapTyped /\ PastTyped /\ Stages /\
                    OneEach /\ Known /\ OwnDirs /\ OwnRun /\ NoHalf /\ Complete /\ Taking /\
                    Swapped /\ Quiet /\ PutBack
             PROVE  CopiesInv'
  BY DEF CopiesInv, Typed
<1>   root' = root /\ db' = db /\ status' = status /\ row' = row /\ bucket' = bucket /\
      jobs' = jobs /\ asking' = asking /\ page' = page /\ staging' = staging /\ aside' = aside /\
      left' = left /\ was' = was /\ mixed' = mixed /\ parted' = parted /\ cut' = cut /\
      asked' = asked /\ runs' = runs /\ restores' = restores /\ version' = version /\
      troubles' = troubles
  BY DEF Copies!DropLocal, Copies!site, Copies!queue, Copies!swap, Copies!history,
     Copies!bounds, Copies!steps
<1>a. Copies!Goto(w, "mark") /\ run[w].kind = "backup" /\ run[w].at = "drop"
  BY DEF Copies!DropLocal, Copies!site, Copies!queue, Copies!swap, Copies!history,
     Copies!bounds, Copies!steps, Copies!Doing
<1>b. /\ run' \in [Worker -> Place]
      /\ run'[w].at = "mark" /\ run'[w].kind = "backup"
      /\ run'[w].b = run[w].b /\ run'[w].dir = run[w].dir
      /\ run'[w].got = run[w].got
      /\ \A v \in Worker : v # w => run'[v] = run[v]
      /\ \A v \in Worker : run'[v].kind = run[v].kind /\ run'[v].b = run[v].b
            /\ (run'[v].at = "unrow" => run'[v].old \in Copies!Backup)
  BY <1>a, GotoIs DEF Copies!At
<1>c. run[w].dir \in Copies!Dir /\ run[w].b \in Copies!Backup /\ InDir(w)
      /\ row[run[w].b].status \in {"none", "running"}
  BY <1>a, RunDir DEF InDir, Making, OwnRun, Owns, WorkTyped, Copies!Busy
<1>d. /\ disk'[run[w].dir] = Copies!Gone
      /\ \A d \in Copies!Dir : d # run[w].dir => disk'[d] = disk[d]
      /\ disk' \in [Copies!Dir -> Held]
  BY <1>a, <1>b, <1>c DEF Copies!DropLocal, Copies!site, Copies!queue, Copies!swap,
     Copies!history, Copies!bounds, Copies!steps, StoreTyped, SiteTyped, Held, Half,
     Copies!NoCopy, Copies!Content, Copies!Doing, Copies!Gone
<1>e. \A b \in Copies!Backup : Going(b) => Going(b)'
  BY <1>a, <1>b DEF Going, Copies!Removing
<1>f. \A b \in Copies!Backup \ {run[w].b} : Copies!TakenAt(b) \in Copies!Dir /\ Holding(b) => Holding(b)'
  <2> SUFFICES ASSUME NEW b \in Copies!Backup, b # run[w].b, Copies!TakenAt(b) \in Copies!Dir, Holding(b) PROVE Holding(b)'
    OBVIOUS
  <2>1. row[b].dir # run[w].dir /\ row[b].key # run[w].dir
    BY <1>c DEF OwnRun, Owns
  <2>2. IF b \in Remote THEN bucket'[row[b].key] = bucket[row[b].key]
                       ELSE disk'[row[b].dir] = disk[row[b].dir]
    BY <2>1, <1>d DEF Copies!TakenAt
  <2>3. QED BY <2>2, <1>d, <1>e, StillHolding
<1>1. SiteTyped' /\ SwapTyped' /\ PastTyped' /\ Known'
  BY DEF SiteTyped, SwapTyped, PastTyped, Known
<1>2. StoreTyped'
  BY <1>c, <1>d DEF StoreTyped
<1>3. WorkTyped'
  BY <1>b DEF WorkTyped, Copies!Busy
<1>4. Stages'
  BY <1>a, <1>b DEF Stages, Making, Restoring
<1>5. OneEach'
  BY <1>a, <1>b DEF OneEach, Copies!Busy
<1>6. OwnDirs'
  BY DEF OwnDirs, Owned, Copies!TakenAt, Copies!NoDir
<1>7. OwnRun'
  BY <1>a, <1>b, <1>c DEF OwnRun, Owns, InDir, Restores, Making
<1>8. NoHalf'
  BY <1>a, <1>b, <1>c, <1>d DEF NoHalf, Copies!Part, Copies!Nil, Copies!NoCopy, Copies!Gone
<1>9. Complete'
  BY <1>c, <1>d, <1>f, InPlace DEF Complete
<1>10. Taking'
  <2> SUFFICES ASSUME NEW v \in Worker, run'[v].kind = "backup" PROVE Takes(v)'
    BY DEF Taking
  <2>1. CASE v = w
    BY <1>a, <1>b, <1>e, <1>f, <2>1 DEF Taking, Takes, Making, Both, Copies!Gone
  <2>2. CASE v # w
    <3>0. run'[v] = run[v] /\ run[v].kind = "backup" /\ run[w].kind = "backup"
      BY <1>a, <1>b, <2>2
    <3>1. run[v].kind = "backup" /\ Takes(v) /\ run'[v] = run[v] /\ run[v].b # run[w].b
      BY <3>0, <2>2, Zenon DEF Taking, OneEach, Copies!Busy
    <3>2. InDir(v) => run[v].dir \in Copies!Dir /\ run[v].dir # run[w].dir
      BY <1>c, <2>2, RunDir DEF OwnRun, Owns
    <3>3. run[v].b \in Copies!Backup
      BY <3>1 DEF WorkTyped, Copies!Busy
    <3>4. QED BY <1>d, <1>f, <3>1, <3>2, <3>3, OthersTake
  <2>3. QED BY <2>1, <2>2
<1>11. Swapped'
  BY <1>a, <1>b DEF Swapped, Away
<1>12. Quiet'
  BY <1>a, <1>b DEF Quiet, Copies!Busy
<1>13. PutBack'
  BY <1>a, <1>b DEF PutBack, Quiet, Restores, Copies!Busy
<1>14. QED BY <1>1, <1>2, <1>3, <1>4, <1>5, <1>6, <1>7, <1>8, <1>9, <1>10, <1>11, <1>12,
      <1>13 DEF CopiesInv, Typed

LEMMA MarkUploadedKeeps ==
  ASSUME CopiesInv, Copies!BackupsAssumption, NEW w \in Worker, Copies!MarkUploaded(w)
  PROVE  CopiesInv'
<1> SUFFICES ASSUME SiteTyped /\ StoreTyped /\ WorkTyped /\ SwapTyped /\ PastTyped /\ Stages /\
                    OneEach /\ Known /\ OwnDirs /\ OwnRun /\ NoHalf /\ Complete /\ Taking /\
                    Swapped /\ Quiet /\ PutBack
             PROVE  CopiesInv'
  BY DEF CopiesInv, Typed
<1>   root' = root /\ db' = db /\ status' = status /\ disk' = disk /\ bucket' = bucket /\
      jobs' = jobs /\ asking' = asking /\ page' = page /\ staging' = staging /\ aside' = aside /\
      left' = left /\ was' = was /\ mixed' = mixed /\ parted' = parted /\ cut' = cut /\
      asked' = asked /\ runs' = runs /\ restores' = restores /\ version' = version /\
      troubles' = troubles
  BY DEF Copies!MarkUploaded, Copies!site, Copies!queue, Copies!swap, Copies!history,
     Copies!bounds, Copies!steps
<1>a. Copies!Goto(w, "finish") /\ run[w].kind = "backup" /\ run[w].at = "mark"
  BY DEF Copies!MarkUploaded, Copies!site, Copies!queue, Copies!swap, Copies!history,
     Copies!bounds, Copies!steps, Copies!Doing
<1>b. /\ run' \in [Worker -> Place]
      /\ run'[w].at = "finish" /\ run'[w].kind = "backup"
      /\ run'[w].b = run[w].b /\ run'[w].dir = run[w].dir
      /\ run'[w].got = run[w].got
      /\ \A v \in Worker : v # w => run'[v] = run[v]
      /\ \A v \in Worker : run'[v].kind = run[v].kind /\ run'[v].b = run[v].b
            /\ (run'[v].at = "unrow" => run'[v].old \in Copies!Backup)
  BY <1>a, GotoIs DEF Copies!At
<1>c. run[w].dir \in Copies!Dir /\ run[w].b \in Copies!Backup /\ InDir(w)
      /\ row[run[w].b].status \in {"none", "running"}
  BY <1>a, RunDir DEF InDir, Making, OwnRun, Owns, WorkTyped, Copies!Busy
<1>d. /\ row' \in [Copies!Backup -> Record]
      /\ \A c \in Copies!Backup : c # run[w].b => row'[c] = row[c]
      /\ row[run[w].b].status = "none" => row'[run[w].b] = row[run[w].b]
      /\ row[run[w].b].status # "none" => /\ row'[run[w].b].status = row[run[w].b].status /\ row'[run[w].b].dir = Copies!NoDir
                                          /\ row'[run[w].b].key = run[w].dir
      /\ row'[run[w].b].status = "none" <=> row[run[w].b].status = "none"
  <2>0. row[run[w].b] \in Record /\ run[w].dir \in 0..MaxRuns /\ Copies!NoDir \in 0..MaxRuns
    BY <1>c, CopyBounds DEF StoreTyped, WorkTyped, Place, Copies!NoDir
  <2> DEFINE new == [row[run[w].b] EXCEPT !.dir = Copies!NoDir, !.key = run[w].dir]
  <2>1. Copies!Update(run[w].b, new)
    BY DEF Copies!MarkUploaded, Copies!site, Copies!queue, Copies!swap, Copies!history,
       Copies!bounds, Copies!steps
  <2>2. new \in Record
    BY <2>0, Zenon DEF Record, Copies!Status
  <2>3. CASE row[run[w].b].status = "none"
    BY <1>c, <2>1, <2>3 DEF Copies!Update, StoreTyped
  <2>4. CASE row[run[w].b].status # "none"
    <3>1. new.status # "none" /\ row' \in [Copies!Backup -> Record] /\ row'[run[w].b] = new
      BY <1>c, <2>0, <2>1, <2>2, <2>4, UpdateIs, Zenon DEF Record
    <3>2. \A c \in Copies!Backup : c # run[w].b => row'[c] = row[c]
      BY <1>c, <2>1 DEF Copies!Update, StoreTyped
    <3>3. QED BY <2>0, <2>4, <3>1, <3>2 DEF StoreTyped, Record
  <2>5. QED BY <2>3, <2>4
<1>e. \A b \in Copies!Backup : Going(b) => Going(b)'
  BY <1>a, <1>b DEF Going, Copies!Removing
<1>f. \A b \in Copies!Backup \ {run[w].b} : Copies!TakenAt(b) \in Copies!Dir /\ Holding(b) => Holding(b)'
  BY <1>d, <1>e, StillHolding
<1>1. SiteTyped' /\ SwapTyped' /\ PastTyped'
  BY DEF SiteTyped, SwapTyped, PastTyped
<1>2. StoreTyped'
  BY <1>d DEF StoreTyped
<1>3. WorkTyped'
  BY <1>b DEF WorkTyped, Copies!Busy
<1>4. Stages'
  BY <1>a, <1>b DEF Stages, Making, Restoring
<1>5. OneEach'
  BY <1>a, <1>b DEF OneEach, Copies!Busy
<1>6. Known'
  BY <1>d DEF Known
<1>7. OwnDirs'
  <2>1. CASE row[run[w].b].status = "none"
    <3>1. \A c \in Copies!Backup : row'[c] = row[c]
      BY <1>d, <2>1
    <3>2. QED BY <3>1 DEF OwnDirs, Owned, Copies!TakenAt
  <2>2. CASE row[run[w].b].status # "none"
    <3>1. \A c \in Copies!Backup : c # run[w].b => row[c].dir # run[w].dir /\ row[c].key # run[w].dir
      BY <1>c DEF OwnRun, Owns
    <3>2. run[w].dir # Copies!NoDir /\ run[w].dir <= runs /\ run[w].b \in Remote
      BY <1>a, <1>c, RunDir DEF Copies!Dir, Copies!NoDir, Stages
    <3>3. page.at = "files" => page.key # run[w].dir
      BY <1>a, <1>c DEF OwnRun, Owns
    <3>4. SUFFICES ASSUME NEW b \in Copies!Backup PROVE Owned(b)'
      BY DEF OwnDirs
    <3>5. CASE b = run[w].b
      BY <1>d, <3>1, <3>2, <3>3 DEF OwnDirs, Owned, Copies!TakenAt, Copies!NoDir, PastTyped
    <3>6. CASE b # run[w].b
      BY <1>d, <3>1, <3>6 DEF OwnDirs, Owned, Copies!TakenAt
    <3>7. QED BY <3>5, <3>6
  <2>3. QED BY <2>1, <2>2
<1>8. OwnRun'
  <2>1. \A v \in Worker : (Restores(v)' => Restores(v)) /\ (InDir(v)' => InDir(v))
                        /\ run'[v].dir = run[v].dir /\ run'[v].b = run[v].b
    BY <1>a, <1>b, <1>c DEF Restores, InDir
  <2>2. \A c \in Copies!Backup : row'[c].dir \in {row[c].dir, Copies!NoDir}
                         /\ (row'[c].key # row[c].key => c = run[w].b /\ row'[c].key = run[w].dir)
    BY <1>c, <1>d
  <2>3. SUFFICES ASSUME NEW v \in Worker, InDir(v) PROVE Owns(v)'
    BY <2>1 DEF OwnRun
  <2>4. run[v].b \in Copies!Backup
    BY <2>3 DEF InDir, WorkTyped, Copies!Busy
  <2>5. row'[run[v].b].status = row[run[v].b].status
    BY <1>d, <2>4
  <2>6. CASE v = w
    BY <1>b, <1>c, <2>1, <2>2, <2>3, <2>5, <2>6 DEF OwnRun, Owns, Copies!NoDir
  <2>7. CASE v # w
    <3>1. run[v].dir # run[w].dir /\ run'[v] = run[v]
      BY <1>b, <1>c, <2>3, <2>7 DEF OwnRun, Owns
    <3>2. QED BY <2>1, <2>2, <2>3, <2>5, <3>1 DEF OwnRun, Owns, Copies!NoDir
  <2>8. QED BY <2>6, <2>7
<1>9. NoHalf'
  BY <1>a, <1>b, <1>c, <1>d DEF NoHalf, Copies!Part, Copies!Nil, Copies!NoCopy, Copies!Gone
<1>10. Complete'
  BY <1>c, <1>d, <1>f, InPlace DEF Complete
<1>11. Taking'
  <2> SUFFICES ASSUME NEW v \in Worker, run'[v].kind = "backup" PROVE Takes(v)'
    BY DEF Taking
  <2>1. CASE v = w
    <3>1. run[w].b \in Remote
      BY <1>a DEF Stages
    <3>2. Both(bucket[run[w].dir].copy, run[w].dir)'
      BY <1>a, <1>b DEF Taking, Takes, Both
    <3>3. row'[run[w].b].status # "none" => row'[run[w].b].key = run[w].dir
      BY <1>d
    <3>4. QED BY <1>b, <2>1, <3>1, <3>2, <3>3 DEF Takes, Copies!TakenAt, Holding, Stored, Making
  <2>2. CASE v # w
    <3>0. run'[v] = run[v] /\ run[v].kind = "backup" /\ run[w].kind = "backup"
      BY <1>a, <1>b, <2>2
    <3>1. run[v].kind = "backup" /\ Takes(v) /\ run'[v] = run[v] /\ run[v].b # run[w].b
      BY <3>0, <2>2, Zenon DEF Taking, OneEach, Copies!Busy
    <3>2. InDir(v) => run[v].dir \in Copies!Dir /\ run[v].dir # run[w].dir
      BY <1>c, <2>2, RunDir DEF OwnRun, Owns
    <3>3. run[v].b \in Copies!Backup
      BY <3>1 DEF WorkTyped, Copies!Busy
    <3>4. QED BY <1>d, <1>f, <3>1, <3>2, <3>3, OthersTake
  <2>3. QED BY <2>1, <2>2
<1>12. Swapped'
  BY <1>a, <1>b DEF Swapped, Away
<1>13. Quiet'
  BY <1>a, <1>b DEF Quiet, Copies!Busy
<1>14. PutBack'
  BY <1>a, <1>b DEF PutBack, Quiet, Restores, Copies!Busy
<1>15. QED BY <1>1, <1>2, <1>3, <1>4, <1>5, <1>6, <1>7, <1>8, <1>9, <1>10, <1>11, <1>12, <1>13,
      <1>14 DEF CopiesInv, Typed

LEMMA FinishBackupKeeps ==
  ASSUME CopiesInv, Copies!BackupsAssumption, NEW w \in Worker, Copies!FinishBackup(w)
  PROVE  CopiesInv'
<1> SUFFICES ASSUME SiteTyped /\ StoreTyped /\ WorkTyped /\ SwapTyped /\ PastTyped /\ Stages /\
                    OneEach /\ Known /\ OwnDirs /\ OwnRun /\ NoHalf /\ Complete /\ Taking /\
                    Swapped /\ Quiet /\ PutBack
             PROVE  CopiesInv'
  BY DEF CopiesInv, Typed
<1>   root' = root /\ db' = db /\ status' = status /\ disk' = disk /\ bucket' = bucket /\
      jobs' = jobs /\ asking' = asking /\ page' = page /\ staging' = staging /\ aside' = aside /\
      left' = left /\ was' = was /\ mixed' = mixed /\ parted' = parted /\ cut' = cut /\
      asked' = asked /\ runs' = runs /\ restores' = restores /\ version' = version /\
      troubles' = troubles
  BY DEF Copies!FinishBackup, Copies!site, Copies!queue, Copies!swap, Copies!history,
     Copies!bounds, Copies!steps
<1>a. Copies!Goto(w, "prune") /\ run[w].kind = "backup" /\ run[w].at = "finish"
  BY DEF Copies!FinishBackup, Copies!site, Copies!queue, Copies!swap, Copies!history,
     Copies!bounds, Copies!steps, Copies!Doing
<1>b. /\ run' \in [Worker -> Place]
      /\ run'[w].at = "prune" /\ run'[w].kind = "backup"
      /\ run'[w].b = run[w].b /\ run'[w].dir = run[w].dir
      /\ run'[w].got = run[w].got
      /\ \A v \in Worker : v # w => run'[v] = run[v]
      /\ \A v \in Worker : run'[v].kind = run[v].kind /\ run'[v].b = run[v].b
            /\ (run'[v].at = "unrow" => run'[v].old \in Copies!Backup)
  BY <1>a, GotoIs DEF Copies!At
<1>c. run[w].dir \in Copies!Dir /\ run[w].b \in Copies!Backup /\ InDir(w)
      /\ row[run[w].b].status \in {"none", "running"}
  BY <1>a, RunDir DEF InDir, Making, OwnRun, Owns, WorkTyped, Copies!Busy
<1>d. /\ row' \in [Copies!Backup -> Record]
      /\ \A c \in Copies!Backup : c # run[w].b => row'[c] = row[c]
      /\ row[run[w].b].status = "none" => row'[run[w].b] = row[run[w].b]
      /\ row[run[w].b].status # "none" => /\ row'[run[w].b].status = "complete" /\ row'[run[w].b].dir = row[run[w].b].dir
                                          /\ row'[run[w].b].key = row[run[w].b].key
      /\ row'[run[w].b].status = "none" <=> row[run[w].b].status = "none"
  <2>0. row[run[w].b] \in Record /\ run[w].dir \in 0..MaxRuns /\ Copies!NoDir \in 0..MaxRuns
    BY <1>c, CopyBounds DEF StoreTyped, WorkTyped, Place, Copies!NoDir
  <2> DEFINE new == [row[run[w].b] EXCEPT !.status = "complete"]
  <2>1. Copies!Update(run[w].b, new)
    BY DEF Copies!FinishBackup, Copies!site, Copies!queue, Copies!swap, Copies!history,
       Copies!bounds, Copies!steps
  <2>2. new \in Record
    BY <2>0 DEF Record, Copies!Status
  <2>3. CASE row[run[w].b].status = "none"
    BY <1>c, <2>1, <2>3 DEF Copies!Update, StoreTyped
  <2>4. CASE row[run[w].b].status # "none"
    <3>1. new.status # "none" /\ row' \in [Copies!Backup -> Record] /\ row'[run[w].b] = new
      BY <1>c, <2>0, <2>1, <2>2, <2>4, UpdateIs DEF Record
    <3>2. \A c \in Copies!Backup : c # run[w].b => row'[c] = row[c]
      BY <1>c, <2>1 DEF Copies!Update, StoreTyped
    <3>3. QED BY <2>0, <2>4, <3>1, <3>2 DEF StoreTyped, Record
  <2>5. QED BY <2>3, <2>4
<1>e. \A b \in Copies!Backup : Going(b) => Going(b)'
  BY <1>a, <1>b DEF Going, Copies!Removing
<1>f. \A b \in Copies!Backup \ {run[w].b} : Copies!TakenAt(b) \in Copies!Dir /\ Holding(b) => Holding(b)'
  BY <1>d, <1>e, StillHolding
<1>1. SiteTyped' /\ SwapTyped' /\ PastTyped'
  BY DEF SiteTyped, SwapTyped, PastTyped
<1>2. StoreTyped'
  BY <1>d DEF StoreTyped
<1>3. WorkTyped'
  BY <1>b DEF WorkTyped, Copies!Busy
<1>4. Stages'
  BY <1>a, <1>b DEF Stages, Making, Restoring
<1>5. OneEach'
  BY <1>a, <1>b DEF OneEach, Copies!Busy
<1>6. Known'
  BY <1>d DEF Known
<1>7. OwnDirs'
  <2>1. CASE row[run[w].b].status = "none"
    <3>1. \A c \in Copies!Backup : row'[c] = row[c]
      BY <1>d, <2>1
    <3>2. QED BY <3>1 DEF OwnDirs, Owned, Copies!TakenAt
  <2>2. CASE row[run[w].b].status # "none"
    <3>1. Copies!TakenAt(run[w].b) = run[w].dir
      BY <1>a, <2>2 DEF Taking, Takes
    <3>2. run[w].dir # Copies!NoDir
      BY <1>c DEF Copies!Dir, Copies!NoDir
    <3>3. \A c \in Copies!Backup : row'[c].dir = row[c].dir /\ row'[c].key = row[c].key
      BY <1>d, <2>2
    <3>4. QED BY <1>c, <1>d, <2>2, <3>1, <3>2, <3>3 DEF OwnDirs, Owned, Copies!TakenAt
  <2>3. QED BY <2>1, <2>2
<1>8. OwnRun'
  <2>1. \A c \in Copies!Backup : row'[c].dir = row[c].dir /\ row'[c].key = row[c].key
    BY <1>d
  <2>2. \A v \in Worker : InDir(v)' => v # w /\ InDir(v) /\ run[v].b # run[w].b /\ run'[v] = run[v]
    BY <1>a, <1>b, Zenon DEF InDir, Making, OneEach, Copies!Busy
  <2>3. \A v \in Worker : Restores(v)' => Restores(v) /\ run'[v] = run[v]
    BY <1>a, <1>b DEF Restores
  <2>4. \A v \in Worker : InDir(v) => run[v].b \in Copies!Backup
    BY DEF InDir, WorkTyped, Copies!Busy
  <2>5. QED BY <1>d, <2>1, <2>2, <2>3, <2>4 DEF OwnRun, Owns
<1>9. NoHalf'
  BY <1>a, <1>b, <1>c, <1>d DEF NoHalf, Copies!Part, Copies!Nil, Copies!NoCopy, Copies!Gone
<1>10. Complete'
  <2> SUFFICES ASSUME NEW b \in Copies!Backup, row'[b].status = "complete" PROVE Holding(b)'
    BY DEF Complete
  <2>1. CASE b = run[w].b
    <3>1. Holding(b) /\ Copies!TakenAt(b) = run[w].dir
      BY <1>a, <1>d, <2>1 DEF Taking, Takes
    <3>2. row'[b].dir = row[b].dir /\ row'[b].key = row[b].key
      BY <1>d, <2>1
    <3>3. QED BY <1>e, <3>1, <3>2 DEF Holding, Stored, Both
  <2>2. CASE b # run[w].b
    BY <1>d, <1>f, <2>2, InPlace DEF Complete
  <2>3. QED BY <2>1, <2>2
<1>11. Taking'
  <2> SUFFICES ASSUME NEW v \in Worker, run'[v].kind = "backup" PROVE Takes(v)'
    BY DEF Taking
  <2>1. CASE v = w
    BY <1>b, <1>f, <2>1 DEF Taking, Takes, Making, Both
  <2>2. CASE v # w
    <3>0. run'[v] = run[v] /\ run[v].kind = "backup" /\ run[w].kind = "backup"
      BY <1>a, <1>b, <2>2
    <3>1. run[v].kind = "backup" /\ Takes(v) /\ run'[v] = run[v] /\ run[v].b # run[w].b
      BY <3>0, <2>2, Zenon DEF Taking, OneEach, Copies!Busy
    <3>2. InDir(v) => run[v].dir \in Copies!Dir /\ run[v].dir # run[w].dir
      BY <1>c, <2>2, RunDir DEF OwnRun, Owns
    <3>3. run[v].b \in Copies!Backup
      BY <3>1 DEF WorkTyped, Copies!Busy
    <3>4. QED BY <1>d, <1>f, <3>1, <3>2, <3>3, OthersTake
  <2>3. QED BY <2>1, <2>2
<1>12. Swapped'
  BY <1>a, <1>b DEF Swapped, Away
<1>13. Quiet'
  BY <1>a, <1>b DEF Quiet, Copies!Busy
<1>14. PutBack'
  BY <1>a, <1>b DEF PutBack, Quiet, Restores, Copies!Busy
<1>15. QED BY <1>1, <1>2, <1>3, <1>4, <1>5, <1>6, <1>7, <1>8, <1>9, <1>10, <1>11, <1>12, <1>13,
      <1>14 DEF CopiesInv, Typed

LEMMA BackupStepFailsKeeps ==
  ASSUME CopiesInv, Copies!BackupsAssumption, NEW w \in Worker, Copies!BackupStepFails(w)
  PROVE  CopiesInv'
<1> SUFFICES ASSUME SiteTyped /\ StoreTyped /\ WorkTyped /\ SwapTyped /\ PastTyped /\ Stages /\
                    OneEach /\ Known /\ OwnDirs /\ OwnRun /\ NoHalf /\ Complete /\ Taking /\
                    Swapped /\ Quiet /\ PutBack
             PROVE  CopiesInv'
  BY DEF CopiesInv, Typed
<1>   root' = root /\ db' = db /\ status' = status /\ row' = row /\ disk' = disk /\
      jobs' = jobs /\ asking' = asking /\ page' = page /\ staging' = staging /\ aside' = aside /\
      left' = left /\ was' = was /\ mixed' = mixed /\ parted' = parted /\ cut' = cut /\
      asked' = asked /\ runs' = runs /\ restores' = restores /\ version' = version
  BY DEF Copies!BackupStepFails, Copies!site, Copies!queue, Copies!swap, Copies!history,
     Copies!steps
<1>a. Copies!Goto(w, "clean") /\ run[w].kind = "backup" /\ run[w].at \in {"room", "dump", "archive", "upload"}
  BY DEF Copies!BackupStepFails, Copies!site, Copies!queue, Copies!swap, Copies!history,
     Copies!steps
<1>b. /\ run' \in [Worker -> Place]
      /\ run'[w].at = "clean" /\ run'[w].kind = "backup"
      /\ run'[w].b = run[w].b /\ run'[w].dir = run[w].dir
      /\ run'[w].got = run[w].got
      /\ \A v \in Worker : v # w => run'[v] = run[v]
      /\ \A v \in Worker : run'[v].kind = run[v].kind /\ run'[v].b = run[v].b
            /\ (run'[v].at = "unrow" => run'[v].old \in Copies!Backup)
  BY <1>a, GotoIs DEF Copies!At
<1>c. run[w].dir \in Copies!Dir /\ run[w].b \in Copies!Backup /\ InDir(w)
      /\ row[run[w].b].status \in {"none", "running"}
  BY <1>a, RunDir DEF InDir, Making, OwnRun, Owns, WorkTyped, Copies!Busy
<1>d. /\ bucket'[run[w].dir].copy.files \in {bucket[run[w].dir].copy.files, disk[run[w].dir].copy.files}
      /\ \A d \in Copies!Dir : d # run[w].dir => bucket'[d] = bucket[d]
      /\ bucket' \in [Copies!Dir -> Held]
  <2>1. disk[run[w].dir] \in Held /\ Copies!Nil \in Copies!Content
    BY <1>c DEF StoreTyped, Copies!Content
  <2>2. CASE run[w].at = "upload"
    <3>1. bucket' = [bucket EXCEPT ![run[w].dir] = [there |-> TRUE, copy |-> [disk[run[w].dir].copy EXCEPT !.db = Copies!Nil]]]
      BY <2>2 DEF Copies!BackupStepFails
    <3>2. QED BY <1>c, <2>1, <3>1, Zenon DEF StoreTyped, Held, Half
  <2>3. CASE run[w].at # "upload"
    <3>1. bucket' = bucket
      BY <2>3 DEF Copies!BackupStepFails
    <3>2. QED BY <3>1 DEF StoreTyped
  <2>4. QED BY <2>2, <2>3
<1>e. \A b \in Copies!Backup : Going(b) => Going(b)'
  BY <1>a, <1>b DEF Going, Copies!Removing
<1>f. \A b \in Copies!Backup \ {run[w].b} : Copies!TakenAt(b) \in Copies!Dir /\ Holding(b) => Holding(b)'
  <2> SUFFICES ASSUME NEW b \in Copies!Backup, b # run[w].b, Copies!TakenAt(b) \in Copies!Dir, Holding(b) PROVE Holding(b)'
    OBVIOUS
  <2>1. row[b].dir # run[w].dir /\ row[b].key # run[w].dir
    BY <1>c DEF OwnRun, Owns
  <2>2. IF b \in Remote THEN bucket'[row[b].key] = bucket[row[b].key]
                       ELSE disk'[row[b].dir] = disk[row[b].dir]
    BY <2>1, <1>d DEF Copies!TakenAt
  <2>3. QED BY <2>2, <1>d, <1>e, StillHolding
<1>g. troubles' \in 0..MaxTroubles
  BY CopyBounds DEF Copies!BackupStepFails, Copies!site, Copies!queue, Copies!swap,
     Copies!history, Copies!steps, Copies!Trouble, PastTyped
<1>1. SiteTyped' /\ SwapTyped' /\ Known'
  BY DEF SiteTyped, SwapTyped, Known
<1>2. StoreTyped'
  BY <1>d DEF StoreTyped
<1>3. WorkTyped'
  BY <1>b DEF WorkTyped, Copies!Busy
<1>4. PastTyped'
  BY <1>g DEF PastTyped, Half
<1>5. Stages'
  BY <1>a, <1>b DEF Stages, Making, Restoring
<1>6. OneEach'
  BY <1>a, <1>b DEF OneEach, Copies!Busy
<1>7. OwnDirs'
  BY DEF OwnDirs, Owned, Copies!TakenAt, Copies!NoDir
<1>8. OwnRun'
  BY <1>a, <1>b, <1>c DEF OwnRun, Owns, InDir, Restores, Making
<1>9. NoHalf'
  BY <1>a, <1>b, <1>d DEF NoHalf, Copies!Part, Copies!Nil, Copies!NoCopy, Copies!Gone
<1>10. Complete'
  BY <1>c, <1>f, InPlace DEF Complete
<1>11. Taking'
  <2> SUFFICES ASSUME NEW v \in Worker, run'[v].kind = "backup" PROVE Takes(v)'
    BY DEF Taking
  <2>1. CASE v = w
    BY <1>b, <2>1 DEF Taking, Takes, Making, Both
  <2>2. CASE v # w
    <3>0. run'[v] = run[v] /\ run[v].kind = "backup" /\ run[w].kind = "backup"
      BY <1>a, <1>b, <2>2
    <3>1. run[v].kind = "backup" /\ Takes(v) /\ run'[v] = run[v] /\ run[v].b # run[w].b
      BY <3>0, <2>2, Zenon DEF Taking, OneEach, Copies!Busy
    <3>2. InDir(v) => run[v].dir \in Copies!Dir /\ run[v].dir # run[w].dir
      BY <1>c, <2>2, RunDir DEF OwnRun, Owns
    <3>3. run[v].b \in Copies!Backup
      BY <3>1 DEF WorkTyped, Copies!Busy
    <3>4. QED BY <1>d, <1>f, <3>1, <3>2, <3>3, OthersTake
  <2>3. QED BY <2>1, <2>2
<1>12. Swapped'
  BY <1>a, <1>b DEF Swapped, Away
<1>13. Quiet'
  BY <1>a, <1>b DEF Quiet, Copies!Busy
<1>14. PutBack'
  BY <1>a, <1>b DEF PutBack, Quiet, Restores, Copies!Busy
<1>15. QED BY <1>1, <1>2, <1>3, <1>4, <1>5, <1>6, <1>7, <1>8, <1>9, <1>10, <1>11, <1>12, <1>13,
      <1>14 DEF CopiesInv, Typed

LEMMA CleanUpKeeps ==
  ASSUME CopiesInv, Copies!BackupsAssumption, NEW w \in Worker, Copies!CleanUp(w)
  PROVE  CopiesInv'
<1> SUFFICES ASSUME SiteTyped /\ StoreTyped /\ WorkTyped /\ SwapTyped /\ PastTyped /\ Stages /\
                    OneEach /\ Known /\ OwnDirs /\ OwnRun /\ NoHalf /\ Complete /\ Taking /\
                    Swapped /\ Quiet /\ PutBack
             PROVE  CopiesInv'
  BY DEF CopiesInv, Typed
<1>   root' = root /\ db' = db /\ status' = status /\ row' = row /\ jobs' = jobs /\
      asking' = asking /\ page' = page /\ staging' = staging /\ aside' = aside /\ left' = left /\
      was' = was /\ mixed' = mixed /\ parted' = parted /\ cut' = cut /\ asked' = asked /\
      runs' = runs /\ restores' = restores /\ version' = version /\ troubles' = troubles
  BY DEF Copies!CleanUp, Copies!site, Copies!queue, Copies!swap, Copies!history, Copies!bounds,
     Copies!steps
<1>a. Copies!Goto(w, "lose") /\ run[w].kind = "backup" /\ run[w].at = "clean"
  BY DEF Copies!CleanUp, Copies!site, Copies!queue, Copies!swap, Copies!history, Copies!bounds,
     Copies!steps, Copies!Doing
<1>b. /\ run' \in [Worker -> Place]
      /\ run'[w].at = "lose" /\ run'[w].kind = "backup"
      /\ run'[w].b = run[w].b /\ run'[w].dir = run[w].dir
      /\ run'[w].got = run[w].got
      /\ \A v \in Worker : v # w => run'[v] = run[v]
      /\ \A v \in Worker : run'[v].kind = run[v].kind /\ run'[v].b = run[v].b
            /\ (run'[v].at = "unrow" => run'[v].old \in Copies!Backup)
  BY <1>a, GotoIs DEF Copies!At
<1>c. run[w].dir \in Copies!Dir /\ run[w].b \in Copies!Backup /\ InDir(w)
      /\ row[run[w].b].status \in {"none", "running"}
  BY <1>a, RunDir DEF InDir, Making, OwnRun, Owns, WorkTyped, Copies!Busy
<1>d. /\ disk'[run[w].dir] = Copies!Gone
      /\ \A d \in Copies!Dir : d # run[w].dir => disk'[d] = disk[d]
      /\ disk' \in [Copies!Dir -> Held]
      /\ bucket'[run[w].dir] \in {Copies!Gone, bucket[run[w].dir]}
      /\ \A d \in Copies!Dir : d # run[w].dir => bucket'[d] = bucket[d]
      /\ bucket' \in [Copies!Dir -> Held]
  BY <1>a, <1>b, <1>c DEF Copies!CleanUp, Copies!site, Copies!queue, Copies!swap,
     Copies!history, Copies!bounds, Copies!steps, StoreTyped, SiteTyped, Held, Half,
     Copies!NoCopy, Copies!Content, Copies!Doing, Copies!Gone
<1>e. \A b \in Copies!Backup : Going(b) => Going(b)'
  BY <1>a, <1>b DEF Going, Copies!Removing
<1>f. \A b \in Copies!Backup \ {run[w].b} : Copies!TakenAt(b) \in Copies!Dir /\ Holding(b) => Holding(b)'
  <2> SUFFICES ASSUME NEW b \in Copies!Backup, b # run[w].b, Copies!TakenAt(b) \in Copies!Dir, Holding(b) PROVE Holding(b)'
    OBVIOUS
  <2>1. row[b].dir # run[w].dir /\ row[b].key # run[w].dir
    BY <1>c DEF OwnRun, Owns
  <2>2. IF b \in Remote THEN bucket'[row[b].key] = bucket[row[b].key]
                       ELSE disk'[row[b].dir] = disk[row[b].dir]
    BY <2>1, <1>d DEF Copies!TakenAt
  <2>3. QED BY <2>2, <1>d, <1>e, StillHolding
<1>1. SiteTyped' /\ SwapTyped' /\ PastTyped' /\ Known'
  BY DEF SiteTyped, SwapTyped, PastTyped, Known
<1>2. StoreTyped'
  BY <1>c, <1>d DEF StoreTyped
<1>3. WorkTyped'
  BY <1>b DEF WorkTyped, Copies!Busy
<1>4. Stages'
  BY <1>a, <1>b DEF Stages, Making, Restoring
<1>5. OneEach'
  BY <1>a, <1>b DEF OneEach, Copies!Busy
<1>6. OwnDirs'
  BY DEF OwnDirs, Owned, Copies!TakenAt, Copies!NoDir
<1>7. OwnRun'
  BY <1>a, <1>b, <1>c DEF OwnRun, Owns, InDir, Restores, Making
<1>8. NoHalf'
  BY <1>b, <1>d DEF NoHalf, Copies!Part, Copies!Nil, Copies!NoCopy, Copies!Gone
<1>9. Complete'
  BY <1>c, <1>d, <1>f, InPlace DEF Complete
<1>10. Taking'
  <2> SUFFICES ASSUME NEW v \in Worker, run'[v].kind = "backup" PROVE Takes(v)'
    BY DEF Taking
  <2>1. CASE v = w
    BY <1>b, <1>e, <2>1 DEF Taking, Takes, Making, Both, Copies!Gone
  <2>2. CASE v # w
    <3>0. run'[v] = run[v] /\ run[v].kind = "backup" /\ run[w].kind = "backup"
      BY <1>a, <1>b, <2>2
    <3>1. run[v].kind = "backup" /\ Takes(v) /\ run'[v] = run[v] /\ run[v].b # run[w].b
      BY <3>0, <2>2, Zenon DEF Taking, OneEach, Copies!Busy
    <3>2. InDir(v) => run[v].dir \in Copies!Dir /\ run[v].dir # run[w].dir
      BY <1>c, <2>2, RunDir DEF OwnRun, Owns
    <3>3. run[v].b \in Copies!Backup
      BY <3>1 DEF WorkTyped, Copies!Busy
    <3>4. QED BY <1>d, <1>f, <3>1, <3>2, <3>3, OthersTake
  <2>3. QED BY <2>1, <2>2
<1>11. Swapped'
  BY <1>a, <1>b DEF Swapped, Away
<1>12. Quiet'
  BY <1>a, <1>b DEF Quiet, Copies!Busy
<1>13. PutBack'
  BY <1>a, <1>b DEF PutBack, Quiet, Restores, Copies!Busy
<1>14. QED BY <1>1, <1>2, <1>3, <1>4, <1>5, <1>6, <1>7, <1>8, <1>9, <1>10, <1>11, <1>12,
      <1>13 DEF CopiesInv, Typed

LEMMA BackupFailsKeeps ==
  ASSUME CopiesInv, Copies!BackupsAssumption, NEW w \in Worker, Copies!BackupFails(w)
  PROVE  CopiesInv'
<1> SUFFICES ASSUME SiteTyped /\ StoreTyped /\ WorkTyped /\ SwapTyped /\ PastTyped /\ Stages /\
                    OneEach /\ Known /\ OwnDirs /\ OwnRun /\ NoHalf /\ Complete /\ Taking /\
                    Swapped /\ Quiet /\ PutBack
             PROVE  CopiesInv'
  BY DEF CopiesInv, Typed
<1>   root' = root /\ db' = db /\ status' = status /\ disk' = disk /\ bucket' = bucket /\
      jobs' = jobs /\ asking' = asking /\ page' = page /\ staging' = staging /\ aside' = aside /\
      left' = left /\ was' = was /\ mixed' = mixed /\ parted' = parted /\ cut' = cut /\
      asked' = asked /\ runs' = runs /\ restores' = restores /\ version' = version /\
      troubles' = troubles
  BY DEF Copies!BackupFails, Copies!site, Copies!queue, Copies!swap, Copies!history,
     Copies!bounds, Copies!steps
<1>a. Copies!Stop(w) /\ run[w].kind = "backup" /\ run[w].at = "lose"
  BY DEF Copies!BackupFails, Copies!site, Copies!queue, Copies!swap, Copies!history,
     Copies!bounds, Copies!steps, Copies!Doing
<1>b. /\ run' \in [Worker -> Place] /\ run'[w].at = "idle" /\ run'[w].kind = "none"
      /\ run'[w].got.files = Copies!Nil
      /\ \A v \in Worker : v # w => run'[v] = run[v]
      /\ \A v \in Worker : run'[v].kind # "none" => v # w /\ run'[v] = run[v]
  BY <1>a, StopIs DEF Copies!Idle, Copies!NoCopy
<1>c. run[w].dir \in Copies!Dir /\ run[w].b \in Copies!Backup /\ InDir(w)
      /\ row[run[w].b].status \in {"none", "running"}
  BY <1>a, RunDir DEF InDir, Making, OwnRun, Owns, WorkTyped, Copies!Busy
<1>d. /\ row' \in [Copies!Backup -> Record]
      /\ \A c \in Copies!Backup : c # run[w].b => row'[c] = row[c]
      /\ row[run[w].b].status = "none" => row'[run[w].b] = row[run[w].b]
      /\ row[run[w].b].status # "none" => /\ row'[run[w].b].status = "failed" /\ row'[run[w].b].dir = row[run[w].b].dir
                                          /\ row'[run[w].b].key = row[run[w].b].key
      /\ row'[run[w].b].status = "none" <=> row[run[w].b].status = "none"
  <2>0. row[run[w].b] \in Record /\ run[w].dir \in 0..MaxRuns /\ Copies!NoDir \in 0..MaxRuns
    BY <1>c, CopyBounds DEF StoreTyped, WorkTyped, Place, Copies!NoDir
  <2> DEFINE new == [row[run[w].b] EXCEPT !.status = "failed"]
  <2>1. Copies!Update(run[w].b, new)
    BY DEF Copies!BackupFails, Copies!site, Copies!queue, Copies!swap, Copies!history,
       Copies!bounds, Copies!steps
  <2>2. new \in Record
    BY <2>0 DEF Record, Copies!Status
  <2>3. CASE row[run[w].b].status = "none"
    BY <1>c, <2>1, <2>3 DEF Copies!Update, StoreTyped
  <2>4. CASE row[run[w].b].status # "none"
    <3>1. new.status # "none" /\ row' \in [Copies!Backup -> Record] /\ row'[run[w].b] = new
      BY <1>c, <2>0, <2>1, <2>2, <2>4, UpdateIs DEF Record
    <3>2. \A c \in Copies!Backup : c # run[w].b => row'[c] = row[c]
      BY <1>c, <2>1 DEF Copies!Update, StoreTyped
    <3>3. QED BY <2>0, <2>4, <3>1, <3>2 DEF StoreTyped, Record
  <2>5. QED BY <2>3, <2>4
<1>e. \A b \in Copies!Backup : Going(b) => Going(b)'
  BY <1>a, <1>b DEF Going, Copies!Removing
<1>f. \A b \in Copies!Backup \ {run[w].b} : Copies!TakenAt(b) \in Copies!Dir /\ Holding(b) => Holding(b)'
  BY <1>d, <1>e, StillHolding
<1>1. SiteTyped' /\ SwapTyped' /\ PastTyped'
  BY DEF SiteTyped, SwapTyped, PastTyped
<1>2. StoreTyped'
  BY <1>d DEF StoreTyped
<1>3. WorkTyped'
  BY <1>b DEF WorkTyped, Copies!Busy
<1>4. Stages'
  BY <1>a, <1>b DEF Stages, Making, Restoring
<1>5. OneEach'
  BY <1>a, <1>b DEF OneEach, Copies!Busy
<1>6. Known'
  BY <1>d DEF Known
<1>7. OwnDirs'
  <2>1. CASE row[run[w].b].status = "none"
    <3>1. \A c \in Copies!Backup : row'[c] = row[c]
      BY <1>d, <2>1
    <3>2. QED BY <3>1 DEF OwnDirs, Owned, Copies!TakenAt
  <2>2. CASE row[run[w].b].status # "none"
    <3>1. \A c \in Copies!Backup : row'[c].dir = row[c].dir /\ row'[c].key = row[c].key
      BY <1>d, <2>2
    <3>2. QED BY <1>d DEF OwnDirs, Owned, Copies!TakenAt
  <2>3. QED BY <2>1, <2>2
<1>8. OwnRun'
  <2>1. \A c \in Copies!Backup : row'[c].dir = row[c].dir /\ row'[c].key = row[c].key
    BY <1>d
  <2>2. \A v \in Worker : InDir(v)' => v # w /\ InDir(v) /\ run[v].b # run[w].b /\ run'[v] = run[v]
    BY <1>a, <1>b, Zenon DEF InDir, Making, OneEach, Copies!Busy
  <2>3. \A v \in Worker : Restores(v)' => Restores(v) /\ run'[v] = run[v]
    BY <1>a, <1>b DEF Restores
  <2>4. \A v \in Worker : InDir(v) => run[v].b \in Copies!Backup
    BY DEF InDir, WorkTyped, Copies!Busy
  <2>5. QED BY <1>d, <2>1, <2>2, <2>3, <2>4 DEF OwnRun, Owns
<1>9. NoHalf'
  BY <1>a, <1>b, <1>c, <1>d DEF NoHalf, Copies!Part, Copies!Nil, Copies!NoCopy, Copies!Gone
<1>10. Complete'
  BY <1>c, <1>d, <1>f, InPlace DEF Complete
<1>11. Taking'
  <2> SUFFICES ASSUME NEW v \in Worker, run'[v].kind = "backup" PROVE Takes(v)'
    BY DEF Taking
  <2>1. CASE v = w
    BY <1>b, <2>1 DEF Taking, Takes, Making, Both
  <2>2. CASE v # w
    <3>0. run'[v] = run[v] /\ run[v].kind = "backup" /\ run[w].kind = "backup"
      BY <1>a, <1>b, <2>2
    <3>1. run[v].kind = "backup" /\ Takes(v) /\ run'[v] = run[v] /\ run[v].b # run[w].b
      BY <3>0, <2>2, Zenon DEF Taking, OneEach, Copies!Busy
    <3>2. InDir(v) => run[v].dir \in Copies!Dir /\ run[v].dir # run[w].dir
      BY <1>c, <2>2, RunDir DEF OwnRun, Owns
    <3>3. run[v].b \in Copies!Backup
      BY <3>1 DEF WorkTyped, Copies!Busy
    <3>4. QED BY <1>d, <1>f, <3>1, <3>2, <3>3, OthersTake
  <2>3. QED BY <2>1, <2>2
<1>12. Swapped'
  BY <1>a, <1>b DEF Swapped, Away
<1>13. Quiet'
  BY <1>a, <1>b DEF Quiet, Copies!Busy
<1>14. PutBack'
  BY <1>a, <1>b DEF PutBack, Quiet, Restores, Copies!Busy
<1>15. QED BY <1>1, <1>2, <1>3, <1>4, <1>5, <1>6, <1>7, <1>8, <1>9, <1>10, <1>11, <1>12, <1>13,
      <1>14 DEF CopiesInv, Typed

LEMMA PruneKeeps ==
  ASSUME CopiesInv, Copies!BackupsAssumption, NEW w \in Worker, Copies!Prune(w)
  PROVE  CopiesInv'
<1> SUFFICES ASSUME SiteTyped /\ StoreTyped /\ WorkTyped /\ SwapTyped /\ PastTyped /\ Stages /\
                    OneEach /\ Known /\ OwnDirs /\ OwnRun /\ NoHalf /\ Complete /\ Taking /\
                    Swapped /\ Quiet /\ PutBack
             PROVE  CopiesInv'
  BY DEF CopiesInv, Typed
<1>   root' = root /\ db' = db /\ status' = status /\ row' = row /\ disk' = disk /\
      bucket' = bucket /\ jobs' = jobs /\ asking' = asking /\ page' = page /\
      staging' = staging /\ aside' = aside /\ left' = left /\ was' = was /\ mixed' = mixed /\
      parted' = parted /\ cut' = cut /\ asked' = asked /\ runs' = runs /\ restores' = restores /\
      version' = version /\ troubles' = troubles
  BY DEF Copies!Prune, Copies!site, Copies!store, Copies!queue, Copies!swap, Copies!history,
     Copies!bounds, Copies!steps
<1>a. run[w].kind = "backup" /\ run[w].at = "prune"
  BY DEF Copies!Prune, Copies!site, Copies!store, Copies!queue, Copies!swap, Copies!history,
     Copies!bounds, Copies!steps, Copies!Doing
<1>b. /\ run' \in [Worker -> Place] /\ run'[w].at \in {"idle", "forget"} /\ run'[w].got.files # Copies!Part
      /\ (run'[w].at = "idle" <=> run'[w].kind = "none")
      /\ run'[w].at = "forget" => run'[w].kind = "backup" /\ run'[w].b = run[w].b
      /\ \A v \in Worker : v # w => run'[v] = run[v]
      /\ \A v \in Worker : run'[v].kind # "none" => run'[v].kind = run[v].kind /\ run'[v].b = run[v].b
  <2>1. CASE Copies!Stop(w)
    BY <2>1, StopIs DEF Copies!Idle, Copies!NoCopy, Copies!Nil, Copies!Part
  <2>2. CASE run' = [run EXCEPT ![w].at = "forget", ![w].todo = Copies!PrunableBackups]
    <3>1. Copies!PrunableBackups \in SUBSET Copies!Backup
      BY DEF Copies!PrunableBackups
    <3>2. run[w] \in Place /\ "forget" \in Copies!At
      BY DEF WorkTyped, Copies!At
    <3>3. /\ run'[w] = [run[w] EXCEPT !.at = "forget", !.todo = Copies!PrunableBackups]
          /\ \A v \in Worker : v # w => run'[v] = run[v]
      BY <2>2 DEF WorkTyped
    <3>4. run'[w] \in Place
      BY <3>1, <3>2, <3>3, Zenon DEF Place
    <3>5. /\ run'[w].at = "forget" /\ run'[w].kind = "backup" /\ run'[w].b = run[w].b
          /\ run'[w].got = run[w].got
      BY <1>a, <3>2, <3>3 DEF Place
    <3>6. run' \in [Worker -> Place]
      BY <2>2, <3>4 DEF WorkTyped
    <3>7. QED BY <1>a, <3>3, <3>5, <3>6, Zenon DEF NoHalf
  <2>3. QED BY <2>1, <2>2 DEF Copies!Prune
<1>c. run[w].b \in Copies!Backup /\ ~InDir(w) /\ ~Restores(w)
  BY <1>a DEF InDir, Making, WorkTyped, Copies!Busy, Restores
<1>e. \A b \in Copies!Backup : Going(b) => Going(b)'
  BY <1>a, <1>b DEF Going, Copies!Removing
<1>f. \A b \in Copies!Backup : Copies!TakenAt(b) \in Copies!Dir /\ Holding(b) => Holding(b)'
  BY <1>e, StillHolding
<1>1. SiteTyped' /\ StoreTyped' /\ SwapTyped' /\ PastTyped' /\ Known'
  BY DEF SiteTyped, StoreTyped, SwapTyped, PastTyped, Known
<1>2. WorkTyped'
  BY <1>b DEF WorkTyped, Copies!Busy
<1>3. Stages'
  BY <1>a, <1>b DEF Stages, Making, Restoring
<1>4. OneEach'
  BY <1>a, <1>b DEF OneEach, Copies!Busy
<1>5. OwnDirs'
  BY DEF OwnDirs, Owned, Copies!TakenAt, Copies!NoDir
<1>6. OwnRun'
  <2>1. \A v \in Worker : (Restores(v)' => Restores(v)) /\ (InDir(v)' => InDir(v) /\ run'[v] = run[v])
                        /\ (Restores(v)' => run'[v] = run[v])
    BY <1>a, <1>b DEF Restores, InDir, Making
  <2>2. QED BY <2>1 DEF OwnRun, Owns
<1>7. NoHalf'
  BY <1>a, <1>b, <1>c DEF NoHalf, Copies!Part, Copies!Nil, Copies!NoCopy, Copies!Gone
<1>8. Complete'
  BY <1>f, InPlace DEF Complete
<1>9. Taking'
  <2> SUFFICES ASSUME NEW v \in Worker, run'[v].kind = "backup" PROVE Takes(v)'
    BY DEF Taking
  <2>1. CASE v = w
    BY <1>b, <2>1 DEF Takes, Making
  <2>2. CASE v # w
    <3>1. run[v].kind = "backup" /\ run'[v] = run[v] /\ Takes(v)
      BY <1>b, <2>2 DEF Taking
    <3>2. run[v].b \in Copies!Backup
      BY <3>1 DEF WorkTyped, Copies!Busy
    <3>3. InDir(v) => run[v].dir \in Copies!Dir
      BY RunDir
    <3>4. QED BY <1>f, <3>1, <3>2, <3>3, OthersTake
  <2>3. QED BY <2>1, <2>2
<1>10. Swapped'
  BY <1>a, <1>b DEF Swapped, Away
<1>11. Quiet'
  BY <1>a, <1>b DEF Quiet, Copies!Busy
<1>12. PutBack'
  BY <1>a, <1>b DEF PutBack, Quiet, Restores, Copies!Busy
<1>13. QED BY <1>1, <1>2, <1>3, <1>4, <1>5, <1>6, <1>7, <1>8, <1>9, <1>10, <1>11,
      <1>12 DEF CopiesInv, Typed

LEMMA PruneFilesKeeps ==
  ASSUME CopiesInv, Copies!BackupsAssumption, NEW w \in Worker, Copies!PruneFiles(w)
  PROVE  CopiesInv'
<1> SUFFICES ASSUME SiteTyped /\ StoreTyped /\ WorkTyped /\ SwapTyped /\ PastTyped /\ Stages /\
                    OneEach /\ Known /\ OwnDirs /\ OwnRun /\ NoHalf /\ Complete /\ Taking /\
                    Swapped /\ Quiet /\ PutBack
             PROVE  CopiesInv'
  BY DEF CopiesInv, Typed
<1>   root' = root /\ db' = db /\ status' = status /\ row' = row /\ jobs' = jobs /\
      asking' = asking /\ page' = page /\ staging' = staging /\ aside' = aside /\ left' = left /\
      was' = was /\ mixed' = mixed /\ parted' = parted /\ cut' = cut /\ asked' = asked /\
      runs' = runs /\ restores' = restores /\ version' = version /\ troubles' = troubles
  BY DEF Copies!PruneFiles, Copies!site, Copies!queue, Copies!swap, Copies!history,
     Copies!bounds, Copies!steps
<1>a. run[w].kind = "backup" /\ run[w].at = "forget"
  BY DEF Copies!PruneFiles, Copies!site, Copies!queue, Copies!swap, Copies!history,
     Copies!bounds, Copies!steps, Copies!Doing
<1>b. PICK x \in run[w].todo : /\ disk' = Copies!Without(disk, row[x].dir) /\ bucket' = Copies!Without(bucket, row[x].key)
                                /\ run' = [run EXCEPT ![w].at = "unrow", ![w].old = x, ![w].todo = @ \ {x}]
  BY Zenon DEF Copies!PruneFiles, Copies!site, Copies!queue, Copies!swap, Copies!history,
     Copies!bounds, Copies!steps
<1>c. run[w].b \in Copies!Backup /\ ~InDir(w) /\ ~Restores(w) /\ x \in Copies!Backup
  BY <1>a DEF InDir, Making, WorkTyped, Copies!Busy, Restores, Place
<1>d. /\ run' \in [Worker -> Place] /\ run'[w].at = "unrow" /\ run'[w].kind = "backup" /\ run'[w].b = run[w].b
      /\ run'[w].got = run[w].got /\ run'[w].old = x
      /\ \A v \in Worker : v # w => run'[v] = run[v]
      /\ \A v \in Worker : run'[v].kind = run[v].kind /\ run'[v].b = run[v].b
  <2>1. run[w] \in Place /\ "unrow" \in Copies!At /\ x \in Row
    BY <1>c DEF WorkTyped, Copies!At, Row
  <2>2. /\ run'[w] = [run[w] EXCEPT !.at = "unrow", !.old = x, !.todo = @ \ {x}]
        /\ \A v \in Worker : v # w => run'[v] = run[v]
    BY <1>b DEF WorkTyped
  <2>3. /\ run'[w].at = "unrow" /\ run'[w].kind = run[w].kind /\ run'[w].b = run[w].b
        /\ run'[w].got = run[w].got /\ run'[w].old = x /\ run'[w] \in Place
    BY <2>1, <2>2, Zenon DEF Place
  <2>4. run' \in [Worker -> Place]
    BY <1>b, <2>3 DEF WorkTyped
  <2>5. QED BY <1>a, <2>2, <2>3, <2>4, Zenon
<1>e. \A b \in Copies!Backup : (Going(b) => Going(b)') /\ (b = x => Going(b)')
  BY <1>a, <1>d DEF Going, Copies!Removing
<1>f. /\ row[x].dir # Copies!NoDir => disk'[row[x].dir] = Copies!Gone
      /\ row[x].key # Copies!NoDir => bucket'[row[x].key] = Copies!Gone
      /\ \A d \in Copies!Dir : /\ disk'[d] # disk[d] => d = row[x].dir
                               /\ bucket'[d] # bucket[d] => d = row[x].key
                               /\ disk'[d] \in {disk[d], Copies!Gone} /\ bucket'[d] \in {bucket[d], Copies!Gone}
      /\ disk' \in [Copies!Dir -> Held] /\ bucket' \in [Copies!Dir -> Held]
  <2>1. row[x] \in Record /\ Copies!Gone \in Held
    BY <1>c DEF StoreTyped, Copies!Gone, Copies!NoCopy, Held, Half, Copies!Content
  <2>2. row[x].dir \in Copies!Dir \cup {Copies!NoDir} /\ row[x].key \in Copies!Dir \cup {Copies!NoDir}
    BY <2>1, CopyBounds DEF Record, Copies!Dir, Copies!NoDir
  <2>3. disk' \in [Copies!Dir -> Held] /\ disk' = IF row[x].dir = Copies!NoDir THEN disk ELSE [disk EXCEPT ![row[x].dir] = Copies!Gone]
    BY <1>b, <2>1, <2>2 DEF Copies!Without, StoreTyped
  <2>4. bucket' \in [Copies!Dir -> Held] /\ bucket' = IF row[x].key = Copies!NoDir THEN bucket ELSE [bucket EXCEPT ![row[x].key] = Copies!Gone]
    BY <1>b, <2>1, <2>2 DEF Copies!Without, StoreTyped
  <2>5. QED BY <2>2, <2>3, <2>4 DEF StoreTyped
<1>g. \A b \in Copies!Backup : Copies!TakenAt(b) \in Copies!Dir /\ Holding(b) => Holding(b)'
  <2> SUFFICES ASSUME NEW b \in Copies!Backup, Copies!TakenAt(b) \in Copies!Dir, Holding(b) PROVE Holding(b)'
    OBVIOUS
  <2>1. row[b].dir # Copies!NoDir /\ row[b].dir = row[x].dir => b = x
    BY <1>c DEF OwnDirs, Owned
  <2>2. row[b].key # Copies!NoDir /\ row[b].key = row[x].key => b = x
    BY <1>c DEF OwnDirs, Owned
  <2>3. Copies!NoDir \notin Copies!Dir
    BY DEF Copies!NoDir, Copies!Dir
  <2>4. CASE b \in Remote
    BY <1>e, <1>f, <2>2, <2>3, <2>4, StillHolding DEF Copies!TakenAt
  <2>5. CASE b \notin Remote
    BY <1>e, <1>f, <2>1, <2>3, <2>5, StillHolding DEF Copies!TakenAt
  <2>6. QED BY <2>4, <2>5
<1>1. SiteTyped' /\ SwapTyped' /\ PastTyped' /\ Known'
  BY DEF SiteTyped, SwapTyped, PastTyped, Known
<1>2. StoreTyped'
  BY <1>f DEF StoreTyped
<1>3. WorkTyped'
  BY <1>c, <1>d DEF WorkTyped, Copies!Busy
<1>4. Stages'
  BY <1>a, <1>d DEF Stages, Making
<1>5. OneEach'
  BY <1>a, <1>d DEF OneEach, Copies!Busy
<1>6. OwnDirs'
  BY DEF OwnDirs, Owned, Copies!TakenAt, Copies!NoDir
<1>7. OwnRun'
  <2>1. \A v \in Worker : (Restores(v)' => Restores(v) /\ run'[v] = run[v]) /\ (InDir(v)' => InDir(v) /\ run'[v] = run[v])
    BY <1>a, <1>d DEF Restores, InDir, Making
  <2>2. QED BY <2>1 DEF OwnRun, Owns
<1>8. NoHalf'
  BY <1>d, <1>f DEF NoHalf, Copies!Gone, Copies!NoCopy, Copies!Nil, Copies!Part
<1>9. Complete'
  BY <1>g, InPlace DEF Complete
<1>10. Taking'
  <2> SUFFICES ASSUME NEW v \in Worker, run'[v].kind = "backup" PROVE Takes(v)'
    BY DEF Taking
  <2>1. CASE v = w
    BY <1>d, <2>1 DEF Takes, Making
  <2>2. CASE v # w
    <3>1. run[v].kind = "backup" /\ run'[v] = run[v] /\ Takes(v)
      BY <1>d, <2>2 DEF Taking
    <3>2. run[v].b \in Copies!Backup
      BY <3>1 DEF WorkTyped, Copies!Busy
    <3>3. InDir(v) => /\ run[v].dir \in Copies!Dir
                      /\ run[v].at \in {"drop", "mark"} => row[x].key # run[v].dir
      BY <1>c, RunDir DEF OwnRun, Owns
    <3>4. QED BY <1>f, <1>g, <3>1, <3>2, <3>3, OthersTake
  <2>3. QED BY <2>1, <2>2
<1>11. Swapped'
  BY <1>a, <1>d DEF Swapped, Away
<1>12. Quiet'
  BY <1>d DEF Quiet, Copies!Busy
<1>13. PutBack'
  BY <1>a, <1>d DEF PutBack, Quiet, Restores, Copies!Busy
<1>14. QED BY <1>1, <1>2, <1>3, <1>4, <1>5, <1>6, <1>7, <1>8, <1>9, <1>10, <1>11, <1>12,
      <1>13 DEF CopiesInv, Typed

LEMMA PruneRowKeeps ==
  ASSUME CopiesInv, Copies!BackupsAssumption, NEW w \in Worker, Copies!PruneRow(w)
  PROVE  CopiesInv'
<1> SUFFICES ASSUME SiteTyped /\ StoreTyped /\ WorkTyped /\ SwapTyped /\ PastTyped /\ Stages /\
                    OneEach /\ Known /\ OwnDirs /\ OwnRun /\ NoHalf /\ Complete /\ Taking /\
                    Swapped /\ Quiet /\ PutBack
             PROVE  CopiesInv'
  BY DEF CopiesInv, Typed
<1>   root' = root /\ db' = db /\ status' = status /\ disk' = disk /\ bucket' = bucket /\
      jobs' = jobs /\ asking' = asking /\ page' = page /\ staging' = staging /\ aside' = aside /\
      left' = left /\ was' = was /\ mixed' = mixed /\ parted' = parted /\ cut' = cut /\
      asked' = asked /\ runs' = runs /\ restores' = restores /\ version' = version /\
      troubles' = troubles
  BY DEF Copies!PruneRow, Copies!site, Copies!queue, Copies!swap, Copies!history,
     Copies!bounds, Copies!steps
<1>a. run[w].kind = "backup" /\ run[w].at = "unrow" /\ run[w].old \in Copies!Backup
  BY DEF Copies!PruneRow, Copies!site, Copies!queue, Copies!swap, Copies!history,
     Copies!bounds, Copies!steps, Copies!Doing, WorkTyped
<1>b. /\ run' \in [Worker -> Place] /\ run'[w].at \in {"idle", "forget"} /\ run'[w].got.files # Copies!Part
      /\ (run'[w].at = "idle" <=> run'[w].kind = "none")
      /\ run'[w].at = "forget" => run'[w].kind = "backup" /\ run'[w].b = run[w].b
      /\ \A v \in Worker : v # w => run'[v] = run[v]
      /\ \A v \in Worker : run'[v].kind # "none" => run'[v].kind = run[v].kind /\ run'[v].b = run[v].b
  <2>1. CASE Copies!Stop(w)
    BY <2>1, StopIs DEF Copies!Idle, Copies!NoCopy, Copies!Nil, Copies!Part
  <2>2. CASE Copies!Goto(w, "forget")
    BY <1>a, <2>2, GotoIs DEF Copies!At, NoHalf
  <2>3. QED BY <2>1, <2>2 DEF Copies!PruneRow
<1>c. run[w].b \in Copies!Backup /\ ~InDir(w) /\ ~Restores(w)
  BY <1>a DEF InDir, Making, WorkTyped, Copies!Busy, Restores
<1>d. /\ row' \in [Copies!Backup -> Record] /\ row'[run[w].old] = Copies!NoRow
      /\ \A c \in Copies!Backup : c # run[w].old => row'[c] = row[c]
  BY <1>a, CopyBounds DEF Copies!PruneRow, Copies!site, Copies!queue, Copies!swap,
     Copies!history, Copies!bounds, Copies!steps, StoreTyped, Copies!NoRow, Record,
     Copies!Status, Copies!NoDir
<1>e. \A b \in Copies!Backup : b # run[w].old /\ Going(b) => Going(b)'
  BY <1>a, <1>b DEF Going, Copies!Removing
<1>f. \A b \in Copies!Backup : b # run[w].old /\ Copies!TakenAt(b) \in Copies!Dir /\ Holding(b) => Holding(b)'
  BY <1>d, <1>e, StillHolding
<1>g. Copies!NoRow.status = "none" /\ Copies!NoRow.dir = Copies!NoDir /\ Copies!NoRow.key = Copies!NoDir
  BY DEF Copies!NoRow
<1>1. SiteTyped' /\ SwapTyped' /\ PastTyped'
  BY DEF SiteTyped, SwapTyped, PastTyped
<1>2. StoreTyped'
  BY <1>d DEF StoreTyped
<1>3. WorkTyped'
  BY <1>b DEF WorkTyped, Copies!Busy
<1>4. Stages'
  BY <1>a, <1>b DEF Stages, Making, Restoring
<1>5. OneEach'
  BY <1>a, <1>b DEF OneEach, Copies!Busy
<1>6. Known'
  BY <1>d, <1>g DEF Known
<1>7. OwnDirs'
  <2> SUFFICES ASSUME NEW b \in Copies!Backup PROVE Owned(b)'
    BY DEF OwnDirs
  <2>1. 0 <= runs
    BY DEF PastTyped
  <2>2. QED BY <1>a, <1>d, <1>g, <2>1 DEF OwnDirs, Owned, Copies!TakenAt, Copies!NoDir
<1>8. OwnRun'
  <2>1. \A v \in Worker : (Restores(v)' => Restores(v)) /\ (InDir(v)' => InDir(v) /\ run'[v] = run[v])
                        /\ (Restores(v)' => run'[v] = run[v])
    BY <1>a, <1>b DEF Restores, InDir, Making
  <2>2. \A v \in Worker : InDir(v) => run[v].b \in Copies!Backup /\ run[v].dir # Copies!NoDir
    BY RunDir DEF InDir, WorkTyped, Copies!Busy, Copies!Dir, Copies!NoDir
  <2>3. QED BY <1>d, <1>g, <2>1, <2>2 DEF OwnRun, Owns
<1>9. NoHalf'
  BY <1>a, <1>b, <1>c, <1>d DEF NoHalf, Copies!Part, Copies!Nil, Copies!NoCopy, Copies!Gone
<1>10. Complete'
  BY <1>d, <1>f, <1>g, InPlace DEF Complete
<1>11. Taking'
  <2> SUFFICES ASSUME NEW v \in Worker, run'[v].kind = "backup" PROVE Takes(v)'
    BY DEF Taking
  <2>1. CASE v = w
    BY <1>b, <2>1 DEF Takes, Making
  <2>2. CASE v # w
    <3>1. run[v].kind = "backup" /\ run'[v] = run[v] /\ Takes(v)
      BY <1>b, <2>2 DEF Taking
    <3>2. run[v].b \in Copies!Backup
      BY <3>1 DEF WorkTyped, Copies!Busy
    <3>3. InDir(v) => run[v].dir \in Copies!Dir
      BY RunDir
    <3>4. QED BY <1>d, <1>f, <1>g, <3>1, <3>2, <3>3, OthersTake
  <2>3. QED BY <2>1, <2>2
<1>12. Swapped'
  BY <1>a, <1>b DEF Swapped, Away
<1>13. Quiet'
  BY <1>a, <1>b DEF Quiet, Copies!Busy
<1>14. PutBack'
  BY <1>a, <1>b DEF PutBack, Quiet, Restores, Copies!Busy
<1>15. QED BY <1>1, <1>2, <1>3, <1>4, <1>5, <1>6, <1>7, <1>8, <1>9, <1>10, <1>11, <1>12, <1>13,
      <1>14 DEF CopiesInv, Typed

LEMMA StorageMissingKeeps ==
  ASSUME CopiesInv, Copies!BackupsAssumption, NEW w \in Worker, Copies!StorageMissing(w)
  PROVE  CopiesInv'
<1> SUFFICES ASSUME SiteTyped /\ StoreTyped /\ WorkTyped /\ SwapTyped /\ PastTyped /\ Stages /\
                    OneEach /\ Known /\ OwnDirs /\ OwnRun /\ NoHalf /\ Complete /\ Taking /\
                    Swapped /\ Quiet /\ PutBack
             PROVE  CopiesInv'
  BY DEF CopiesInv, Typed
<1>   root' = root /\ db' = db /\ status' = status /\ disk' = disk /\ bucket' = bucket /\
      jobs' = jobs /\ asking' = asking /\ page' = page /\ staging' = staging /\ aside' = aside /\
      left' = left /\ was' = was /\ mixed' = mixed /\ parted' = parted /\ cut' = cut /\
      asked' = asked /\ runs' = runs /\ restores' = restores /\ version' = version
  BY DEF Copies!StorageMissing, Copies!site, Copies!queue, Copies!swap, Copies!history,
     Copies!steps
<1>a. Copies!Stop(w) /\ run[w].kind = "backup" /\ run[w].at = "begin"
  BY DEF Copies!StorageMissing, Copies!site, Copies!queue, Copies!swap, Copies!history,
     Copies!steps, Copies!Doing
<1>b. /\ run' \in [Worker -> Place] /\ run'[w].at = "idle" /\ run'[w].kind = "none"
      /\ run'[w].got.files = Copies!Nil
      /\ \A v \in Worker : v # w => run'[v] = run[v]
      /\ \A v \in Worker : run'[v].kind # "none" => v # w /\ run'[v] = run[v]
  BY <1>a, StopIs DEF Copies!Idle, Copies!NoCopy
<1>c. run[w].b \in Copies!Backup /\ ~InDir(w) /\ ~Restores(w)
  BY <1>a DEF InDir, Making, WorkTyped, Copies!Busy, Restores
<1>d. /\ row' \in [Copies!Backup -> Record] /\ row'[run[w].b].status \in {"none", "failed"}
      /\ row'[run[w].b].dir = row[run[w].b].dir /\ row'[run[w].b].key = row[run[w].b].key
      /\ row'[run[w].b].status = "none" <=> row[run[w].b].status = "none"
      /\ \A c \in Copies!Backup : c # run[w].b => row'[c] = row[c]
      /\ troubles' \in 0..MaxTroubles
  <2>1. row[run[w].b] \in Record
    BY <1>c DEF StoreTyped
  <2>2. row' = [row EXCEPT ![run[w].b].status = IF row[run[w].b].status = "none" THEN "none" ELSE "failed"]
    BY <1>c DEF Copies!StorageMissing, Copies!site, Copies!queue, Copies!swap, Copies!history,
       Copies!steps, StoreTyped
  <2>3. troubles' \in 0..MaxTroubles
    BY CopyBounds DEF Copies!StorageMissing, Copies!site, Copies!queue, Copies!swap,
       Copies!history, Copies!steps, Copies!Trouble, PastTyped
  <2>4. QED BY <1>c, <2>1, <2>2, <2>3 DEF StoreTyped, Record, Copies!Status
<1>e. \A b \in Copies!Backup : Going(b) => Going(b)'
  BY <1>a, <1>b DEF Going, Copies!Removing
<1>f. \A b \in Copies!Backup \ {run[w].b} : Copies!TakenAt(b) \in Copies!Dir /\ Holding(b) => Holding(b)'
  BY <1>d, <1>e, StillHolding
<1>g. \A c \in Copies!Backup : row'[c].dir = row[c].dir /\ row'[c].key = row[c].key
  BY <1>d
<1>1. SiteTyped' /\ SwapTyped'
  BY DEF SiteTyped, SwapTyped
<1>2. StoreTyped'
  BY <1>d DEF StoreTyped
<1>3. WorkTyped'
  BY <1>b DEF WorkTyped, Copies!Busy
<1>4. PastTyped'
  BY <1>a, <1>b, <1>c, <1>d, <1>e, <1>f, <1>g DEF PastTyped, Half
<1>5. Stages'
  BY <1>a, <1>b DEF Stages, Making, Restoring
<1>6. OneEach'
  BY <1>a, <1>b DEF OneEach, Copies!Busy
<1>7. Known'
  BY <1>d DEF Known
<1>8. OwnDirs'
  BY <1>c, <1>d, <1>g DEF OwnDirs, Owned, Copies!TakenAt
<1>9. OwnRun'
  <2>1. \A v \in Worker : /\ InDir(v)' => v # w /\ InDir(v) /\ run[v].b # run[w].b /\ run'[v] = run[v] /\ run[v].b \in Copies!Backup
                          /\ Restores(v)' => Restores(v) /\ run'[v] = run[v]
    BY <1>a, <1>b DEF InDir, Making, OneEach, Copies!Busy, Restores, WorkTyped
  <2>2. QED BY <1>d, <1>g, <2>1 DEF OwnRun, Owns
<1>10. NoHalf'
  BY <1>a, <1>b, <1>c, <1>d DEF NoHalf, Copies!Part, Copies!Nil, Copies!NoCopy, Copies!Gone
<1>11. Complete'
  BY <1>d, <1>f, InPlace DEF Complete
<1>12. Taking'
  <2> SUFFICES ASSUME NEW v \in Worker, run'[v].kind = "backup" PROVE Takes(v)'
    BY DEF Taking
  <2>1. v # w /\ run[v].kind = "backup" /\ run'[v] = run[v] /\ Takes(v)
    BY <1>b DEF Taking
  <2>2. run[v].b \in Copies!Backup /\ run[v].b # run[w].b
    BY <1>a, <2>1, Zenon DEF WorkTyped, Copies!Busy, OneEach
  <2>3. InDir(v) => run[v].dir \in Copies!Dir
    BY RunDir
  <2>4. QED BY <1>d, <1>f, <2>1, <2>2, <2>3, OthersTake
<1>13. Swapped'
  BY <1>a, <1>b DEF Swapped, Away
<1>14. Quiet'
  BY <1>a, <1>b DEF Quiet, Copies!Busy
<1>15. PutBack'
  BY <1>a, <1>b DEF PutBack, Quiet, Restores, Copies!Busy
<1>16. QED BY <1>1, <1>2, <1>3, <1>4, <1>5, <1>6, <1>7, <1>8, <1>9, <1>10, <1>11, <1>12, <1>13,
      <1>14, <1>15 DEF CopiesInv, Typed

\* The two ways to start a backup: its row is gone, or not.
StartedOnNothing(w) == /\ Copies!Doing(w, "backup", "begin") /\ Copies!Stop(w)
                       /\ UNCHANGED <<Copies!steps, Copies!store, Copies!history, Copies!bounds>>
Started(w) == /\ Copies!Doing(w, "backup", "begin") /\ row[run[w].b].status # "none" /\ Copies!StartBackup(w)

LEMMA StartedOnNothingKeeps ==
  ASSUME CopiesInv, Copies!BackupsAssumption, NEW w \in Worker, StartedOnNothing(w)
  PROVE  CopiesInv'
<1> SUFFICES ASSUME SiteTyped /\ StoreTyped /\ WorkTyped /\ SwapTyped /\ PastTyped /\ Stages /\
                    OneEach /\ Known /\ OwnDirs /\ OwnRun /\ NoHalf /\ Complete /\ Taking /\
                    Swapped /\ Quiet /\ PutBack
             PROVE  CopiesInv'
  BY DEF CopiesInv, Typed
<1>   root' = root /\ db' = db /\ status' = status /\ row' = row /\ disk' = disk /\
      bucket' = bucket /\ jobs' = jobs /\ asking' = asking /\ page' = page /\
      staging' = staging /\ aside' = aside /\ left' = left /\ was' = was /\ mixed' = mixed /\
      parted' = parted /\ cut' = cut /\ asked' = asked /\ runs' = runs /\ restores' = restores /\
      version' = version /\ troubles' = troubles
  BY DEF StartedOnNothing, Copies!site, Copies!store, Copies!queue, Copies!swap,
     Copies!history, Copies!bounds, Copies!steps
<1>a. Copies!Stop(w) /\ run[w].kind = "backup" /\ run[w].at = "begin"
  BY DEF StartedOnNothing, Copies!site, Copies!store, Copies!queue, Copies!swap,
     Copies!history, Copies!bounds, Copies!steps, Copies!Doing
<1>b. /\ run' \in [Worker -> Place] /\ run'[w].at = "idle" /\ run'[w].kind = "none"
      /\ run'[w].got.files = Copies!Nil
      /\ \A v \in Worker : v # w => run'[v] = run[v]
      /\ \A v \in Worker : run'[v].kind # "none" => v # w /\ run'[v] = run[v]
  BY <1>a, StopIs DEF Copies!Idle, Copies!NoCopy
<1>c. run[w].b \in Copies!Backup /\ ~InDir(w) /\ ~Restores(w)
  BY <1>a DEF InDir, Making, WorkTyped, Copies!Busy, Restores
<1>e. \A b \in Copies!Backup : Going(b) => Going(b)'
  BY <1>a, <1>b DEF Going, Copies!Removing
<1>f. \A b \in Copies!Backup : Copies!TakenAt(b) \in Copies!Dir /\ Holding(b) => Holding(b)'
  BY <1>e, StillHolding
<1>1. SiteTyped' /\ StoreTyped' /\ SwapTyped' /\ PastTyped' /\ Known'
  BY DEF SiteTyped, StoreTyped, SwapTyped, PastTyped, Known
<1>2. WorkTyped'
  BY <1>b DEF WorkTyped, Copies!Busy
<1>3. Stages'
  BY <1>a, <1>b DEF Stages, Making, Restoring
<1>4. OneEach'
  BY <1>a, <1>b DEF OneEach, Copies!Busy
<1>5. OwnDirs'
  BY DEF OwnDirs, Owned, Copies!TakenAt, Copies!NoDir
<1>6. OwnRun'
  <2>1. \A v \in Worker : /\ InDir(v)' => InDir(v) /\ run'[v] = run[v]
                          /\ Restores(v)' => Restores(v) /\ run'[v] = run[v]
    BY <1>b DEF InDir, Making, Restores
  <2>2. QED BY <2>1 DEF OwnRun, Owns
<1>7. NoHalf'
  BY <1>a, <1>b, <1>c DEF NoHalf, Copies!Part, Copies!Nil, Copies!NoCopy, Copies!Gone
<1>8. Complete'
  BY <1>f, InPlace DEF Complete
<1>9. Taking'
  <2> SUFFICES ASSUME NEW v \in Worker, run'[v].kind = "backup" PROVE Takes(v)'
    BY DEF Taking
  <2>1. v # w /\ run[v].kind = "backup" /\ run'[v] = run[v] /\ Takes(v)
    BY <1>b DEF Taking
  <2>2. run[v].b \in Copies!Backup /\ run[v].b # run[w].b
    BY <1>a, <2>1, Zenon DEF WorkTyped, Copies!Busy, OneEach
  <2>3. InDir(v) => run[v].dir \in Copies!Dir
    BY RunDir
  <2>4. QED BY <1>f, <2>1, <2>2, <2>3, OthersTake
<1>10. Swapped'
  BY <1>a, <1>b DEF Swapped, Away
<1>11. Quiet'
  BY <1>a, <1>b DEF Quiet, Copies!Busy
<1>12. PutBack'
  BY <1>a, <1>b DEF PutBack, Quiet, Restores, Copies!Busy
<1>13. QED BY <1>1, <1>2, <1>3, <1>4, <1>5, <1>6, <1>7, <1>8, <1>9, <1>10, <1>11,
      <1>12 DEF CopiesInv, Typed

LEMMA StartedKeeps ==
  ASSUME CopiesInv, Copies!BackupsAssumption, NEW w \in Worker, Started(w)
  PROVE  CopiesInv'
<1> SUFFICES ASSUME SiteTyped /\ StoreTyped /\ WorkTyped /\ SwapTyped /\ PastTyped /\ Stages /\
                    OneEach /\ Known /\ OwnDirs /\ OwnRun /\ NoHalf /\ Complete /\ Taking /\
                    Swapped /\ Quiet /\ PutBack
             PROVE  CopiesInv'
  BY DEF CopiesInv, Typed
<1>   root' = root /\ db' = db /\ status' = status /\ disk' = disk /\ bucket' = bucket /\
      jobs' = jobs /\ asking' = asking /\ page' = page /\ staging' = staging /\ aside' = aside /\
      left' = left /\ parted' = parted /\ cut' = cut /\ asked' = asked /\ restores' = restores /\
      version' = version /\ troubles' = troubles
  BY DEF Started, Copies!StartBackup, Copies!Doing, Copies!site, Copies!queue, Copies!swap,
     Copies!steps
<1>a. run[w].kind = "backup" /\ run[w].at = "begin"
  BY DEF Started, Copies!StartBackup, Copies!Doing, Copies!site, Copies!queue, Copies!swap,
     Copies!steps, Copies!Doing
<1>b. /\ run' \in [Worker -> Place] /\ run'[w].at = "room" /\ run'[w].kind = "backup" /\ run'[w].b = run[w].b
      /\ run'[w].got = run[w].got /\ run'[w].dir = runs' /\ runs' = runs + 1 /\ runs' \in Copies!Dir /\ runs \in Nat
      /\ \A v \in Worker : v # w => run'[v] = run[v]
      /\ \A v \in Worker : run'[v].kind = run[v].kind /\ run'[v].b = run[v].b
  <2>1. runs' = runs + 1 /\ runs' \in Copies!Dir /\ runs \in Nat /\ runs' \in 0..MaxRuns
    BY CopyBounds DEF Started, Copies!StartBackup, Copies!Doing, Copies!site, Copies!queue,
       Copies!swap, Copies!steps, PastTyped, Copies!Dir
  <2>2. run[w] \in Place /\ "room" \in Copies!At /\ run' = [run EXCEPT ![w].at = "room", ![w].dir = runs']
    BY DEF Started, Copies!StartBackup, Copies!Doing, Copies!site, Copies!queue, Copies!swap,
       Copies!steps, WorkTyped, Copies!At
  <2>3. /\ run'[w] = [run[w] EXCEPT !.at = "room", !.dir = runs']
        /\ \A v \in Worker : v # w => run'[v] = run[v]
    BY <2>2 DEF WorkTyped
  <2>0. run'[w] = [run[w] EXCEPT !.at = "room", !.dir = runs'] /\ run[w] \in Place /\ "room" \in Copies!At /\ runs' \in 0..MaxRuns
    BY <2>1, <2>2, <2>3
  <2>4. /\ run'[w].at = "room" /\ run'[w].kind = run[w].kind /\ run'[w].b = run[w].b
        /\ run'[w].got = run[w].got /\ run'[w].dir = runs' /\ run'[w] \in Place
    BY <2>0, Zenon DEF Place
  <2>5. run' \in [Worker -> Place]
    BY <2>2, <2>4 DEF WorkTyped
  <2>6. QED BY <1>a, <2>1, <2>3, <2>4, <2>5, Zenon
<1>c. run[w].b \in Copies!Backup /\ ~InDir(w) /\ ~Restores(w)
  BY <1>a DEF InDir, Making, WorkTyped, Copies!Busy, Restores
<1>d. /\ row' \in [Copies!Backup -> Record] /\ row'[run[w].b].status = "running"
      /\ row'[run[w].b].dir = runs' /\ row'[run[w].b].key = row[run[w].b].key
      /\ \A c \in Copies!Backup : c # run[w].b => row'[c] = row[c]
      /\ was' \in [Copies!Dir -> Half] /\ was'[runs'] = [files |-> root, db |-> db]
      /\ \A d \in Copies!Dir : d # runs' => was'[d] = was[d]
      /\ mixed' \in BOOLEAN /\ (mixed => mixed') /\ (~mixed' => root = db)
      /\ row[run[w].b].status # "none" 
  <2>1. row[run[w].b] \in Record
    BY <1>c DEF StoreTyped
  <2>2. row' = [row EXCEPT ![run[w].b].status = "running", ![run[w].b].dir = runs']
    BY DEF Started, Copies!StartBackup, Copies!Doing, Copies!site, Copies!queue, Copies!swap,
       Copies!steps
  <2>3. was' = [was EXCEPT ![runs'] = [files |-> root, db |-> db]] /\ mixed' = (mixed \/ root # db)
    BY DEF Started, Copies!StartBackup, Copies!Doing, Copies!site, Copies!queue, Copies!swap,
       Copies!steps
  <2>4. runs' \in 0..MaxRuns
    BY <1>b, CopyBounds DEF Copies!Dir
  <2>5. [files |-> root, db |-> db] \in Half
    BY DEF SiteTyped, Half
  <2>6. row' \in [Copies!Backup -> Record] /\ row'[run[w].b].status = "running"
        /\ row'[run[w].b].dir = runs' /\ row'[run[w].b].key = row[run[w].b].key
        /\ \A c \in Copies!Backup : c # run[w].b => row'[c] = row[c]
    BY <1>c, <2>2 DEF StoreTyped, Record, Copies!Status
  <2>7. was' \in [Copies!Dir -> Half] /\ was'[runs'] = [files |-> root, db |-> db]
        /\ \A d \in Copies!Dir : d # runs' => was'[d] = was[d]
    BY <1>b, <2>3, <2>5 DEF PastTyped
  <2>8. row[run[w].b].status # "none"
    BY DEF Started
  <2>9. QED BY <2>3, <2>6, <2>7, <2>8, Zenon DEF PastTyped
<1>e. \A b \in Copies!Backup : Going(b) => Going(b)'
  BY <1>a, <1>b DEF Going, Copies!Removing
<1>f. \A b \in Copies!Backup \ {run[w].b} : Copies!TakenAt(b) \in Copies!Dir /\ Holding(b) => Holding(b)'
  <2> SUFFICES ASSUME NEW b \in Copies!Backup, b # run[w].b, Copies!TakenAt(b) \in Copies!Dir, Holding(b) PROVE Holding(b)'
    OBVIOUS
  <2>1. row[b].dir <= runs /\ row[b].key <= runs
    BY DEF OwnDirs, Owned
  <2>2. Copies!TakenAt(b) # runs'
    BY <1>b, <2>1 DEF Copies!TakenAt
  <2>3. QED BY <1>d, <1>e, <2>2, StillHolding
<1>g. \A v \in Worker : InDir(v) => run[v].dir \in Copies!Dir /\ run[v].dir <= runs /\ run[v].dir # runs'
  BY <1>b, RunDir
<1>1. SiteTyped' /\ SwapTyped'
  BY DEF SiteTyped, SwapTyped
<1>2. StoreTyped'
  BY <1>d DEF StoreTyped
<1>3. WorkTyped'
  BY <1>a, <1>b DEF WorkTyped, Copies!Busy
<1>4. PastTyped'
  BY <1>b, <1>d, CopyBounds DEF PastTyped, Copies!Dir
<1>5. Stages'
  BY <1>a, <1>b DEF Stages, Making
<1>6. OneEach'
  BY <1>a, <1>b DEF OneEach, Copies!Busy
<1>7. Known'
  BY <1>d DEF Known
<1>8. OwnDirs'
  <2>1. \A c \in Copies!Backup : /\ row[c].dir <= runs /\ row[c].key <= runs /\ row[c].dir \in Nat /\ row[c].key \in Nat
                                 /\ row'[c].key = row[c].key
    BY <1>d, CopyBounds DEF OwnDirs, Owned, StoreTyped, Record
  <2>2. page.at = "files" => page.dir <= runs /\ page.key <= runs /\ page.dir \in Nat /\ page.key \in Nat
    BY CopyBounds DEF OwnDirs, WorkTyped, Removal
  <2>3. SUFFICES ASSUME NEW b \in Copies!Backup PROVE Owned(b)'
    BY <1>b, <2>2 DEF OwnDirs
  <2>4. CASE b = run[w].b
    BY <1>b, <1>d, <2>1, <2>4 DEF OwnDirs, Owned, Copies!NoDir
  <2>5. CASE b # run[w].b
    BY <1>b, <1>d, <2>1, <2>2, <2>5 DEF OwnDirs, Owned, Copies!TakenAt
  <2>6. QED BY <2>4, <2>5
<1>9. OwnRun'
  <2>1. \A v \in Worker : /\ InDir(v)' => v = w \/ (v # w /\ InDir(v) /\ run[v].b # run[w].b /\ run'[v] = run[v] /\ run[v].b \in Copies!Backup)
                          /\ Restores(v)' => Restores(v) /\ run'[v] = run[v]
    BY <1>a, <1>b, Zenon DEF InDir, Making, OneEach, Copies!Busy, Restores, WorkTyped
  <2>2. \A c \in Copies!Backup : /\ row[c].dir <= runs /\ row[c].key <= runs /\ row[c].dir \in Nat /\ row[c].key \in Nat
                                 /\ row'[c].key = row[c].key
    BY <1>d, CopyBounds DEF OwnDirs, Owned, StoreTyped, Record
  <2>3. page.at = "files" => page.dir <= runs /\ page.key <= runs /\ page.dir \in Nat /\ page.key \in Nat
    BY CopyBounds DEF OwnDirs, WorkTyped, Removal
  <2>4. SUFFICES ASSUME NEW v \in Worker, InDir(v)' PROVE Owns(v)'
    BY <1>b, <2>1 DEF OwnRun
  <2>5. CASE v = w
    BY <1>b, <1>d, <1>g, <2>1, <2>2, <2>3, <2>5 DEF Owns
  <2>6. CASE v # w
    BY <1>b, <1>d, <2>1, <2>4, <2>6 DEF OwnRun, Owns
  <2>7. QED BY <2>5, <2>6
<1>10. NoHalf'
  BY <1>b DEF NoHalf
<1>11. Complete'
  BY <1>d, <1>f, InPlace DEF Complete
<1>12. Taking'
  <2> SUFFICES ASSUME NEW v \in Worker, run'[v].kind = "backup" PROVE Takes(v)'
    BY DEF Taking
  <2>1. CASE v = w
    BY <1>b, <1>d, <2>1 DEF Takes, Making
  <2>2. CASE v # w
    <3>1. run[v].kind = "backup" /\ run'[v] = run[v] /\ Takes(v)
      BY <1>b, <2>2 DEF Taking
    <3>2. run[v].b \in Copies!Backup /\ run[v].b # run[w].b
      BY <1>a, <2>2, <3>1, Zenon DEF WorkTyped, Copies!Busy, OneEach
    <3>3. InDir(v) => run[v].dir \in Copies!Dir /\ run[v].dir # runs'
      BY <1>g
    <3>4. QED BY <1>d, <1>f, <3>1, <3>2, <3>3, OthersTake
  <2>3. QED BY <2>1, <2>2
<1>13. Swapped'
  BY <1>a, <1>b DEF Swapped, Away
<1>14. Quiet'
  <2>1. \A d \in 1..runs : d \in Copies!Dir /\ d # runs'
    BY <1>b, CopyBounds DEF PastTyped, Copies!Dir
  <2>2. \A d \in 1..runs' : d \in 1..runs \/ d = runs'
    BY <1>b
  <2>3. QED BY <1>b, <1>d, <2>1, <2>2 DEF Quiet, Copies!Busy
<1>15. PutBack'
  BY <1>a, <1>b, <1>d DEF PutBack, Quiet, Restores, Copies!Busy
<1>16. QED BY <1>1, <1>2, <1>3, <1>4, <1>5, <1>6, <1>7, <1>8, <1>9, <1>10, <1>11, <1>12, <1>13,
      <1>14, <1>15 DEF CopiesInv, Typed

LEMMA CreateBackupKeeps ==
  ASSUME CopiesInv, Copies!BackupsAssumption, NEW k \in {"scheduled", "manual"}, Copies!CreateBackup(k)
  PROVE  CopiesInv'
<1> SUFFICES ASSUME SiteTyped /\ StoreTyped /\ WorkTyped /\ SwapTyped /\ PastTyped /\ Stages /\
                    OneEach /\ Known /\ OwnDirs /\ OwnRun /\ NoHalf /\ Complete /\ Taking /\
                    Swapped /\ Quiet /\ PutBack
             PROVE  CopiesInv'
  BY DEF CopiesInv, Typed
<1>   root' = root /\ db' = db /\ status' = status /\ disk' = disk /\ bucket' = bucket /\
      jobs' = jobs /\ run' = run /\ page' = page /\ staging' = staging /\ aside' = aside /\
      left' = left /\ was' = was /\ mixed' = mixed /\ parted' = parted /\ cut' = cut /\
      runs' = runs /\ restores' = restores /\ version' = version /\ troubles' = troubles
  BY DEF Copies!CreateBackup, Copies!site, Copies!swap, Copies!history
<1>a. /\ asked' = asked + 1 /\ asked' \in Copies!Backup /\ asked' \in 0..MaxBackups /\ asked \in Nat /\ asking' = asking \cup {asked'}
      /\ \A b \in Copies!Backup : b \in Nat
  BY CopyBounds DEF Copies!CreateBackup, Copies!site, Copies!swap, Copies!history, PastTyped,
     Copies!Backup
<1>b. /\ row' \in [Copies!Backup -> Record] /\ row'[asked'].status = "pending"
      /\ row'[asked'].dir = row[asked'].dir /\ row'[asked'].key = row[asked'].key
      /\ \A c \in Copies!Backup : c # asked' => row'[c] = row[c]
  <2>1. row' = [row EXCEPT ![asked'].status = "pending", ![asked'].kind = k]
    BY DEF Copies!CreateBackup
  <2>2. row[asked'] \in Record
    BY <1>a DEF StoreTyped
  <2>3. QED BY <1>a, <2>1, <2>2 DEF StoreTyped, Record, Copies!Status
<1>c. \A v \in Worker : Copies!Busy(v) => run[v].b # asked'
  <2> SUFFICES ASSUME NEW v \in Worker, Copies!Busy(v) PROVE run[v].b # asked'
    OBVIOUS
  <2>1. run[v].b <= asked /\ run[v].b \in Nat
    BY <1>a, Zenon DEF OneEach, WorkTyped
  <2>2. QED BY <1>a, <2>1
<1>d. \A b \in Copies!Backup \ {asked'} : Copies!TakenAt(b) \in Copies!Dir /\ Holding(b) => Holding(b)'
  <2> SUFFICES ASSUME NEW b \in Copies!Backup, b # asked', Copies!TakenAt(b) \in Copies!Dir, Holding(b) PROVE Holding(b)'
    OBVIOUS
  <2>1. Going(b) => Going(b)'
    BY DEF Going, Copies!Removing
  <2>2. QED BY <1>b, <2>1, StillHolding
<1>e. \A c \in Copies!Backup : row'[c].dir = row[c].dir /\ row'[c].key = row[c].key
  BY <1>b
<1>1. SiteTyped' /\ SwapTyped'
  BY DEF SiteTyped, SwapTyped
<1>2. StoreTyped'
  BY <1>b DEF StoreTyped
<1>3. WorkTyped'
  BY <1>a DEF WorkTyped, Copies!Busy
<1>4. PastTyped'
  BY <1>a, <1>b, <1>c, <1>d, <1>e DEF PastTyped, Half
<1>5. Stages'
  BY DEF Stages, Making, Restoring
<1>6. OneEach'
  <2>1. \A j \in jobs : j.b <= asked' /\ j # [kind |-> "backup", b |-> asked']
    <3> SUFFICES ASSUME NEW j \in jobs PROVE j.b <= asked' /\ j # [kind |-> "backup", b |-> asked']
      OBVIOUS
    <3>1. j.b <= asked /\ j.b \in Nat
      BY <1>a, Zenon DEF OneEach, WorkTyped
    <3>2. QED BY <1>a, <3>1
  <2>2. \A w \in Worker : Copies!Busy(w) => run[w].b <= asked /\ run[w].b \in Nat
    BY <1>a, Zenon DEF OneEach, WorkTyped
  <2>3. \A b \in asking : b <= asked /\ b \in Nat
    BY <1>a, Zenon DEF OneEach, WorkTyped
  <2>4. QED BY <1>a, <1>c, <2>1, <2>2, <2>3 DEF OneEach, Copies!Busy
<1>7. Known'
  <2> SUFFICES ASSUME NEW b \in Copies!Backup, row'[b].status # "none" PROVE b <= asked'
    BY DEF Known
  <2>1. b = asked' \/ b <= asked
    BY <1>b DEF Known
  <2>2. b \in Nat
    BY <1>a
  <2>3. QED BY <1>a, <2>1, <2>2
<1>8. OwnDirs'
  BY <1>a, <1>b, <1>e DEF OwnDirs, Owned, Copies!TakenAt
<1>9. OwnRun'
  <2>1. \A v \in Worker : InDir(v) => run[v].b # asked' /\ run[v].b \in Copies!Backup
    BY <1>c DEF InDir, WorkTyped, Copies!Busy
  <2>2. QED BY <1>b, <1>e, <2>1 DEF OwnRun, Owns, InDir, Restores
<1>10. NoHalf'
  BY DEF NoHalf, Copies!Part, Copies!Nil
<1>11. Complete'
  BY <1>a, <1>b, <1>d, InPlace DEF Complete
<1>12. Taking'
  <2> SUFFICES ASSUME NEW v \in Worker, run[v].kind = "backup" PROVE Takes(v)'
    BY DEF Taking
  <2>1. Takes(v) /\ run[v].b \in Copies!Backup /\ run[v].b # asked'
    BY <1>c DEF Taking, WorkTyped, Copies!Busy
  <2>2. InDir(v) => run[v].dir \in Copies!Dir
    BY RunDir
  <2>3. QED BY <1>b, <1>d, <2>1, <2>2, OthersTake
<1>13. Swapped'
  BY DEF Swapped, Away, Copies!Nil, Copies!Part
<1>14. Quiet'
  BY DEF Quiet, Copies!Busy
<1>15. PutBack'
  BY DEF PutBack, Returns, Restores, Restoring, Copies!Source
<1>16. QED BY <1>1, <1>2, <1>3, <1>4, <1>5, <1>6, <1>7, <1>8, <1>9, <1>10, <1>11, <1>12, <1>13,
      <1>14, <1>15 DEF CopiesInv, Typed

LEMMA PushBackupKeeps ==
  ASSUME CopiesInv, Copies!BackupsAssumption, NEW b \in Copies!Backup, Copies!PushBackup(b)
  PROVE  CopiesInv'
<1> SUFFICES ASSUME SiteTyped /\ StoreTyped /\ WorkTyped /\ SwapTyped /\ PastTyped /\ Stages /\
                    OneEach /\ Known /\ OwnDirs /\ OwnRun /\ NoHalf /\ Complete /\ Taking /\
                    Swapped /\ Quiet /\ PutBack
             PROVE  CopiesInv'
  BY DEF CopiesInv, Typed
<1>   root' = root /\ db' = db /\ status' = status /\ row' = row /\ disk' = disk /\
      bucket' = bucket /\ run' = run /\ page' = page /\ staging' = staging /\ aside' = aside /\
      left' = left /\ was' = was /\ mixed' = mixed /\ parted' = parted /\ cut' = cut /\
      asked' = asked /\ runs' = runs /\ restores' = restores /\ version' = version /\
      troubles' = troubles
  BY DEF Copies!PushBackup, Copies!site, Copies!store, Copies!swap, Copies!history,
     Copies!bounds
<1>a. b \in asking /\ asking' = asking \ {b} /\ jobs' = jobs \cup {[kind |-> "backup", b |-> b]}
  BY DEF Copies!PushBackup, Copies!site, Copies!store, Copies!swap, Copies!history,
     Copies!bounds
<1>1. SiteTyped' /\ StoreTyped' /\ SwapTyped' /\ PastTyped' /\ Known'
  BY DEF SiteTyped, StoreTyped, SwapTyped, PastTyped, Known
<1>2. WorkTyped'
  BY <1>a DEF WorkTyped, Copies!Busy
<1>3. Stages'
  BY DEF Stages, Making, Restoring
<1>4. OneEach'
  <2>1. b <= asked /\ \A w \in Worker : run[w].kind = "backup" => run[w].b # b
    BY <1>a, Zenon DEF OneEach, Copies!Busy
  <2>2. \A c \in asking' : c <= asked /\ c # b /\ [kind |-> "backup", b |-> c] \notin jobs'
    BY <1>a, Zenon DEF OneEach
  <2>3. \A j \in jobs' : j.b <= asked
    BY <1>a, <2>1 DEF OneEach
  <2>4. \A w \in Worker : Copies!Busy(w) => [kind |-> run[w].kind, b |-> run[w].b] \notin jobs'
    BY <1>a, <2>1 DEF OneEach
  <2>5. QED BY <1>a, <2>2, <2>3, <2>4 DEF OneEach, Copies!Busy
<1>5. OwnDirs'
  BY DEF OwnDirs, Owned, Copies!TakenAt, Copies!NoDir
<1>6. OwnRun'
  BY DEF OwnRun, Owns, InDir, Restores, Making
<1>7. NoHalf'
  BY DEF NoHalf, Copies!Part, Copies!Nil
<1>8. Complete'
  BY Zenon DEF Complete, Holding, Stored, Both, Going, Copies!Removing, Copies!Gone
<1>9. Taking'
  BY SameTaking DEF Typed
<1>10. Swapped'
  BY DEF Swapped, Away, Copies!Nil, Copies!Part
<1>11. Quiet'
  BY DEF Quiet, Copies!Busy
<1>12. PutBack'
  BY DEF PutBack, Returns, Restores, Restoring, Copies!Source
<1>13. QED BY <1>1, <1>2, <1>3, <1>4, <1>5, <1>6, <1>7, <1>8, <1>9, <1>10, <1>11,
      <1>12 DEF CopiesInv, Typed

LEMMA AskRestoreKeeps ==
  ASSUME CopiesInv, Copies!BackupsAssumption, NEW b \in Copies!Backup, Copies!AskRestore(b)
  PROVE  CopiesInv'
<1> SUFFICES ASSUME SiteTyped /\ StoreTyped /\ WorkTyped /\ SwapTyped /\ PastTyped /\ Stages /\
                    OneEach /\ Known /\ OwnDirs /\ OwnRun /\ NoHalf /\ Complete /\ Taking /\
                    Swapped /\ Quiet /\ PutBack
             PROVE  CopiesInv'
  BY DEF CopiesInv, Typed
<1>   root' = root /\ db' = db /\ status' = status /\ row' = row /\ disk' = disk /\
      bucket' = bucket /\ asking' = asking /\ run' = run /\ page' = page /\ staging' = staging /\
      aside' = aside /\ left' = left /\ was' = was /\ mixed' = mixed /\ parted' = parted /\
      cut' = cut /\ asked' = asked /\ runs' = runs /\ version' = version /\ troubles' = troubles
  BY DEF Copies!AskRestore, Copies!site, Copies!store, Copies!swap, Copies!history
<1>a. /\ row[b].status = "complete" /\ jobs' = jobs \cup {[kind |-> "restore", b |-> b]}
      /\ restores' \in 0..MaxRestores
      /\ \A w \in Worker : ~(run[w].kind = "restore" /\ run[w].b = b)
  BY CopyBounds DEF Copies!AskRestore, Copies!site, Copies!store, Copies!swap, Copies!history,
     PastTyped
<1>1. SiteTyped' /\ StoreTyped' /\ SwapTyped' /\ Known'
  BY DEF SiteTyped, StoreTyped, SwapTyped, Known
<1>2. WorkTyped'
  BY <1>a DEF WorkTyped, Copies!Busy
<1>3. PastTyped'
  BY <1>a DEF PastTyped, Half
<1>4. Stages'
  BY DEF Stages, Making, Restoring
<1>5. OneEach'
  <2>1. b <= asked
    BY <1>a DEF Known
  <2>2. \A c \in asking : [kind |-> "backup", b |-> c] \notin jobs'
    BY <1>a, Zenon DEF OneEach
  <2>3. \A j \in jobs' : j.b <= asked
    BY <1>a, <2>1 DEF OneEach
  <2>4. \A w \in Worker : Copies!Busy(w) => [kind |-> run[w].kind, b |-> run[w].b] \notin jobs'
    BY <1>a DEF OneEach
  <2>5. QED BY <2>2, <2>3, <2>4 DEF OneEach, Copies!Busy
<1>6. OwnDirs'
  BY DEF OwnDirs, Owned, Copies!TakenAt, Copies!NoDir
<1>7. OwnRun'
  BY DEF OwnRun, Owns, InDir, Restores, Making
<1>8. NoHalf'
  BY DEF NoHalf, Copies!Part, Copies!Nil
<1>9. Complete'
  BY Zenon DEF Complete, Holding, Stored, Both, Going, Copies!Removing, Copies!Gone
<1>10. Taking'
  BY SameTaking DEF Typed
<1>11. Swapped'
  BY DEF Swapped, Away, Copies!Nil, Copies!Part
<1>12. Quiet'
  BY DEF Quiet, Copies!Busy
<1>13. PutBack'
  BY DEF PutBack, Returns, Restores, Restoring, Copies!Source
<1>14. QED BY <1>1, <1>2, <1>3, <1>4, <1>5, <1>6, <1>7, <1>8, <1>9, <1>10, <1>11, <1>12,
      <1>13 DEF CopiesInv, Typed

LEMMA RemoveBeginKeeps ==
  ASSUME CopiesInv, Copies!BackupsAssumption, NEW b \in Copies!Backup, Copies!RemoveBegin(b)
  PROVE  CopiesInv'
<1> SUFFICES ASSUME SiteTyped /\ StoreTyped /\ WorkTyped /\ SwapTyped /\ PastTyped /\ Stages /\
                    OneEach /\ Known /\ OwnDirs /\ OwnRun /\ NoHalf /\ Complete /\ Taking /\
                    Swapped /\ Quiet /\ PutBack
             PROVE  CopiesInv'
  BY DEF CopiesInv, Typed
<1>   root' = root /\ db' = db /\ status' = status /\ row' = row /\ disk' = disk /\
      bucket' = bucket /\ jobs' = jobs /\ asking' = asking /\ run' = run /\ staging' = staging /\
      aside' = aside /\ left' = left /\ was' = was /\ mixed' = mixed /\ parted' = parted /\
      cut' = cut /\ asked' = asked /\ runs' = runs /\ restores' = restores /\
      version' = version /\ troubles' = troubles
  BY DEF Copies!RemoveBegin, Copies!site, Copies!store, Copies!queue, Copies!swap,
     Copies!history, Copies!bounds
<1>a. /\ page.at = "idle" /\ page' = [at |-> "files", b |-> b, dir |-> row[b].dir, key |-> row[b].key]
      /\ row[b] \in Record
  BY DEF Copies!RemoveBegin, Copies!site, Copies!store, Copies!queue, Copies!swap,
     Copies!history, Copies!bounds, StoreTyped
<1>b. /\ page'.at = "files" /\ page'.b = b /\ page'.dir = row[b].dir /\ page'.key = row[b].key /\ page' \in Removal
  BY <1>a DEF Removal, Record, Row
<1>c. \A c \in Copies!Backup : Going(c) => Going(c)'
  BY <1>a DEF Going, Copies!Removing
<1>d. \A c \in Copies!Backup : Holding(c) => Holding(c)'
  BY <1>c, StillHolding
<1>1. SiteTyped' /\ StoreTyped' /\ SwapTyped' /\ PastTyped' /\ Known'
  BY DEF SiteTyped, StoreTyped, SwapTyped, PastTyped, Known
<1>2. WorkTyped'
  BY <1>b DEF WorkTyped, Copies!Busy
<1>3. Stages'
  BY DEF Stages, Making, Restoring
<1>4. OneEach'
  BY DEF OneEach, Copies!Busy, Copies!Backup
<1>5. OwnDirs'
  BY <1>b DEF OwnDirs, Owned, Copies!TakenAt
<1>6. OwnRun'
  BY <1>b DEF OwnRun, Owns, InDir, Restores
<1>7. NoHalf'
  BY DEF NoHalf, Copies!Part, Copies!Nil
<1>8. Complete'
  BY <1>d DEF Complete
<1>9. Taking'
  <2> SUFFICES ASSUME NEW v \in Worker, run[v].kind = "backup" PROVE Takes(v)'
    BY DEF Taking
  <2>1. Takes(v) /\ run[v].b \in Copies!Backup
    BY DEF Taking, WorkTyped, Copies!Busy
  <2>2. QED BY <1>d, <2>1, OthersTake
<1>10. Swapped'
  BY DEF Swapped, Away, Copies!Nil, Copies!Part
<1>11. Quiet'
  BY DEF Quiet, Copies!Busy
<1>12. PutBack'
  BY DEF PutBack, Returns, Restores, Restoring, Copies!Source
<1>13. QED BY <1>1, <1>2, <1>3, <1>4, <1>5, <1>6, <1>7, <1>8, <1>9, <1>10, <1>11,
      <1>12 DEF CopiesInv, Typed

LEMMA RemoveFilesKeeps ==
  ASSUME CopiesInv, Copies!BackupsAssumption, Copies!RemoveFiles
  PROVE  CopiesInv'
<1> SUFFICES ASSUME SiteTyped /\ StoreTyped /\ WorkTyped /\ SwapTyped /\ PastTyped /\ Stages /\
                    OneEach /\ Known /\ OwnDirs /\ OwnRun /\ NoHalf /\ Complete /\ Taking /\
                    Swapped /\ Quiet /\ PutBack
             PROVE  CopiesInv'
  BY DEF CopiesInv, Typed
<1>   root' = root /\ db' = db /\ status' = status /\ row' = row /\ jobs' = jobs /\
      asking' = asking /\ run' = run /\ staging' = staging /\ aside' = aside /\ left' = left /\
      was' = was /\ mixed' = mixed /\ parted' = parted /\ cut' = cut /\ asked' = asked /\
      runs' = runs /\ restores' = restores /\ version' = version /\ troubles' = troubles
  BY DEF Copies!RemoveFiles, Copies!site, Copies!queue, Copies!swap, Copies!history,
     Copies!bounds
<1>a. /\ page.at = "files" /\ page' = [page EXCEPT !.at = "row"] /\ page.b \in Copies!Backup /\ page \in Removal
  BY DEF Copies!RemoveFiles, Copies!site, Copies!queue, Copies!swap, Copies!history,
     Copies!bounds, WorkTyped
<1>b. /\ page'.at = "row" /\ page'.b = page.b /\ page' \in Removal
  BY <1>a DEF Removal
<1>c. /\ page.dir # Copies!NoDir => disk'[page.dir] = Copies!Gone
      /\ page.key # Copies!NoDir => bucket'[page.key] = Copies!Gone
      /\ \A d \in Copies!Dir : /\ disk'[d] # disk[d] => d = page.dir
                               /\ bucket'[d] # bucket[d] => d = page.key
                               /\ disk'[d] \in {disk[d], Copies!Gone} /\ bucket'[d] \in {bucket[d], Copies!Gone}
      /\ disk' \in [Copies!Dir -> Held] /\ bucket' \in [Copies!Dir -> Held]
  <2>1. Copies!Gone \in Held
    BY DEF StoreTyped, Copies!Gone, Copies!NoCopy, Held, Half, Copies!Content
  <2>2. page.dir \in Copies!Dir \cup {Copies!NoDir} /\ page.key \in Copies!Dir \cup {Copies!NoDir}
    BY <1>a, CopyBounds DEF Removal, Copies!Dir, Copies!NoDir
  <2>3. disk' \in [Copies!Dir -> Held] /\ disk' = IF page.dir = Copies!NoDir THEN disk ELSE [disk EXCEPT ![page.dir] = Copies!Gone]
    BY <2>1, <2>2 DEF Copies!RemoveFiles, Copies!Without, StoreTyped
  <2>4. bucket' \in [Copies!Dir -> Held] /\ bucket' = IF page.key = Copies!NoDir THEN bucket ELSE [bucket EXCEPT ![page.key] = Copies!Gone]
    BY <2>1, <2>2 DEF Copies!RemoveFiles, Copies!Without, StoreTyped
  <2>5. QED BY <2>2, <2>3, <2>4 DEF StoreTyped
<1>d. \A c \in Copies!Backup : (Going(c) => Going(c)') /\ (c = page.b => Going(c)')
  BY <1>a, <1>b DEF Going, Copies!Removing
<1>e. \A b \in Copies!Backup : Copies!TakenAt(b) \in Copies!Dir /\ Holding(b) => Holding(b)'
  <2> SUFFICES ASSUME NEW b \in Copies!Backup, Copies!TakenAt(b) \in Copies!Dir, Holding(b) PROVE Holding(b)'
    OBVIOUS
  <2>1. page.dir # Copies!NoDir /\ row[b].dir = page.dir => b = page.b
    BY <1>a DEF OwnDirs, Owned
  <2>2. page.key # Copies!NoDir /\ row[b].key = page.key => b = page.b
    BY <1>a DEF OwnDirs, Owned
  <2>3. Copies!NoDir \notin Copies!Dir
    BY DEF Copies!NoDir, Copies!Dir
  <2>4. CASE b \in Remote
    BY <1>c, <1>d, <2>2, <2>3, <2>4, StillHolding DEF Copies!TakenAt
  <2>5. CASE b \notin Remote
    BY <1>c, <1>d, <2>1, <2>3, <2>5, StillHolding DEF Copies!TakenAt
  <2>6. QED BY <2>4, <2>5
<1>1. SiteTyped' /\ SwapTyped' /\ PastTyped' /\ Known'
  BY DEF SiteTyped, SwapTyped, PastTyped, Known
<1>2. StoreTyped'
  BY <1>c DEF StoreTyped
<1>3. WorkTyped'
  BY <1>a, <1>b DEF WorkTyped, Copies!Busy
<1>4. Stages'
  BY DEF Stages, Making, Restoring
<1>5. OneEach'
  BY DEF OneEach, Copies!Busy, Copies!Backup
<1>6. OwnDirs'
  BY <1>b DEF OwnDirs, Owned, Copies!TakenAt
<1>7. OwnRun'
  BY <1>b DEF OwnRun, Owns, InDir, Restores
<1>8. NoHalf'
  BY <1>c DEF NoHalf, Copies!Gone, Copies!NoCopy, Copies!Nil, Copies!Part
<1>9. Complete'
  BY <1>e, InPlace DEF Complete
<1>10. Taking'
  <2> SUFFICES ASSUME NEW v \in Worker, run[v].kind = "backup" PROVE Takes(v)'
    BY DEF Taking
  <2>1. Takes(v) /\ run[v].b \in Copies!Backup
    BY DEF Taking, WorkTyped, Copies!Busy
  <2>2. InDir(v) => /\ run[v].dir \in Copies!Dir
                    /\ run[v].at \in {"drop", "mark"} => page.key # run[v].dir
    BY <1>a, RunDir DEF OwnRun, Owns
  <2>3. QED BY <1>c, <1>e, <2>1, <2>2, OthersTake
<1>11. Swapped'
  BY DEF Swapped, Away, Copies!Nil, Copies!Part
<1>12. Quiet'
  BY DEF Quiet, Copies!Busy
<1>13. PutBack'
  <2> SUFFICES ASSUME ~mixed, NEW v \in Worker, Restores(v) PROVE Returns(v)'
    BY DEF PutBack, Restores
  <2>1. Returns(v) /\ run[v].dir \in Copies!Dir
    BY RunDir DEF PutBack
  <2>2. disk'[run[v].dir] \in {disk[run[v].dir], Copies!Gone} /\ bucket'[run[v].dir] \in {bucket[run[v].dir], Copies!Gone}
    BY <1>c, <2>1
  <2>3. Copies!Source(v)' \in {Copies!Source(v), Copies!NoCopy}
    BY <2>2 DEF Copies!Source, Copies!Gone
  <2>4. QED BY <2>1, <2>2, <2>3 DEF Returns
<1>14. QED BY <1>1, <1>2, <1>3, <1>4, <1>5, <1>6, <1>7, <1>8, <1>9, <1>10, <1>11, <1>12,
      <1>13 DEF CopiesInv, Typed

LEMMA RemoveRowKeeps ==
  ASSUME CopiesInv, Copies!BackupsAssumption, Copies!RemoveRow
  PROVE  CopiesInv'
<1> SUFFICES ASSUME SiteTyped /\ StoreTyped /\ WorkTyped /\ SwapTyped /\ PastTyped /\ Stages /\
                    OneEach /\ Known /\ OwnDirs /\ OwnRun /\ NoHalf /\ Complete /\ Taking /\
                    Swapped /\ Quiet /\ PutBack
             PROVE  CopiesInv'
  BY DEF CopiesInv, Typed
<1>   root' = root /\ db' = db /\ status' = status /\ disk' = disk /\ bucket' = bucket /\
      jobs' = jobs /\ asking' = asking /\ run' = run /\ staging' = staging /\ aside' = aside /\
      left' = left /\ was' = was /\ mixed' = mixed /\ parted' = parted /\ cut' = cut /\
      asked' = asked /\ runs' = runs /\ restores' = restores /\ version' = version /\
      troubles' = troubles
  BY DEF Copies!RemoveRow, Copies!site, Copies!queue, Copies!swap, Copies!history,
     Copies!bounds
<1>a. /\ page.at = "row" /\ page.b \in Copies!Backup /\ page' = Copies!NoPage
  BY DEF Copies!RemoveRow, Copies!site, Copies!queue, Copies!swap, Copies!history,
     Copies!bounds, WorkTyped
<1>b. /\ page'.at = "idle" /\ page' \in Removal
  BY <1>a, CopyBounds DEF Copies!NoPage, Removal, Row, Copies!NoDir
<1>c. /\ row' \in [Copies!Backup -> Record] /\ row'[page.b] = Copies!NoRow
      /\ \A c \in Copies!Backup : c # page.b => row'[c] = row[c]
  BY <1>a, CopyBounds DEF Copies!RemoveRow, Copies!site, Copies!queue, Copies!swap,
     Copies!history, Copies!bounds, StoreTyped, Copies!NoRow, Record, Copies!Status,
     Copies!NoDir
<1>d. \A b \in Copies!Backup : b # page.b /\ Going(b) => Going(b)'
  BY <1>a, <1>b DEF Going, Copies!Removing
<1>e. \A b \in Copies!Backup : b # page.b /\ Copies!TakenAt(b) \in Copies!Dir /\ Holding(b) => Holding(b)'
  BY <1>c, <1>d, StillHolding
<1>f. Copies!NoRow.status = "none" /\ Copies!NoRow.dir = Copies!NoDir /\ Copies!NoRow.key = Copies!NoDir
  BY DEF Copies!NoRow
<1>1. SiteTyped' /\ SwapTyped' /\ PastTyped'
  BY DEF SiteTyped, SwapTyped, PastTyped
<1>2. StoreTyped'
  BY <1>c DEF StoreTyped
<1>3. WorkTyped'
  BY <1>b DEF WorkTyped, Copies!Busy
<1>4. Stages'
  BY DEF Stages, Making, Restoring
<1>5. OneEach'
  BY DEF OneEach, Copies!Busy, Copies!Backup
<1>6. Known'
  BY <1>c, <1>f DEF Known
<1>7. OwnDirs'
  <2> SUFFICES ASSUME NEW b \in Copies!Backup PROVE Owned(b)'
    BY <1>b DEF OwnDirs
  <2>1. 0 <= runs
    BY DEF PastTyped
  <2>2. QED BY <1>b, <1>c, <1>f, <2>1 DEF OwnDirs, Owned, Copies!TakenAt, Copies!NoDir
<1>8. OwnRun'
  <2>2. \A v \in Worker : InDir(v) => run[v].b \in Copies!Backup /\ run[v].dir # Copies!NoDir
    BY RunDir DEF InDir, WorkTyped, Copies!Busy, Copies!Dir, Copies!NoDir
  <2>3. QED BY <1>b, <1>c, <1>f, <2>2 DEF OwnRun, Owns, InDir, Restores
<1>9. NoHalf'
  BY DEF NoHalf, Copies!Part, Copies!Nil
<1>10. Complete'
  BY <1>c, <1>e, <1>f, InPlace DEF Complete
<1>11. Taking'
  <2> SUFFICES ASSUME NEW v \in Worker, run[v].kind = "backup" PROVE Takes(v)'
    BY DEF Taking
  <2>1. Takes(v) /\ run[v].b \in Copies!Backup
    BY DEF Taking, WorkTyped, Copies!Busy
  <2>2. InDir(v) => run[v].dir \in Copies!Dir
    BY RunDir
  <2>3. QED BY <1>c, <1>e, <1>f, <2>1, <2>2, OthersTake
<1>12. Swapped'
  BY DEF Swapped, Away, Copies!Nil, Copies!Part
<1>13. Quiet'
  BY DEF Quiet, Copies!Busy
<1>14. PutBack'
  BY DEF PutBack, Returns, Restores, Restoring, Copies!Source
<1>15. QED BY <1>1, <1>2, <1>3, <1>4, <1>5, <1>6, <1>7, <1>8, <1>9, <1>10, <1>11, <1>12, <1>13,
      <1>14 DEF CopiesInv, Typed

LEMMA StartBackupKeeps ==
  ASSUME CopiesInv, Copies!BackupsAssumption, NEW w \in Worker, Copies!StartBackup(w)
  PROVE  CopiesInv'
<1>1. CASE row[run[w].b].status = "none"
  <2>1. StartedOnNothing(w)
    BY <1>1 DEF Copies!StartBackup, StartedOnNothing, Copies!site, Copies!store, Copies!queue,
       Copies!swap, Copies!history, Copies!bounds, Copies!steps
  <2>2. QED BY <2>1, StartedOnNothingKeeps
<1>2. CASE row[run[w].b].status # "none"
  <2>1. Started(w)
    BY <1>2 DEF Copies!StartBackup, Started
  <2>2. QED BY <2>1, StartedKeeps
<1>3. QED BY <1>1, <1>2

LEMMA ChangeKeeps ==
  ASSUME CopiesInv, Copies!BackupsAssumption, Copies!Change
  PROVE  CopiesInv'
<1> SUFFICES ASSUME SiteTyped /\ StoreTyped /\ WorkTyped /\ SwapTyped /\ PastTyped /\ Stages /\
                    OneEach /\ Known /\ OwnDirs /\ OwnRun /\ NoHalf /\ Complete /\ Taking /\
                    Swapped /\ Quiet /\ PutBack
             PROVE  CopiesInv'
  BY DEF CopiesInv, Typed
<1>   status' = status /\ row' = row /\ disk' = disk /\ bucket' = bucket /\ jobs' = jobs /\
      asking' = asking /\ run' = run /\ page' = page /\ staging' = staging /\ aside' = aside /\
      left' = left /\ was' = was /\ mixed' = mixed /\ parted' = parted /\ cut' = cut /\
      asked' = asked /\ runs' = runs /\ restores' = restores /\ troubles' = troubles
  BY DEF Copies!Change, Copies!store, Copies!queue, Copies!swap, Copies!history
<1>a. /\ root = db /\ root \in Copies!Version /\ status = "active" /\ root' = version' /\ db' = version'
      /\ version' \in 0..MaxVersion /\ \A w \in Worker : ~Copies!Busy(w)
  BY CopyBounds DEF Copies!Change, Copies!store, Copies!queue, Copies!swap, Copies!history,
     PastTyped
<1>b. root' # Copies!Nil /\ root' # Copies!Part /\ db' # Copies!Nil /\ root # Copies!Nil
  BY <1>a, CopyBounds DEF Copies!Nil, Copies!Part, Copies!Version
<1>1. SiteTyped'
  BY <1>a DEF SiteTyped, Copies!Content, Copies!Version
<1>2. StoreTyped' /\ WorkTyped' /\ SwapTyped' /\ Known'
  BY DEF StoreTyped, WorkTyped, Removal, Row, Copies!Busy, Copies!Backup, Copies!NoDir,
     SwapTyped, Known
<1>3. PastTyped'
  BY <1>a DEF PastTyped, Half, Copies!Content, Copies!Version
<1>4. Stages'
  BY DEF Stages, Making, Restoring
<1>5. OneEach'
  BY DEF OneEach, Copies!Busy, Copies!Backup
<1>6. OwnDirs'
  BY DEF OwnDirs, Owned, Copies!TakenAt, Copies!NoDir
<1>7. OwnRun'
  BY DEF OwnRun, Owns, InDir, Restores, Making
<1>8. NoHalf'
  BY <1>b DEF NoHalf
<1>9. Complete'
  BY Zenon DEF Complete, Holding, Stored, Both, Going, Copies!Removing, Copies!Gone
<1>10. Taking'
  BY <1>a DEF Taking, Copies!Busy
<1>11. Swapped'
  BY <1>b DEF Swapped, Away
<1>12. Quiet'
  BY <1>a DEF Quiet, Copies!Busy
<1>13. PutBack'
  BY <1>a DEF PutBack, Restores, Copies!Busy
<1>14. QED BY <1>1, <1>2, <1>3, <1>4, <1>5, <1>6, <1>7, <1>8, <1>9, <1>10, <1>11, <1>12,
      <1>13 DEF CopiesInv, Typed

LEMMA TakeBackupJobKeeps ==
  ASSUME CopiesInv, Copies!BackupsAssumption, NEW w \in Worker, NEW j \in jobs, Copies!TakeJob(w, j)
  PROVE  CopiesInv'
<1> SUFFICES ASSUME SiteTyped /\ StoreTyped /\ WorkTyped /\ SwapTyped /\ PastTyped /\ Stages /\
                    OneEach /\ Known /\ OwnDirs /\ OwnRun /\ NoHalf /\ Complete /\ Taking /\
                    Swapped /\ Quiet /\ PutBack
             PROVE  CopiesInv'
  BY DEF CopiesInv, Typed
<1>   root' = root /\ db' = db /\ status' = status /\ row' = row /\ disk' = disk /\
      bucket' = bucket /\ asking' = asking /\ page' = page /\ staging' = staging /\
      aside' = aside /\ left' = left /\ was' = was /\ parted' = parted /\ cut' = cut /\
      asked' = asked /\ runs' = runs /\ restores' = restores /\ version' = version /\
      troubles' = troubles
  BY DEF Copies!TakeJob, Copies!site, Copies!store, Copies!swap, Copies!bounds
<1>a. /\ ~Copies!Busy(w) /\ jobs' = jobs \ {j} /\ j.kind \in {"backup", "restore"} /\ j.b \in Copies!Backup
      /\ j = [kind |-> j.kind, b |-> j.b] /\ mixed' \in BOOLEAN /\ (mixed => mixed')
      /\ run[w].at = "idle" /\ run[w].kind = "none"
      /\ ~mixed' => \A v \in Worker : Copies!Busy(v) => j.kind # "restore" /\ run[v].kind # "restore" 
  BY Zenon DEF Copies!TakeJob, Copies!site, Copies!store, Copies!swap, Copies!bounds,
     WorkTyped, PastTyped, Copies!Busy, Stages
<1>b. /\ run' \in [Worker -> Place] /\ run'[w].kind = j.kind /\ run'[w].b = j.b /\ run'[w].at = "begin"
      /\ run'[w].got.files = Copies!Nil
      /\ \A v \in Worker : v # w => run'[v] = run[v]
  <2>1. Copies!Idle \in Place
    BY CopyBounds DEF Copies!Idle, Place, Row, Copies!At, Copies!NoCopy, Half, Copies!Content,
       Copies!Nil, Copies!NoDir, Copies!Backup
  <2> DEFINE new == [Copies!Idle EXCEPT !.kind = j.kind, !.b = j.b, !.at = "begin"]
  <2>2. new \in Place /\ new.kind = j.kind /\ new.b = j.b /\ new.at = "begin" /\ new.got.files = Copies!Nil
    BY <1>a, <2>1, Zenon DEF Place, Row, Copies!At, Copies!Idle, Copies!NoCopy
  <2>3. run' = [run EXCEPT ![w] = new]
    BY DEF Copies!TakeJob
  <2> HIDE DEF new
  <2>4. QED BY <2>2, <2>3 DEF WorkTyped
<1>c. /\ \A v \in Worker : run'[v].kind # "none" => v = w \/ (v # w /\ Copies!Busy(v) /\ run'[v] = run[v])
      /\ \A v \in Worker : (Restores(v)' => Restores(v) /\ run'[v] = run[v]) /\ (InDir(v)' => InDir(v) /\ run'[v] = run[v])
  BY <1>a, <1>b DEF Copies!Busy, Restores, InDir, Making
<1>d. \A b \in Copies!Backup : Going(b) => Going(b)'
  BY <1>a, <1>b DEF Going, Copies!Removing
<1>e. \A b \in Copies!Backup : Copies!TakenAt(b) \in Copies!Dir /\ Holding(b) => Holding(b)'
  BY <1>a, <1>d, StillHolding
<1>1. SiteTyped' /\ StoreTyped' /\ SwapTyped' /\ Known'
  BY DEF SiteTyped, StoreTyped, SwapTyped, Known
<1>2. WorkTyped'
  BY <1>a, <1>b DEF WorkTyped, Copies!Busy
<1>3. PastTyped'
  BY <1>a DEF PastTyped
<1>4. Stages'
  BY <1>a, <1>b DEF Stages, Making, Restoring
<1>5. OneEach'
  BY <1>a, <1>b, <1>c DEF OneEach, Copies!Busy
<1>6. OwnDirs'
  BY DEF OwnDirs, Owned, Copies!TakenAt, Copies!NoDir
<1>7. OwnRun'
  BY <1>c DEF OwnRun, Owns
<1>8. NoHalf'
  BY <1>b DEF NoHalf, Copies!Nil, Copies!Part
<1>9. Complete'
  BY <1>e, InPlace DEF Complete
<1>10. Taking'
  <2> SUFFICES ASSUME NEW v \in Worker, run'[v].kind = "backup" PROVE Takes(v)'
    BY DEF Taking
  <2>1. CASE v = w
    BY <1>b, <2>1 DEF Takes, Making
  <2>2. CASE v # w
    <3>1. run[v].kind = "backup" /\ Takes(v) /\ run'[v] = run[v] /\ run[v].b \in Copies!Backup
      BY <1>b, <2>2 DEF Taking, WorkTyped, Copies!Busy
    <3>2. InDir(v) => run[v].dir \in Copies!Dir
      BY RunDir
    <3>3. QED BY <1>a, <1>e, <3>1, <3>2, OthersTake
  <2>3. QED BY <2>1, <2>2
<1>11. Swapped'
  BY <1>a, <1>b DEF Swapped, Away
<1>12. Quiet'
  <2>1. CASE mixed'
    BY <2>1 DEF Quiet
  <2>2. CASE ~mixed'
    BY <1>a, <1>b, <1>c, <2>2 DEF Quiet, Copies!Busy
  <2>3. QED BY <2>1, <2>2
<1>13. PutBack'
  <2> SUFFICES ASSUME ~mixed', NEW v \in Worker, Restores(v)' PROVE Returns(v)'
    BY DEF PutBack
  <2>1. Restores(v) /\ run'[v] = run[v] /\ Returns(v)
    BY <1>a, <1>c DEF PutBack
  <2>2. QED BY <2>1 DEF Returns, Copies!Source
<1>14. QED BY <1>1, <1>2, <1>3, <1>4, <1>5, <1>6, <1>7, <1>8, <1>9, <1>10, <1>11, <1>12,
      <1>13 DEF CopiesInv, Typed

LEMMA ExtractKeeps ==
  ASSUME CopiesInv, Copies!BackupsAssumption, NEW w \in Worker, Copies!Extract(w)
  PROVE  CopiesInv'
<1> SUFFICES ASSUME SiteTyped /\ StoreTyped /\ WorkTyped /\ SwapTyped /\ PastTyped /\ Stages /\
                    OneEach /\ Known /\ OwnDirs /\ OwnRun /\ NoHalf /\ Complete /\ Taking /\
                    Swapped /\ Quiet /\ PutBack
             PROVE  CopiesInv'
  BY DEF CopiesInv, Typed
<1>   root' = root /\ db' = db /\ status' = status /\ row' = row /\ disk' = disk /\
      bucket' = bucket /\ jobs' = jobs /\ asking' = asking /\ page' = page /\ aside' = aside /\
      left' = left /\ was' = was /\ mixed' = mixed /\ parted' = parted /\ cut' = cut /\
      asked' = asked /\ runs' = runs /\ restores' = restores /\ version' = version /\
      troubles' = troubles
  BY DEF Copies!Extract, Copies!site, Copies!store, Copies!queue, Copies!history,
     Copies!copies, Copies!caps
<1>a. Copies!Goto(w, "extracted") /\ run[w].kind = "restore" /\ run[w].at = "extract"
  BY DEF Copies!Extract, Copies!site, Copies!store, Copies!queue, Copies!history,
     Copies!copies, Copies!caps, Copies!Doing
<1>b. /\ run' \in [Worker -> Place]
      /\ run'[w].at = "extracted" /\ run'[w].kind = "restore"
      /\ run'[w].b = run[w].b /\ run'[w].dir = run[w].dir
      /\ run'[w].got = run[w].got
      /\ \A v \in Worker : v # w => run'[v] = run[v]
      /\ \A v \in Worker : run'[v].kind = run[v].kind /\ run'[v].b = run[v].b
            /\ (run'[v].at = "unrow" => run'[v].old \in Copies!Backup)
  BY <1>a, GotoIs DEF Copies!At
<1>c. run[w].dir \in Copies!Dir /\ run[w].b \in Copies!Backup /\ Restores(w) /\ ~InDir(w) /\ Copies!Busy(w) /\ run[w] \in Place
  BY <1>a, RunDir DEF Restores, InDir, WorkTyped, Copies!Busy
<1>d. \A v \in Worker : /\ InDir(v)' => InDir(v) /\ run'[v] = run[v] /\ v # w
                        /\ Restores(v)' => Restores(v) /\ run'[v].dir = run[v].dir
                        /\ run'[v].kind = "backup" => run'[v] = run[v] /\ v # w
  BY <1>a, <1>b, <1>c DEF Restores, InDir
<1>e. ~mixed => \A v \in Worker : Copies!Busy(v) => v = w
  BY <1>a, <1>c DEF Quiet
<1>f. \A b \in Copies!Backup : Going(b) => Going(b)'
  BY <1>a, <1>b DEF Going, Copies!Removing
<1>g. \A b \in Copies!Backup : Copies!TakenAt(b) \in Copies!Dir /\ Holding(b) => Holding(b)'
  BY <1>f, StillHolding
<1>h. staging' = [staging EXCEPT ![run[w].b] = Copies!Part]
  BY DEF Copies!Extract, Copies!site, Copies!store, Copies!queue, Copies!history,
     Copies!copies, Copies!caps
<1>i. staging' \in [Copies!Backup -> Copies!Content] /\ \A b \in Copies!Backup : b # run[w].b => staging'[b] = staging[b]
  BY <1>h, Zenon DEF SwapTyped, Copies!Content
<1>1. SiteTyped' /\ StoreTyped' /\ PastTyped' /\ Known'
  BY DEF SiteTyped, StoreTyped, PastTyped, Known
<1>2. WorkTyped'
  BY <1>b DEF WorkTyped, Copies!Busy
<1>3. SwapTyped'
  BY <1>i DEF SwapTyped
<1>4. Stages'
  BY <1>a, <1>b DEF Stages, Making, Restoring
<1>5. OneEach'
  BY <1>a, <1>b DEF OneEach, Copies!Busy
<1>6. OwnDirs'
  BY DEF OwnDirs, Owned, Copies!TakenAt, Copies!NoDir
<1>7. OwnRun'
  BY <1>d DEF OwnRun, Owns
<1>8. NoHalf'
  BY <1>b DEF NoHalf, Copies!Part, Copies!Nil
<1>9. Complete'
  BY <1>g, InPlace DEF Complete
<1>10. Taking'
  <2> SUFFICES ASSUME NEW v \in Worker, run'[v].kind = "backup" PROVE Takes(v)'
    BY DEF Taking
  <2>1. v # w /\ run[v].kind = "backup" /\ run'[v] = run[v] /\ Takes(v) /\ run[v].b \in Copies!Backup /\ mixed
    BY <1>d, <1>e DEF Taking, WorkTyped, Copies!Busy
  <2>2. InDir(v) => run[v].dir \in Copies!Dir
    BY RunDir
  <2>3. QED BY <1>g, <2>1, <2>2, OthersTake
<1>11. Swapped'
  <2>1. \A v \in Worker : v # w /\ run[v].at \in {"away", "in"} => staging'[run[v].b] = staging[run[v].b]
    <3> SUFFICES ASSUME NEW v \in Worker, v # w, run[v].at \in {"away", "in"}
                 PROVE  staging'[run[v].b] = staging[run[v].b]
      OBVIOUS
    <3>1. run[v].kind \in {"none", "backup", "restore"}
      BY DEF WorkTyped, Place
    <3>2. run[v].kind = "restore"
      BY <3>1 DEF Stages, Making
    <3>3. Copies!Busy(v) /\ Copies!Busy(w) /\ run[w].kind = "restore"
      BY <1>a, <3>2 DEF Copies!Busy
    <3>4. run[v].b # run[w].b /\ run[v].b \in Copies!Backup
      BY <3>2, <3>3, Zenon DEF OneEach, WorkTyped
    <3>5. QED BY <1>i, <3>4
  <2>2. QED BY <1>a, <1>b, <2>1 DEF Swapped, Away
<1>12. Quiet'
  <2>1. CASE mixed'
    BY <2>1 DEF Quiet
  <2>2. CASE ~mixed'
    BY <1>b, <1>c, <1>e, <2>2 DEF Quiet, Copies!Busy, PutBack, Returns
  <2>3. QED BY <2>1, <2>2
<1>13. PutBack'
  <2> SUFFICES ASSUME ~mixed, NEW v \in Worker, Restores(v)' PROVE Returns(v)'
    BY DEF PutBack
  <2>1. v = w /\ Returns(w)
    BY <1>c, <1>d, <1>e DEF PutBack, Restores, Copies!Busy
  <2>2. QED BY <1>a, <1>b, <2>1 DEF Returns, Copies!Source, Restoring
<1>14. QED BY <1>1, <1>2, <1>3, <1>4, <1>5, <1>6, <1>7, <1>8, <1>9, <1>10, <1>11, <1>12,
      <1>13 DEF CopiesInv, Typed

LEMMA ExtractedKeeps ==
  ASSUME CopiesInv, Copies!BackupsAssumption, NEW w \in Worker, Copies!Extracted(w)
  PROVE  CopiesInv'
<1> SUFFICES ASSUME SiteTyped /\ StoreTyped /\ WorkTyped /\ SwapTyped /\ PastTyped /\ Stages /\
                    OneEach /\ Known /\ OwnDirs /\ OwnRun /\ NoHalf /\ Complete /\ Taking /\
                    Swapped /\ Quiet /\ PutBack
             PROVE  CopiesInv'
  BY DEF CopiesInv, Typed
<1>   root' = root /\ db' = db /\ status' = status /\ row' = row /\ disk' = disk /\
      bucket' = bucket /\ jobs' = jobs /\ asking' = asking /\ page' = page /\ aside' = aside /\
      left' = left /\ was' = was /\ mixed' = mixed /\ parted' = parted /\ cut' = cut /\
      asked' = asked /\ runs' = runs /\ restores' = restores /\ version' = version
  BY DEF Copies!Extracted, Copies!site, Copies!store, Copies!queue, Copies!history,
     Copies!copies, Copies!caps
<1>a. (Copies!Goto(w, "away") \/ Copies!Goto(w, "fail")) /\ run[w].kind = "restore" /\ run[w].at = "extracted"
  BY DEF Copies!Extracted, Copies!site, Copies!store, Copies!queue, Copies!history,
     Copies!copies, Copies!caps, Copies!Doing
<1>b. /\ run' \in [Worker -> Place]
      /\ run'[w].at \in {"away", "fail"} /\ run'[w].kind = "restore"
      /\ run'[w].b = run[w].b /\ run'[w].dir = run[w].dir
      /\ run'[w].got = run[w].got
      /\ \A v \in Worker : v # w => run'[v] = run[v]
      /\ \A v \in Worker : run'[v].kind = run[v].kind /\ run'[v].b = run[v].b
            /\ (run'[v].at = "unrow" => run'[v].old \in Copies!Backup)
  BY <1>a, GotoIs DEF Copies!At
<1>c. run[w].dir \in Copies!Dir /\ run[w].b \in Copies!Backup /\ Restores(w) /\ ~InDir(w) /\ Copies!Busy(w) /\ run[w] \in Place
  BY <1>a, RunDir DEF Restores, InDir, WorkTyped, Copies!Busy
<1>d. \A v \in Worker : /\ InDir(v)' => InDir(v) /\ run'[v] = run[v] /\ v # w
                        /\ Restores(v)' => Restores(v) /\ run'[v].dir = run[v].dir
                        /\ run'[v].kind = "backup" => run'[v] = run[v] /\ v # w
  BY <1>a, <1>b, <1>c DEF Restores, InDir
<1>e. ~mixed => \A v \in Worker : Copies!Busy(v) => v = w
  BY <1>a, <1>c DEF Quiet
<1>f. \A b \in Copies!Backup : Going(b) => Going(b)'
  BY <1>a, <1>b DEF Going, Copies!Removing
<1>g. \A b \in Copies!Backup : Copies!TakenAt(b) \in Copies!Dir /\ Holding(b) => Holding(b)'
  BY <1>f, StillHolding
<1>h. troubles' \in 0..MaxTroubles
  BY CopyBounds DEF Copies!Extracted, Copies!site, Copies!store, Copies!queue, Copies!history,
     Copies!copies, Copies!caps, Copies!Trouble, PastTyped
<1>i. /\ staging' \in [Copies!Backup -> Copies!Content] /\ \A b \in Copies!Backup : b # run[w].b => staging'[b] = staging[b]
      /\ run'[w].at = "away" => Copies!Source(w).files # Copies!Nil /\ staging'[run[w].b] = Copies!Source(w).files /\ Copies!Source(w).files # Copies!Part
  <2>1. CASE /\ Copies!Source(w).files # Copies!Nil /\ Copies!Goto(w, "away")
             /\ staging' = [staging EXCEPT ![run[w].b] = Copies!Source(w).files]
    <3>1. Copies!Source(w).files \in Copies!Content /\ Copies!Source(w).files # Copies!Part
      BY <1>c DEF Copies!Source, StoreTyped, Held, Half, Place, NoHalf
    <3>2. QED BY <1>c, <2>1, <3>1 DEF SwapTyped
  <2>2. CASE /\ Copies!Goto(w, "fail")
             /\ staging' = [staging EXCEPT ![run[w].b] = Copies!Nil]
    <3>1. run'[w].at = "fail"
      BY <2>2, GotoIs DEF Copies!At
    <3>2. QED BY <1>c, <2>2, <3>1 DEF SwapTyped, Copies!Content
  <2>3. QED BY <2>1, <2>2 DEF Copies!Extracted
<1>1. SiteTyped' /\ StoreTyped' /\ Known'
  BY DEF SiteTyped, StoreTyped, Known
<1>2. WorkTyped'
  BY <1>b DEF WorkTyped, Copies!Busy
<1>3. SwapTyped'
  BY <1>i DEF SwapTyped
<1>4. PastTyped'
  BY <1>h DEF PastTyped
<1>5. Stages'
  BY <1>a, <1>b DEF Stages, Making, Restoring
<1>6. OneEach'
  BY <1>a, <1>b DEF OneEach, Copies!Busy
<1>7. OwnDirs'
  BY DEF OwnDirs, Owned, Copies!TakenAt, Copies!NoDir
<1>8. OwnRun'
  BY <1>d DEF OwnRun, Owns
<1>9. NoHalf'
  BY <1>b DEF NoHalf, Copies!Part, Copies!Nil
<1>10. Complete'
  BY <1>g, InPlace DEF Complete
<1>11. Taking'
  <2> SUFFICES ASSUME NEW v \in Worker, run'[v].kind = "backup" PROVE Takes(v)'
    BY DEF Taking
  <2>1. v # w /\ run[v].kind = "backup" /\ run'[v] = run[v] /\ Takes(v) /\ run[v].b \in Copies!Backup /\ mixed
    BY <1>d, <1>e DEF Taking, WorkTyped, Copies!Busy
  <2>2. InDir(v) => run[v].dir \in Copies!Dir
    BY RunDir
  <2>3. QED BY <1>g, <2>1, <2>2, OthersTake
<1>12. Swapped'
  <2>1. \A v \in Worker : v # w /\ run[v].at \in {"away", "in"} => staging'[run[v].b] = staging[run[v].b]
    <3> SUFFICES ASSUME NEW v \in Worker, v # w, run[v].at \in {"away", "in"}
                 PROVE  staging'[run[v].b] = staging[run[v].b]
      OBVIOUS
    <3>1. run[v].kind \in {"none", "backup", "restore"}
      BY DEF WorkTyped, Place
    <3>2. run[v].kind = "restore"
      BY <3>1 DEF Stages, Making
    <3>3. Copies!Busy(v) /\ Copies!Busy(w) /\ run[w].kind = "restore"
      BY <1>a, <3>2 DEF Copies!Busy
    <3>4. run[v].b # run[w].b /\ run[v].b \in Copies!Backup
      BY <3>2, <3>3, Zenon DEF OneEach, WorkTyped
    <3>5. QED BY <1>i, <3>4
  <2>2. QED BY <1>a, <1>b, <1>c, <1>i, <2>1 DEF Swapped, Away
<1>13. Quiet'
  <2>1. CASE mixed'
    BY <2>1 DEF Quiet
  <2>2. CASE ~mixed'
    BY <1>b, <1>c, <1>e, <2>2 DEF Quiet, Copies!Busy, PutBack, Returns
  <2>3. QED BY <2>1, <2>2
<1>14. PutBack'
  <2> SUFFICES ASSUME ~mixed, NEW v \in Worker, Restores(v)' PROVE Returns(v)'
    BY DEF PutBack
  <2>1. v = w /\ Returns(w)
    BY <1>c, <1>d, <1>e DEF PutBack, Restores, Copies!Busy
  <2>2. QED BY <1>a, <1>b, <2>1, <1>i DEF Returns, Copies!Source, Restoring, Copies!NoCopy
<1>15. QED BY <1>1, <1>2, <1>3, <1>4, <1>5, <1>6, <1>7, <1>8, <1>9, <1>10, <1>11, <1>12, <1>13,
      <1>14 DEF CopiesInv, Typed

LEMMA MoveAsideKeeps ==
  ASSUME CopiesInv, Copies!BackupsAssumption, NEW w \in Worker, Copies!MoveAside(w)
  PROVE  CopiesInv'
<1> SUFFICES ASSUME SiteTyped /\ StoreTyped /\ WorkTyped /\ SwapTyped /\ PastTyped /\ Stages /\
                    OneEach /\ Known /\ OwnDirs /\ OwnRun /\ NoHalf /\ Complete /\ Taking /\
                    Swapped /\ Quiet /\ PutBack
             PROVE  CopiesInv'
  BY DEF CopiesInv, Typed
<1>   db' = db /\ status' = status /\ row' = row /\ disk' = disk /\ bucket' = bucket /\
      jobs' = jobs /\ asking' = asking /\ page' = page /\ staging' = staging /\ left' = left /\
      was' = was /\ mixed' = mixed /\ parted' = parted /\ cut' = cut /\ asked' = asked /\
      runs' = runs /\ restores' = restores /\ version' = version
  BY DEF Copies!MoveAside, Copies!store, Copies!queue, Copies!history, Copies!copies,
     Copies!caps
<1>a. (Copies!Goto(w, "in") \/ Copies!Goto(w, "back")) /\ run[w].kind = "restore" /\ run[w].at = "away"
  BY DEF Copies!MoveAside, Copies!store, Copies!queue, Copies!history, Copies!copies,
     Copies!caps, Copies!Doing
<1>b. /\ run' \in [Worker -> Place]
      /\ run'[w].at \in {"in", "back"} /\ run'[w].kind = "restore"
      /\ run'[w].b = run[w].b /\ run'[w].dir = run[w].dir
      /\ run'[w].got = run[w].got
      /\ \A v \in Worker : v # w => run'[v] = run[v]
      /\ \A v \in Worker : run'[v].kind = run[v].kind /\ run'[v].b = run[v].b
            /\ (run'[v].at = "unrow" => run'[v].old \in Copies!Backup)
  BY <1>a, GotoIs DEF Copies!At
<1>c. run[w].dir \in Copies!Dir /\ run[w].b \in Copies!Backup /\ Restores(w) /\ ~InDir(w) /\ Copies!Busy(w) /\ run[w] \in Place
  BY <1>a, RunDir DEF Restores, InDir, WorkTyped, Copies!Busy
<1>d. \A v \in Worker : /\ InDir(v)' => InDir(v) /\ run'[v] = run[v] /\ v # w
                        /\ Restores(v)' => Restores(v) /\ run'[v].dir = run[v].dir
                        /\ run'[v].kind = "backup" => run'[v] = run[v] /\ v # w
  BY <1>a, <1>b, <1>c DEF Restores, InDir
<1>e. ~mixed => \A v \in Worker : Copies!Busy(v) => v = w
  BY <1>a, <1>c DEF Quiet
<1>f. \A b \in Copies!Backup : Going(b) => Going(b)'
  BY <1>a, <1>b DEF Going, Copies!Removing
<1>g. \A b \in Copies!Backup : Copies!TakenAt(b) \in Copies!Dir /\ Holding(b) => Holding(b)'
  BY <1>f, StillHolding
<1>h. troubles' \in 0..MaxTroubles
  BY CopyBounds DEF Copies!MoveAside, Copies!store, Copies!queue, Copies!history,
     Copies!copies, Copies!caps, Copies!Trouble, PastTyped
<1>i. \/ /\ root # Copies!Nil /\ aside' = [aside EXCEPT ![w] = root] /\ root' = Copies!Nil /\ run'[w].at = "in"
      \/ /\ aside' = aside /\ root' = root /\ run'[w].at = "back"
  <2>1. \A s \in {"in", "back"} : Copies!Goto(w, s) => run'[w].at = s
    BY GotoIs DEF Copies!At
  <2>2. QED BY <2>1 DEF Copies!MoveAside
<1>1. SiteTyped'
  BY <1>i DEF SiteTyped, Copies!Content
<1>2. StoreTyped' /\ Known'
  BY DEF StoreTyped, Known
<1>3. WorkTyped'
  BY <1>b DEF WorkTyped, Copies!Busy
<1>4. SwapTyped'
  BY <1>i DEF SwapTyped, SiteTyped
<1>5. PastTyped'
  BY <1>h DEF PastTyped
<1>6. Stages'
  BY <1>a, <1>b DEF Stages, Making, Restoring
<1>7. OneEach'
  BY <1>a, <1>b DEF OneEach, Copies!Busy
<1>8. OwnDirs'
  BY DEF OwnDirs, Owned, Copies!TakenAt, Copies!NoDir
<1>9. OwnRun'
  BY <1>d DEF OwnRun, Owns
<1>10. NoHalf'
  BY <1>b, <1>i DEF NoHalf, Copies!Part, Copies!Nil, SwapTyped
<1>11. Complete'
  BY <1>g, InPlace DEF Complete
<1>12. Taking'
  <2> SUFFICES ASSUME NEW v \in Worker, run'[v].kind = "backup" PROVE Takes(v)'
    BY DEF Taking
  <2>1. v # w /\ run[v].kind = "backup" /\ run'[v] = run[v] /\ Takes(v) /\ run[v].b \in Copies!Backup /\ mixed
    BY <1>d, <1>e DEF Taking, WorkTyped, Copies!Busy
  <2>2. InDir(v) => run[v].dir \in Copies!Dir
    BY RunDir
  <2>3. QED BY <1>g, <2>1, <2>2, OthersTake
<1>13. Swapped'
  <2>1. aside[w] = Copies!Nil
    BY <1>a DEF Swapped
  <2>2. CASE root # Copies!Nil /\ aside' = [aside EXCEPT ![w] = root] /\ root' = Copies!Nil /\ run'[w].at = "in"
    <3>1. aside'[w] = root /\ \A v \in Worker : v # w => aside'[v] = aside[v]
      BY <2>2 DEF SwapTyped
    <3>2. QED BY <1>a, <1>b, <1>c, <2>1, <2>2, <3>1 DEF Swapped, Away
  <2>3. CASE aside' = aside /\ root' = root /\ run'[w].at = "back"
    BY <1>a, <1>b, <1>c, <2>1, <2>3 DEF Swapped, Away
  <2>4. QED BY <1>i, <2>2, <2>3
<1>14. Quiet'
  <2>1. CASE mixed'
    BY <2>1 DEF Quiet
  <2>2. CASE ~mixed'
    BY <1>b, <1>c, <1>e, <2>2 DEF Quiet, Copies!Busy, PutBack, Returns
  <2>3. QED BY <2>1, <2>2
<1>15. PutBack'
  <2> SUFFICES ASSUME ~mixed, NEW v \in Worker, Restores(v)' PROVE Returns(v)'
    BY DEF PutBack
  <2>1. v = w /\ Returns(w)
    BY <1>c, <1>d, <1>e DEF PutBack, Restores, Copies!Busy
  <2>2. QED BY <1>a, <1>b, <2>1, <1>i DEF Returns, Copies!Source, Restoring
<1>16. QED BY <1>1, <1>2, <1>3, <1>4, <1>5, <1>6, <1>7, <1>8, <1>9, <1>10, <1>11, <1>12, <1>13,
      <1>14, <1>15 DEF CopiesInv, Typed

LEMMA MoveInKeeps ==
  ASSUME CopiesInv, Copies!BackupsAssumption, NEW w \in Worker, Copies!MoveIn(w)
  PROVE  CopiesInv'
<1> SUFFICES ASSUME SiteTyped /\ StoreTyped /\ WorkTyped /\ SwapTyped /\ PastTyped /\ Stages /\
                    OneEach /\ Known /\ OwnDirs /\ OwnRun /\ NoHalf /\ Complete /\ Taking /\
                    Swapped /\ Quiet /\ PutBack
             PROVE  CopiesInv'
  BY DEF CopiesInv, Typed
<1>   db' = db /\ status' = status /\ row' = row /\ disk' = disk /\ bucket' = bucket /\
      jobs' = jobs /\ asking' = asking /\ page' = page /\ aside' = aside /\ left' = left /\
      was' = was /\ mixed' = mixed /\ parted' = parted /\ cut' = cut /\ asked' = asked /\
      runs' = runs /\ restores' = restores /\ version' = version
  BY DEF Copies!MoveIn, Copies!store, Copies!queue, Copies!history, Copies!copies, Copies!caps
<1>a. (Copies!Goto(w, "tidy") \/ Copies!Goto(w, "back")) /\ run[w].kind = "restore" /\ run[w].at = "in"
  BY DEF Copies!MoveIn, Copies!store, Copies!queue, Copies!history, Copies!copies, Copies!caps,
     Copies!Doing
<1>b. /\ run' \in [Worker -> Place]
      /\ run'[w].at \in {"tidy", "back"} /\ run'[w].kind = "restore"
      /\ run'[w].b = run[w].b /\ run'[w].dir = run[w].dir
      /\ run'[w].got = run[w].got
      /\ \A v \in Worker : v # w => run'[v] = run[v]
      /\ \A v \in Worker : run'[v].kind = run[v].kind /\ run'[v].b = run[v].b
            /\ (run'[v].at = "unrow" => run'[v].old \in Copies!Backup)
  BY <1>a, GotoIs DEF Copies!At
<1>c. run[w].dir \in Copies!Dir /\ run[w].b \in Copies!Backup /\ Restores(w) /\ ~InDir(w) /\ Copies!Busy(w) /\ run[w] \in Place
  BY <1>a, RunDir DEF Restores, InDir, WorkTyped, Copies!Busy
<1>d. \A v \in Worker : /\ InDir(v)' => InDir(v) /\ run'[v] = run[v] /\ v # w
                        /\ Restores(v)' => Restores(v) /\ run'[v].dir = run[v].dir
                        /\ run'[v].kind = "backup" => run'[v] = run[v] /\ v # w
  BY <1>a, <1>b, <1>c DEF Restores, InDir
<1>e. ~mixed => \A v \in Worker : Copies!Busy(v) => v = w
  BY <1>a, <1>c DEF Quiet
<1>f. \A b \in Copies!Backup : Going(b) => Going(b)'
  BY <1>a, <1>b DEF Going, Copies!Removing
<1>g. \A b \in Copies!Backup : Copies!TakenAt(b) \in Copies!Dir /\ Holding(b) => Holding(b)'
  BY <1>f, StillHolding
<1>h. troubles' \in 0..MaxTroubles
  BY CopyBounds DEF Copies!MoveIn, Copies!store, Copies!queue, Copies!history, Copies!copies,
     Copies!caps, Copies!Trouble, PastTyped
<1>i. \/ root' = staging[run[w].b] /\ staging' = [staging EXCEPT ![run[w].b] = Copies!Nil] /\ run'[w].at = "tidy"
      \/ root' = root /\ staging' = staging /\ run'[w].at = "back" 
  <2>1. \A s \in {"tidy", "back"} : Copies!Goto(w, s) => run'[w].at = s
    BY GotoIs DEF Copies!At
  <2>2. QED BY <2>1 DEF Copies!MoveIn
<1>j. /\ staging' \in [Copies!Backup -> Copies!Content] /\ root' \in Copies!Content /\ root' # Copies!Part
      /\ \A b \in Copies!Backup : b # run[w].b => staging'[b] = staging[b]
      /\ run'[w].at = "tidy" => root' = staging[run[w].b] /\ root' # Copies!Nil
      /\ run'[w].at = "back" => root' = root
  BY <1>a, <1>c, <1>i DEF SwapTyped, SiteTyped, Copies!Content, Swapped, NoHalf
<1>1. SiteTyped'
  BY <1>j DEF SiteTyped
<1>2. StoreTyped' /\ Known'
  BY DEF StoreTyped, Known
<1>3. WorkTyped'
  BY <1>b DEF WorkTyped, Copies!Busy
<1>4. SwapTyped'
  BY <1>j DEF SwapTyped
<1>5. PastTyped'
  BY <1>h DEF PastTyped
<1>6. Stages'
  BY <1>a, <1>b DEF Stages, Making, Restoring
<1>7. OneEach'
  BY <1>a, <1>b DEF OneEach, Copies!Busy
<1>8. OwnDirs'
  BY DEF OwnDirs, Owned, Copies!TakenAt, Copies!NoDir
<1>9. OwnRun'
  BY <1>d DEF OwnRun, Owns
<1>10. NoHalf'
  BY <1>b, <1>j DEF NoHalf, Copies!Part, Copies!Nil
<1>11. Complete'
  BY <1>g, InPlace DEF Complete
<1>12. Taking'
  <2> SUFFICES ASSUME NEW v \in Worker, run'[v].kind = "backup" PROVE Takes(v)'
    BY DEF Taking
  <2>1. v # w /\ run[v].kind = "backup" /\ run'[v] = run[v] /\ Takes(v) /\ run[v].b \in Copies!Backup /\ mixed
    BY <1>d, <1>e DEF Taking, WorkTyped, Copies!Busy
  <2>2. InDir(v) => run[v].dir \in Copies!Dir
    BY RunDir
  <2>3. QED BY <1>g, <2>1, <2>2, OthersTake
<1>13. Swapped'
  <2>1. \A v \in Worker : v # w /\ run[v].at \in {"away", "in"} => staging'[run[v].b] = staging[run[v].b]
    <3> SUFFICES ASSUME NEW v \in Worker, v # w, run[v].at \in {"away", "in"}
                 PROVE  staging'[run[v].b] = staging[run[v].b]
      OBVIOUS
    <3>1. run[v].kind \in {"none", "backup", "restore"}
      BY DEF WorkTyped, Place
    <3>2. run[v].kind = "restore"
      BY <3>1 DEF Stages, Making
    <3>3. Copies!Busy(v) /\ Copies!Busy(w) /\ run[w].kind = "restore"
      BY <1>a, <3>2 DEF Copies!Busy
    <3>4. run[v].b # run[w].b /\ run[v].b \in Copies!Backup
      BY <3>2, <3>3, Zenon DEF OneEach, WorkTyped
    <3>5. QED BY <1>j, <3>4
  <2>2. Away(w) /\ \A v \in Worker : Away(v) => v = w
    BY <1>a DEF Swapped, Away
  <2>3. CASE run'[w].at = "tidy"
    BY <1>a, <1>b, <1>c, <1>j, <2>1, <2>2, <2>3 DEF Swapped, Away
  <2>4. CASE run'[w].at = "back"
    BY <1>a, <1>b, <1>c, <1>j, <2>1, <2>2, <2>4 DEF Swapped, Away
  <2>5. QED BY <1>b, <2>3, <2>4
<1>14. Quiet'
  <2>1. CASE mixed'
    BY <2>1 DEF Quiet
  <2>2. CASE ~mixed'
    BY <1>b, <1>c, <1>e, <2>2 DEF Quiet, Copies!Busy, PutBack, Returns
  <2>3. QED BY <2>1, <2>2
<1>15. PutBack'
  <2> SUFFICES ASSUME ~mixed, NEW v \in Worker, Restores(v)' PROVE Returns(v)'
    BY DEF PutBack
  <2>1. v = w /\ Returns(w)
    BY <1>c, <1>d, <1>e DEF PutBack, Restores, Copies!Busy
  <2>2. QED BY <1>a, <1>b, <2>1, <1>j DEF Returns, Copies!Source, Restoring
<1>16. QED BY <1>1, <1>2, <1>3, <1>4, <1>5, <1>6, <1>7, <1>8, <1>9, <1>10, <1>11, <1>12, <1>13,
      <1>14, <1>15 DEF CopiesInv, Typed

LEMMA MoveBackKeeps ==
  ASSUME CopiesInv, Copies!BackupsAssumption, NEW w \in Worker, Copies!MoveBack(w)
  PROVE  CopiesInv'
<1> SUFFICES ASSUME SiteTyped /\ StoreTyped /\ WorkTyped /\ SwapTyped /\ PastTyped /\ Stages /\
                    OneEach /\ Known /\ OwnDirs /\ OwnRun /\ NoHalf /\ Complete /\ Taking /\
                    Swapped /\ Quiet /\ PutBack
             PROVE  CopiesInv'
  BY DEF CopiesInv, Typed
<1>   db' = db /\ status' = status /\ row' = row /\ disk' = disk /\ bucket' = bucket /\
      jobs' = jobs /\ asking' = asking /\ page' = page /\ left' = left /\ was' = was /\
      mixed' = mixed /\ parted' = parted /\ cut' = cut /\ asked' = asked /\ runs' = runs /\
      restores' = restores /\ version' = version /\ troubles' = troubles
  BY DEF Copies!MoveBack, Copies!store, Copies!queue, Copies!history, Copies!copies,
     Copies!caps
<1>a. Copies!Goto(w, "fail") /\ run[w].kind = "restore" /\ run[w].at = "back"
  BY DEF Copies!MoveBack, Copies!store, Copies!queue, Copies!history, Copies!copies,
     Copies!caps, Copies!Doing
<1>b. /\ run' \in [Worker -> Place]
      /\ run'[w].at = "fail" /\ run'[w].kind = "restore"
      /\ run'[w].b = run[w].b /\ run'[w].dir = run[w].dir
      /\ run'[w].got = run[w].got
      /\ \A v \in Worker : v # w => run'[v] = run[v]
      /\ \A v \in Worker : run'[v].kind = run[v].kind /\ run'[v].b = run[v].b
            /\ (run'[v].at = "unrow" => run'[v].old \in Copies!Backup)
  BY <1>a, GotoIs DEF Copies!At
<1>c. run[w].dir \in Copies!Dir /\ run[w].b \in Copies!Backup /\ Restores(w) /\ ~InDir(w) /\ Copies!Busy(w) /\ run[w] \in Place
  BY <1>a, RunDir DEF Restores, InDir, WorkTyped, Copies!Busy
<1>d. \A v \in Worker : /\ InDir(v)' => InDir(v) /\ run'[v] = run[v] /\ v # w
                        /\ Restores(v)' => Restores(v) /\ run'[v].dir = run[v].dir
                        /\ run'[v].kind = "backup" => run'[v] = run[v] /\ v # w
  BY <1>a, <1>b, <1>c DEF Restores, InDir
<1>e. ~mixed => \A v \in Worker : Copies!Busy(v) => v = w
  BY <1>a, <1>c DEF Quiet
<1>f. \A b \in Copies!Backup : Going(b) => Going(b)'
  BY <1>a, <1>b DEF Going, Copies!Removing
<1>g. \A b \in Copies!Backup : Copies!TakenAt(b) \in Copies!Dir /\ Holding(b) => Holding(b)'
  BY <1>f, StillHolding
<1>h. root' = IF aside[w] # Copies!Nil THEN aside[w] ELSE root
  BY DEF Copies!MoveBack, Copies!store, Copies!queue, Copies!history, Copies!copies,
     Copies!caps
<1>i. /\ staging' \in [Copies!Backup -> Copies!Content] /\ \A b \in Copies!Backup : b # run[w].b => staging'[b] = staging[b]
      /\ aside' \in [Worker -> Copies!Content] /\ aside'[w] = Copies!Nil /\ \A v \in Worker : v # w => aside'[v] = aside[v]
      /\ root' \in Copies!Content /\ root' # Copies!Part
  BY <1>c, <1>h DEF Copies!MoveBack, Copies!store, Copies!queue, Copies!history, Copies!copies,
     Copies!caps, SwapTyped, SiteTyped, Copies!Content, NoHalf
<1>1. SiteTyped'
  BY <1>i DEF SiteTyped
<1>2. StoreTyped' /\ PastTyped' /\ Known'
  BY DEF StoreTyped, PastTyped, Known
<1>3. WorkTyped'
  BY <1>b DEF WorkTyped, Copies!Busy
<1>4. SwapTyped'
  BY <1>i DEF SwapTyped
<1>5. Stages'
  BY <1>a, <1>b DEF Stages, Making, Restoring
<1>6. OneEach'
  BY <1>a, <1>b DEF OneEach, Copies!Busy
<1>7. OwnDirs'
  BY DEF OwnDirs, Owned, Copies!TakenAt, Copies!NoDir
<1>8. OwnRun'
  BY <1>d DEF OwnRun, Owns
<1>9. NoHalf'
  BY <1>b, <1>i DEF NoHalf, Copies!Part, Copies!Nil
<1>10. Complete'
  BY <1>g, InPlace DEF Complete
<1>11. Taking'
  <2> SUFFICES ASSUME NEW v \in Worker, run'[v].kind = "backup" PROVE Takes(v)'
    BY DEF Taking
  <2>1. v # w /\ run[v].kind = "backup" /\ run'[v] = run[v] /\ Takes(v) /\ run[v].b \in Copies!Backup /\ mixed
    BY <1>d, <1>e DEF Taking, WorkTyped, Copies!Busy
  <2>2. InDir(v) => run[v].dir \in Copies!Dir
    BY RunDir
  <2>3. QED BY <1>g, <2>1, <2>2, OthersTake
<1>12. Swapped'
  <2>1. \A v \in Worker : v # w /\ run[v].at \in {"away", "in"} => staging'[run[v].b] = staging[run[v].b]
    <3> SUFFICES ASSUME NEW v \in Worker, v # w, run[v].at \in {"away", "in"}
                 PROVE  staging'[run[v].b] = staging[run[v].b]
      OBVIOUS
    <3>1. run[v].kind \in {"none", "backup", "restore"}
      BY DEF WorkTyped, Place
    <3>2. run[v].kind = "restore"
      BY <3>1 DEF Stages, Making
    <3>3. Copies!Busy(v) /\ Copies!Busy(w) /\ run[w].kind = "restore"
      BY <1>a, <3>2 DEF Copies!Busy
    <3>4. run[v].b # run[w].b /\ run[v].b \in Copies!Backup
      BY <3>2, <3>3, Zenon DEF OneEach, WorkTyped
    <3>5. QED BY <1>i, <3>4
  <2>2. CASE aside[w] = Copies!Nil
    BY <1>a, <1>b, <1>h, <1>i, <2>1, <2>2 DEF Swapped, Away
  <2>3. CASE aside[w] # Copies!Nil
    <3>1. Away(w) /\ root' # Copies!Nil /\ \A v \in Worker : Away(v) => v = w
      BY <1>a, <1>h, <2>3 DEF Swapped, Away
    <3>2. QED BY <1>a, <1>b, <1>i, <2>1, <3>1 DEF Swapped, Away
  <2>4. QED BY <2>2, <2>3
<1>13. Quiet'
  <2>1. CASE mixed'
    BY <2>1 DEF Quiet
  <2>2. CASE ~mixed'
    BY <1>b, <1>c, <1>e, <2>2 DEF Quiet, Copies!Busy, PutBack, Returns
  <2>3. QED BY <2>1, <2>2
<1>14. PutBack'
  <2> SUFFICES ASSUME ~mixed, NEW v \in Worker, Restores(v)' PROVE Returns(v)'
    BY DEF PutBack
  <2>1. v = w /\ Returns(w)
    BY <1>c, <1>d, <1>e DEF PutBack, Restores, Copies!Busy
  <2>2. QED BY <1>a, <1>b, <2>1, <1>i DEF Returns, Copies!Source, Restoring
<1>15. QED BY <1>1, <1>2, <1>3, <1>4, <1>5, <1>6, <1>7, <1>8, <1>9, <1>10, <1>11, <1>12, <1>13,
      <1>14 DEF CopiesInv, Typed

LEMMA RemoveReplacedKeeps ==
  ASSUME CopiesInv, Copies!BackupsAssumption, NEW w \in Worker, Copies!RemoveReplaced(w)
  PROVE  CopiesInv'
<1> SUFFICES ASSUME SiteTyped /\ StoreTyped /\ WorkTyped /\ SwapTyped /\ PastTyped /\ Stages /\
                    OneEach /\ Known /\ OwnDirs /\ OwnRun /\ NoHalf /\ Complete /\ Taking /\
                    Swapped /\ Quiet /\ PutBack
             PROVE  CopiesInv'
  BY DEF CopiesInv, Typed
<1>   root' = root /\ db' = db /\ status' = status /\ row' = row /\ disk' = disk /\
      bucket' = bucket /\ jobs' = jobs /\ asking' = asking /\ page' = page /\
      staging' = staging /\ left' = left /\ was' = was /\ mixed' = mixed /\ parted' = parted /\
      cut' = cut /\ asked' = asked /\ runs' = runs /\ restores' = restores /\
      version' = version /\ troubles' = troubles
  BY DEF Copies!RemoveReplaced, Copies!site, Copies!store, Copies!queue, Copies!history,
     Copies!copies, Copies!caps
<1>a. Copies!Goto(w, "empty") /\ run[w].kind = "restore" /\ run[w].at = "tidy"
  BY DEF Copies!RemoveReplaced, Copies!site, Copies!store, Copies!queue, Copies!history,
     Copies!copies, Copies!caps, Copies!Doing
<1>b. /\ run' \in [Worker -> Place]
      /\ run'[w].at = "empty" /\ run'[w].kind = "restore"
      /\ run'[w].b = run[w].b /\ run'[w].dir = run[w].dir
      /\ run'[w].got = run[w].got
      /\ \A v \in Worker : v # w => run'[v] = run[v]
      /\ \A v \in Worker : run'[v].kind = run[v].kind /\ run'[v].b = run[v].b
            /\ (run'[v].at = "unrow" => run'[v].old \in Copies!Backup)
  BY <1>a, GotoIs DEF Copies!At
<1>c. run[w].dir \in Copies!Dir /\ run[w].b \in Copies!Backup /\ Restores(w) /\ ~InDir(w) /\ Copies!Busy(w) /\ run[w] \in Place
  BY <1>a, RunDir DEF Restores, InDir, WorkTyped, Copies!Busy
<1>d. \A v \in Worker : /\ InDir(v)' => InDir(v) /\ run'[v] = run[v] /\ v # w
                        /\ Restores(v)' => Restores(v) /\ run'[v].dir = run[v].dir
                        /\ run'[v].kind = "backup" => run'[v] = run[v] /\ v # w
  BY <1>a, <1>b, <1>c DEF Restores, InDir
<1>e. ~mixed => \A v \in Worker : Copies!Busy(v) => v = w
  BY <1>a, <1>c DEF Quiet
<1>f. \A b \in Copies!Backup : Going(b) => Going(b)'
  BY <1>a, <1>b DEF Going, Copies!Removing
<1>g. \A b \in Copies!Backup : Copies!TakenAt(b) \in Copies!Dir /\ Holding(b) => Holding(b)'
  BY <1>f, StillHolding
<1>h. /\ aside' \in [Worker -> Copies!Content] /\ aside'[w] = Copies!Nil /\ \A v \in Worker : v # w => aside'[v] = aside[v]
  BY DEF Copies!RemoveReplaced, Copies!site, Copies!store, Copies!queue, Copies!history,
     Copies!copies, Copies!caps, SwapTyped, Copies!Content
<1>1. SiteTyped' /\ StoreTyped' /\ PastTyped' /\ Known'
  BY DEF SiteTyped, StoreTyped, PastTyped, Known
<1>2. WorkTyped'
  BY <1>b DEF WorkTyped, Copies!Busy
<1>3. SwapTyped'
  BY <1>h DEF SwapTyped
<1>4. Stages'
  BY <1>a, <1>b DEF Stages, Making, Restoring
<1>5. OneEach'
  BY <1>a, <1>b DEF OneEach, Copies!Busy
<1>6. OwnDirs'
  BY DEF OwnDirs, Owned, Copies!TakenAt, Copies!NoDir
<1>7. OwnRun'
  BY <1>d DEF OwnRun, Owns
<1>8. NoHalf'
  BY <1>b, <1>h DEF NoHalf, Copies!Part, Copies!Nil
<1>9. Complete'
  BY <1>g, InPlace DEF Complete
<1>10. Taking'
  <2> SUFFICES ASSUME NEW v \in Worker, run'[v].kind = "backup" PROVE Takes(v)'
    BY DEF Taking
  <2>1. v # w /\ run[v].kind = "backup" /\ run'[v] = run[v] /\ Takes(v) /\ run[v].b \in Copies!Backup /\ mixed
    BY <1>d, <1>e DEF Taking, WorkTyped, Copies!Busy
  <2>2. InDir(v) => run[v].dir \in Copies!Dir
    BY RunDir
  <2>3. QED BY <1>g, <2>1, <2>2, OthersTake
<1>11. Swapped'
  BY <1>a, <1>b, <1>h DEF Swapped, Away
<1>12. Quiet'
  <2>1. CASE mixed'
    BY <2>1 DEF Quiet
  <2>2. CASE ~mixed'
    BY <1>b, <1>c, <1>e, <2>2 DEF Quiet, Copies!Busy, PutBack, Returns
  <2>3. QED BY <2>1, <2>2
<1>13. PutBack'
  <2> SUFFICES ASSUME ~mixed, NEW v \in Worker, Restores(v)' PROVE Returns(v)'
    BY DEF PutBack
  <2>1. v = w /\ Returns(w)
    BY <1>c, <1>d, <1>e DEF PutBack, Restores, Copies!Busy
  <2>2. QED BY <1>a, <1>b, <2>1 DEF Returns, Copies!Source, Restoring
<1>14. QED BY <1>1, <1>2, <1>3, <1>4, <1>5, <1>6, <1>7, <1>8, <1>9, <1>10, <1>11, <1>12,
      <1>13 DEF CopiesInv, Typed

LEMMA EmptyDatabaseKeeps ==
  ASSUME CopiesInv, Copies!BackupsAssumption, NEW w \in Worker, Copies!EmptyDatabase(w)
  PROVE  CopiesInv'
<1> SUFFICES ASSUME SiteTyped /\ StoreTyped /\ WorkTyped /\ SwapTyped /\ PastTyped /\ Stages /\
                    OneEach /\ Known /\ OwnDirs /\ OwnRun /\ NoHalf /\ Complete /\ Taking /\
                    Swapped /\ Quiet /\ PutBack
             PROVE  CopiesInv'
  BY DEF CopiesInv, Typed
<1>   root' = root /\ status' = status /\ row' = row /\ disk' = disk /\ bucket' = bucket /\
      jobs' = jobs /\ asking' = asking /\ page' = page /\ staging' = staging /\ aside' = aside /\
      left' = left /\ was' = was /\ mixed' = mixed /\ parted' = parted /\ cut' = cut /\
      asked' = asked /\ runs' = runs /\ restores' = restores /\ version' = version /\
      troubles' = troubles
  BY DEF Copies!EmptyDatabase, Copies!store, Copies!queue, Copies!swap, Copies!history,
     Copies!copies, Copies!caps
<1>a. (Copies!Goto(w, "fail") \/ Copies!Goto(w, "load")) /\ run[w].kind = "restore" /\ run[w].at = "empty"
  BY DEF Copies!EmptyDatabase, Copies!store, Copies!queue, Copies!swap, Copies!history,
     Copies!copies, Copies!caps, Copies!Doing
<1>b. /\ run' \in [Worker -> Place]
      /\ run'[w].at \in {"fail", "load"} /\ run'[w].kind = "restore"
      /\ run'[w].b = run[w].b /\ run'[w].dir = run[w].dir
      /\ run'[w].got = run[w].got
      /\ \A v \in Worker : v # w => run'[v] = run[v]
      /\ \A v \in Worker : run'[v].kind = run[v].kind /\ run'[v].b = run[v].b
            /\ (run'[v].at = "unrow" => run'[v].old \in Copies!Backup)
  BY <1>a, GotoIs DEF Copies!At
<1>c. run[w].dir \in Copies!Dir /\ run[w].b \in Copies!Backup /\ Restores(w) /\ ~InDir(w) /\ Copies!Busy(w) /\ run[w] \in Place
  BY <1>a, RunDir DEF Restores, InDir, WorkTyped, Copies!Busy
<1>d. \A v \in Worker : /\ InDir(v)' => InDir(v) /\ run'[v] = run[v] /\ v # w
                        /\ Restores(v)' => Restores(v) /\ run'[v].dir = run[v].dir
                        /\ run'[v].kind = "backup" => run'[v] = run[v] /\ v # w
  BY <1>a, <1>b, <1>c DEF Restores, InDir
<1>e. ~mixed => \A v \in Worker : Copies!Busy(v) => v = w
  BY <1>a, <1>c DEF Quiet
<1>f. \A b \in Copies!Backup : Going(b) => Going(b)'
  BY <1>a, <1>b DEF Going, Copies!Removing
<1>g. \A b \in Copies!Backup : Copies!TakenAt(b) \in Copies!Dir /\ Holding(b) => Holding(b)'
  BY <1>f, StillHolding
<1>h. db' \in Copies!Content /\ db' # Copies!Nil
  BY DEF Copies!EmptyDatabase, Copies!store, Copies!queue, Copies!swap, Copies!history,
     Copies!copies, Copies!caps, SiteTyped, Copies!Content, NoHalf, Copies!Part, Copies!Nil
<1>1. SiteTyped'
  BY <1>h DEF SiteTyped
<1>2. StoreTyped' /\ SwapTyped' /\ PastTyped' /\ Known'
  BY DEF StoreTyped, SwapTyped, PastTyped, Known
<1>3. WorkTyped'
  BY <1>b DEF WorkTyped, Copies!Busy
<1>4. Stages'
  BY <1>a, <1>b DEF Stages, Making, Restoring
<1>5. OneEach'
  BY <1>a, <1>b DEF OneEach, Copies!Busy
<1>6. OwnDirs'
  BY DEF OwnDirs, Owned, Copies!TakenAt, Copies!NoDir
<1>7. OwnRun'
  BY <1>d DEF OwnRun, Owns
<1>8. NoHalf'
  BY <1>b, <1>h DEF NoHalf, Copies!Part, Copies!Nil
<1>9. Complete'
  BY <1>g, InPlace DEF Complete
<1>10. Taking'
  <2> SUFFICES ASSUME NEW v \in Worker, run'[v].kind = "backup" PROVE Takes(v)'
    BY DEF Taking
  <2>1. v # w /\ run[v].kind = "backup" /\ run'[v] = run[v] /\ Takes(v) /\ run[v].b \in Copies!Backup /\ mixed
    BY <1>d, <1>e DEF Taking, WorkTyped, Copies!Busy
  <2>2. InDir(v) => run[v].dir \in Copies!Dir
    BY RunDir
  <2>3. QED BY <1>g, <2>1, <2>2, OthersTake
<1>11. Swapped'
  BY <1>a, <1>b DEF Swapped, Away
<1>12. Quiet'
  <2>1. CASE mixed'
    BY <2>1 DEF Quiet
  <2>2. CASE ~mixed'
    BY <1>b, <1>c, <1>e, <2>2 DEF Quiet, Copies!Busy, PutBack, Returns
  <2>3. QED BY <2>1, <2>2
<1>13. PutBack'
  <2> SUFFICES ASSUME ~mixed, NEW v \in Worker, Restores(v)' PROVE Returns(v)'
    BY DEF PutBack
  <2>1. v = w /\ Returns(w)
    BY <1>c, <1>d, <1>e DEF PutBack, Restores, Copies!Busy
  <2>2. QED BY <1>a, <1>b, <2>1 DEF Returns, Copies!Source, Restoring
<1>14. QED BY <1>1, <1>2, <1>3, <1>4, <1>5, <1>6, <1>7, <1>8, <1>9, <1>10, <1>11, <1>12,
      <1>13 DEF CopiesInv, Typed

LEMMA LoadDatabaseKeeps ==
  ASSUME CopiesInv, Copies!BackupsAssumption, NEW w \in Worker, Copies!LoadDatabase(w)
  PROVE  CopiesInv'
<1> SUFFICES ASSUME SiteTyped /\ StoreTyped /\ WorkTyped /\ SwapTyped /\ PastTyped /\ Stages /\
                    OneEach /\ Known /\ OwnDirs /\ OwnRun /\ NoHalf /\ Complete /\ Taking /\
                    Swapped /\ Quiet /\ PutBack
             PROVE  CopiesInv'
  BY DEF CopiesInv, Typed
<1>   root' = root /\ status' = status /\ row' = row /\ disk' = disk /\ bucket' = bucket /\
      jobs' = jobs /\ asking' = asking /\ page' = page /\ staging' = staging /\ aside' = aside /\
      left' = left /\ was' = was /\ mixed' = mixed /\ parted' = parted /\ cut' = cut /\
      asked' = asked /\ runs' = runs /\ restores' = restores /\ version' = version
  BY DEF Copies!LoadDatabase, Copies!store, Copies!queue, Copies!swap, Copies!history,
     Copies!copies, Copies!caps
<1>a. (Copies!Goto(w, "active") \/ Copies!Goto(w, "fail")) /\ run[w].kind = "restore" /\ run[w].at = "load"
  BY DEF Copies!LoadDatabase, Copies!store, Copies!queue, Copies!swap, Copies!history,
     Copies!copies, Copies!caps, Copies!Doing
<1>b. /\ run' \in [Worker -> Place]
      /\ run'[w].at \in {"active", "fail"} /\ run'[w].kind = "restore"
      /\ run'[w].b = run[w].b /\ run'[w].dir = run[w].dir
      /\ run'[w].got = run[w].got
      /\ \A v \in Worker : v # w => run'[v] = run[v]
      /\ \A v \in Worker : run'[v].kind = run[v].kind /\ run'[v].b = run[v].b
            /\ (run'[v].at = "unrow" => run'[v].old \in Copies!Backup)
  BY <1>a, GotoIs DEF Copies!At
<1>c. run[w].dir \in Copies!Dir /\ run[w].b \in Copies!Backup /\ Restores(w) /\ ~InDir(w) /\ Copies!Busy(w) /\ run[w] \in Place
  BY <1>a, RunDir DEF Restores, InDir, WorkTyped, Copies!Busy
<1>d. \A v \in Worker : /\ InDir(v)' => InDir(v) /\ run'[v] = run[v] /\ v # w
                        /\ Restores(v)' => Restores(v) /\ run'[v].dir = run[v].dir
                        /\ run'[v].kind = "backup" => run'[v] = run[v] /\ v # w
  BY <1>a, <1>b, <1>c DEF Restores, InDir
<1>e. ~mixed => \A v \in Worker : Copies!Busy(v) => v = w
  BY <1>a, <1>c DEF Quiet
<1>f. \A b \in Copies!Backup : Going(b) => Going(b)'
  BY <1>a, <1>b DEF Going, Copies!Removing
<1>g. \A b \in Copies!Backup : Copies!TakenAt(b) \in Copies!Dir /\ Holding(b) => Holding(b)'
  BY <1>f, StillHolding
<1>h. troubles' \in 0..MaxTroubles
  BY CopyBounds DEF Copies!LoadDatabase, Copies!store, Copies!queue, Copies!swap,
     Copies!history, Copies!copies, Copies!caps, Copies!Trouble, PastTyped
<1>i. /\ db' \in Copies!Content /\ db' # Copies!Nil
      /\ run'[w].at = "active" => db' = Copies!Source(w).db /\ Copies!Source(w).db # Copies!Nil
  <2>1. Copies!Source(w).db \in Copies!Content
    BY <1>c DEF Copies!Source, StoreTyped, Held, Half, Place
  <2>2. CASE Copies!Goto(w, "fail") /\ UNCHANGED db
    <3>1. run'[w].at = "fail"
      BY <2>2, GotoIs DEF Copies!At
    <3>2. QED BY <2>2, <3>1 DEF SiteTyped, NoHalf
  <2>3. CASE Copies!Source(w).db # Copies!Nil /\ db' = Copies!Source(w).db
    BY <2>1, <2>3
  <2>4. QED BY <2>2, <2>3 DEF Copies!LoadDatabase
<1>1. SiteTyped'
  BY <1>i DEF SiteTyped
<1>2. StoreTyped' /\ SwapTyped' /\ Known'
  BY DEF StoreTyped, SwapTyped, Known
<1>3. WorkTyped'
  BY <1>b DEF WorkTyped, Copies!Busy
<1>4. PastTyped'
  BY <1>h DEF PastTyped
<1>5. Stages'
  BY <1>a, <1>b DEF Stages, Making, Restoring
<1>6. OneEach'
  BY <1>a, <1>b DEF OneEach, Copies!Busy
<1>7. OwnDirs'
  BY DEF OwnDirs, Owned, Copies!TakenAt, Copies!NoDir
<1>8. OwnRun'
  BY <1>d DEF OwnRun, Owns
<1>9. NoHalf'
  BY <1>b, <1>i DEF NoHalf, Copies!Part, Copies!Nil
<1>10. Complete'
  BY <1>g, InPlace DEF Complete
<1>11. Taking'
  <2> SUFFICES ASSUME NEW v \in Worker, run'[v].kind = "backup" PROVE Takes(v)'
    BY DEF Taking
  <2>1. v # w /\ run[v].kind = "backup" /\ run'[v] = run[v] /\ Takes(v) /\ run[v].b \in Copies!Backup /\ mixed
    BY <1>d, <1>e DEF Taking, WorkTyped, Copies!Busy
  <2>2. InDir(v) => run[v].dir \in Copies!Dir
    BY RunDir
  <2>3. QED BY <1>g, <2>1, <2>2, OthersTake
<1>12. Swapped'
  BY <1>a, <1>b DEF Swapped, Away
<1>13. Quiet'
  <2>1. CASE mixed'
    BY <2>1 DEF Quiet
  <2>2. CASE ~mixed'
    BY <1>b, <1>c, <1>e, <2>2 DEF Quiet, Copies!Busy, PutBack, Returns
  <2>3. QED BY <2>1, <2>2
<1>14. PutBack'
  <2> SUFFICES ASSUME ~mixed, NEW v \in Worker, Restores(v)' PROVE Returns(v)'
    BY DEF PutBack
  <2>1. v = w /\ Returns(w)
    BY <1>c, <1>d, <1>e DEF PutBack, Restores, Copies!Busy
  <2>2. was[run[w].dir].files = was[run[w].dir].db
    BY <1>c, RunDir DEF Quiet
  <2>3. run'[w].at = "active" => root = db'
    BY <1>a, <1>i, <2>1, <2>2 DEF Returns, Restoring, Copies!NoCopy
  <2>4. QED BY <1>a, <1>b, <2>1, <2>3 DEF Returns, Copies!Source, Restoring
<1>15. QED BY <1>1, <1>2, <1>3, <1>4, <1>5, <1>6, <1>7, <1>8, <1>9, <1>10, <1>11, <1>12, <1>13,
      <1>14 DEF CopiesInv, Typed

LEMMA EndRestoreKeeps ==
  ASSUME CopiesInv, Copies!BackupsAssumption, NEW w \in Worker, Copies!EndRestore(w)
  PROVE  CopiesInv'
<1> SUFFICES ASSUME SiteTyped /\ StoreTyped /\ WorkTyped /\ SwapTyped /\ PastTyped /\ Stages /\
                    OneEach /\ Known /\ OwnDirs /\ OwnRun /\ NoHalf /\ Complete /\ Taking /\
                    Swapped /\ Quiet /\ PutBack
             PROVE  CopiesInv'
  BY DEF CopiesInv, Typed
<1>   root' = root /\ db' = db /\ row' = row /\ disk' = disk /\ bucket' = bucket /\
      jobs' = jobs /\ asking' = asking /\ page' = page /\ staging' = staging /\ aside' = aside /\
      left' = left /\ was' = was /\ mixed' = mixed /\ parted' = parted /\ cut' = cut /\
      asked' = asked /\ runs' = runs /\ restores' = restores /\ version' = version /\
      troubles' = troubles
  BY DEF Copies!EndRestore, Copies!store, Copies!queue, Copies!swap, Copies!history,
     Copies!copies, Copies!caps
<1>a. Copies!Stop(w) /\ run[w].kind = "restore" /\ run[w].at \in {"active", "fail"}
  BY DEF Copies!EndRestore, Copies!store, Copies!queue, Copies!swap, Copies!history,
     Copies!copies, Copies!caps, Copies!Doing
<1>b. /\ run' \in [Worker -> Place] /\ run'[w].at = "idle" /\ run'[w].kind = "none"
      /\ run'[w].got.files = Copies!Nil
      /\ \A v \in Worker : v # w => run'[v] = run[v]
      /\ \A v \in Worker : run'[v].kind # "none" => v # w /\ run'[v] = run[v]
  BY <1>a, StopIs DEF Copies!Idle, Copies!NoCopy
<1>c. run[w].dir \in Copies!Dir /\ run[w].b \in Copies!Backup /\ Restores(w) /\ ~InDir(w) /\ Copies!Busy(w) /\ run[w] \in Place
  BY <1>a, RunDir DEF Restores, InDir, WorkTyped, Copies!Busy
<1>d. \A v \in Worker : /\ InDir(v)' => InDir(v) /\ run'[v] = run[v] /\ v # w
                        /\ Restores(v)' => Restores(v) /\ run'[v].dir = run[v].dir
                        /\ run'[v].kind = "backup" => run'[v] = run[v] /\ v # w
  BY <1>a, <1>b, <1>c DEF Restores, InDir
<1>e. ~mixed => \A v \in Worker : Copies!Busy(v) => v = w
  BY <1>a, <1>c DEF Quiet
<1>f. \A b \in Copies!Backup : Going(b) => Going(b)'
  BY <1>a, <1>b DEF Going, Copies!Removing
<1>g. \A b \in Copies!Backup : Copies!TakenAt(b) \in Copies!Dir /\ Holding(b) => Holding(b)'
  BY <1>f, StillHolding
<1>h. status' \in {"active", "failed"} /\ (status' = "active" => run[w].at = "active")
  BY DEF Copies!EndRestore, Copies!store, Copies!queue, Copies!swap, Copies!history,
     Copies!copies, Copies!caps
<1>1. SiteTyped'
  BY <1>h DEF SiteTyped
<1>2. StoreTyped' /\ SwapTyped' /\ PastTyped' /\ Known'
  BY DEF StoreTyped, SwapTyped, PastTyped, Known
<1>3. WorkTyped'
  BY <1>b DEF WorkTyped, Copies!Busy
<1>4. Stages'
  BY <1>a, <1>b DEF Stages, Making, Restoring
<1>5. OneEach'
  BY <1>a, <1>b DEF OneEach, Copies!Busy
<1>6. OwnDirs'
  BY DEF OwnDirs, Owned, Copies!TakenAt, Copies!NoDir
<1>7. OwnRun'
  BY <1>d DEF OwnRun, Owns
<1>8. NoHalf'
  BY <1>b DEF NoHalf, Copies!Part, Copies!Nil
<1>9. Complete'
  BY <1>g, InPlace DEF Complete
<1>10. Taking'
  <2> SUFFICES ASSUME NEW v \in Worker, run'[v].kind = "backup" PROVE Takes(v)'
    BY DEF Taking
  <2>1. v # w /\ run[v].kind = "backup" /\ run'[v] = run[v] /\ Takes(v) /\ run[v].b \in Copies!Backup /\ mixed
    BY <1>d, <1>e DEF Taking, WorkTyped, Copies!Busy
  <2>2. InDir(v) => run[v].dir \in Copies!Dir
    BY RunDir
  <2>3. QED BY <1>g, <2>1, <2>2, OthersTake
<1>11. Swapped'
  BY <1>a, <1>b DEF Swapped, Away
<1>12. Quiet'
  <2>1. CASE mixed'
    BY <2>1 DEF Quiet
  <2>2. CASE ~mixed'
    <3>1. ~mixed /\ Returns(w)
      BY <1>c, <2>2 DEF PutBack
    <3>2. status' = "active" => root = db
      BY <1>h, <3>1 DEF Returns
    <3>3. QED BY <1>b, <1>c, <1>e, <3>1, <3>2 DEF Quiet, Copies!Busy
  <2>3. QED BY <2>1, <2>2
<1>13. PutBack'
  BY <1>b, <1>c, <1>d, <1>e DEF PutBack, Restores, Copies!Busy
<1>14. QED BY <1>1, <1>2, <1>3, <1>4, <1>5, <1>6, <1>7, <1>8, <1>9, <1>10, <1>11, <1>12,
      <1>13 DEF CopiesInv, Typed

LEMMA DownloadKeeps ==
  ASSUME CopiesInv, Copies!BackupsAssumption, NEW w \in Worker, Copies!Download(w)
  PROVE  CopiesInv'
<1> SUFFICES ASSUME SiteTyped /\ StoreTyped /\ WorkTyped /\ SwapTyped /\ PastTyped /\ Stages /\
                    OneEach /\ Known /\ OwnDirs /\ OwnRun /\ NoHalf /\ Complete /\ Taking /\
                    Swapped /\ Quiet /\ PutBack
             PROVE  CopiesInv'
  BY DEF CopiesInv, Typed
<1>   root' = root /\ db' = db /\ status' = status /\ row' = row /\ disk' = disk /\
      bucket' = bucket /\ jobs' = jobs /\ asking' = asking /\ page' = page /\
      staging' = staging /\ aside' = aside /\ left' = left /\ was' = was /\ mixed' = mixed /\
      parted' = parted /\ cut' = cut /\ asked' = asked /\ runs' = runs /\ restores' = restores /\
      version' = version /\ troubles' = troubles
  BY DEF Copies!Download, Copies!site, Copies!store, Copies!queue, Copies!swap, Copies!history,
     Copies!copies, Copies!caps
<1>a. run[w].kind = "restore" /\ run[w].at = "download" /\ run[w].dir \in Copies!Dir
  BY RunDir DEF Copies!Download, Copies!site, Copies!store, Copies!queue, Copies!swap,
     Copies!history, Copies!copies, Copies!caps, Copies!Doing, Restores
<1>b. /\ run' \in [Worker -> Place] /\ run'[w].at \in {"extract", "fail"} /\ run'[w].kind = "restore"
      /\ run'[w].b = run[w].b /\ run'[w].dir = run[w].dir /\ run'[w].got.files # Copies!Part
      /\ run'[w].at = "extract" => bucket[run[w].dir].there /\ run'[w].got = bucket[run[w].dir].copy
      /\ \A v \in Worker : v # w => run'[v] = run[v]
      /\ \A v \in Worker : run'[v].kind = run[v].kind /\ run'[v].b = run[v].b
            /\ (run'[v].at = "unrow" => run'[v].old \in Copies!Backup)
  <2>1. CASE bucket[run[w].dir].there
    <3>1. run' = [run EXCEPT ![w].at = "extract", ![w].got = bucket[run[w].dir].copy]
      BY <2>1 DEF Copies!Download
    <3>2. bucket[run[w].dir].copy \in Half /\ bucket[run[w].dir].copy.files # Copies!Part
      BY <1>a DEF StoreTyped, Held, NoHalf
    <3>3. run[w] \in Place /\ "extract" \in Copies!At
      BY DEF WorkTyped, Copies!At
    <3>4. /\ run'[w] = [run[w] EXCEPT !.at = "extract", !.got = bucket[run[w].dir].copy]
          /\ \A v \in Worker : v # w => run'[v] = run[v]
      BY <3>1 DEF WorkTyped
    <3>5. /\ run'[w] \in Place /\ run'[w].at = "extract" /\ run'[w].kind = run[w].kind
          /\ run'[w].b = run[w].b /\ run'[w].dir = run[w].dir /\ run'[w].got = bucket[run[w].dir].copy
      BY <3>2, <3>3, <3>4, Zenon DEF Place
    <3>6. run' \in [Worker -> Place]
      BY <3>1, <3>4, <3>5 DEF WorkTyped
    <3>7. QED BY <1>a, <2>1, <3>2, <3>4, <3>5, <3>6, Zenon DEF WorkTyped
  <2>2. CASE ~bucket[run[w].dir].there
    <3>1. Copies!Goto(w, "fail")
      BY <2>2 DEF Copies!Download
    <3>2. QED BY <1>a, <3>1, GotoIs DEF Copies!At, NoHalf
  <2>3. QED BY <2>1, <2>2
<1>c. run[w].dir \in Copies!Dir /\ run[w].b \in Copies!Backup /\ Restores(w) /\ ~InDir(w) /\ Copies!Busy(w) /\ run[w] \in Place
  BY <1>a, RunDir DEF Restores, InDir, WorkTyped, Copies!Busy
<1>d. \A v \in Worker : /\ InDir(v)' => InDir(v) /\ run'[v] = run[v] /\ v # w
                        /\ Restores(v)' => Restores(v) /\ run'[v].dir = run[v].dir
                        /\ run'[v].kind = "backup" => run'[v] = run[v] /\ v # w
  BY <1>a, <1>b, <1>c DEF Restores, InDir
<1>e. ~mixed => \A v \in Worker : Copies!Busy(v) => v = w
  BY <1>a, <1>c DEF Quiet
<1>f. \A b \in Copies!Backup : Going(b) => Going(b)'
  BY <1>a, <1>b DEF Going, Copies!Removing
<1>g. \A b \in Copies!Backup : Copies!TakenAt(b) \in Copies!Dir /\ Holding(b) => Holding(b)'
  BY <1>f, StillHolding
<1>1. SiteTyped' /\ StoreTyped' /\ SwapTyped' /\ PastTyped' /\ Known'
  BY DEF SiteTyped, StoreTyped, SwapTyped, PastTyped, Known
<1>2. WorkTyped'
  BY <1>b DEF WorkTyped, Copies!Busy
<1>3. Stages'
  BY <1>a, <1>b DEF Stages, Making, Restoring
<1>4. OneEach'
  BY <1>a, <1>b DEF OneEach, Copies!Busy
<1>5. OwnDirs'
  BY DEF OwnDirs, Owned, Copies!TakenAt, Copies!NoDir
<1>6. OwnRun'
  BY <1>d DEF OwnRun, Owns
<1>7. NoHalf'
  BY <1>b DEF NoHalf, Copies!Part, Copies!Nil
<1>8. Complete'
  BY <1>g, InPlace DEF Complete
<1>9. Taking'
  <2> SUFFICES ASSUME NEW v \in Worker, run'[v].kind = "backup" PROVE Takes(v)'
    BY DEF Taking
  <2>1. v # w /\ run[v].kind = "backup" /\ run'[v] = run[v] /\ Takes(v) /\ run[v].b \in Copies!Backup /\ mixed
    BY <1>d, <1>e DEF Taking, WorkTyped, Copies!Busy
  <2>2. InDir(v) => run[v].dir \in Copies!Dir
    BY RunDir
  <2>3. QED BY <1>g, <2>1, <2>2, OthersTake
<1>10. Swapped'
  BY <1>a, <1>b DEF Swapped, Away
<1>11. Quiet'
  <2>1. CASE mixed'
    BY <2>1 DEF Quiet
  <2>2. CASE ~mixed'
    BY <1>b, <1>c, <1>e, <2>2 DEF Quiet, Copies!Busy, PutBack, Returns
  <2>3. QED BY <2>1, <2>2
<1>12. PutBack'
  <2> SUFFICES ASSUME ~mixed, NEW v \in Worker, Restores(v)' PROVE Returns(v)'
    BY DEF PutBack
  <2>1. v = w /\ Returns(w)
    BY <1>c, <1>d, <1>e DEF PutBack, Restores, Copies!Busy
  <2>2. run'[w].at = "extract" => Copies!Source(w)' = was[run[w].dir]
    <3>1. run[w].b \in Remote
      BY <1>a DEF Stages
    <3>2. QED BY <1>a, <1>b, <2>1, <3>1 DEF Returns, Copies!Source, Copies!Gone
  <2>3. QED BY <1>a, <1>b, <2>1, <2>2 DEF Returns, Restoring
<1>13. QED BY <1>1, <1>2, <1>3, <1>4, <1>5, <1>6, <1>7, <1>8, <1>9, <1>10, <1>11,
      <1>12 DEF CopiesInv, Typed

\* The two ways to start a restore.
RestoreRefused(w) == /\ Copies!Doing(w, "restore", "begin") /\ Copies!Stop(w) /\ troubles' \in {troubles, troubles + 1}
                     /\ troubles' \in 0..MaxTroubles
                     /\ UNCHANGED <<status, Copies!copies, root, db, Copies!swap, Copies!caps>>
RestoreStarts(w) ==
    /\ Copies!Doing(w, "restore", "begin") /\ row[run[w].b].status = "complete" /\ status' = "deploying"
    /\ IF run[w].b \in Remote
         THEN run' = [run EXCEPT ![w].dir = row[run[w].b].key, ![w].at = "download"]
         ELSE /\ row[run[w].b].dir # Copies!NoDir /\ disk[row[run[w].b].dir].there
              /\ run' = [run EXCEPT ![w].dir = row[run[w].b].dir,
                                    ![w].at = IF disk[row[run[w].b].dir].copy.files # Copies!Nil THEN "extract" ELSE "empty"]
    /\ UNCHANGED <<troubles, Copies!copies, root, db, Copies!swap, Copies!caps>>

LEMMA RestoreRefusedKeeps ==
  ASSUME CopiesInv, Copies!BackupsAssumption, NEW w \in Worker, RestoreRefused(w)
  PROVE  CopiesInv'
<1> SUFFICES ASSUME SiteTyped /\ StoreTyped /\ WorkTyped /\ SwapTyped /\ PastTyped /\ Stages /\
                    OneEach /\ Known /\ OwnDirs /\ OwnRun /\ NoHalf /\ Complete /\ Taking /\
                    Swapped /\ Quiet /\ PutBack
             PROVE  CopiesInv'
  BY DEF CopiesInv, Typed
<1>   root' = root /\ db' = db /\ status' = status /\ row' = row /\ disk' = disk /\
      bucket' = bucket /\ jobs' = jobs /\ asking' = asking /\ page' = page /\
      staging' = staging /\ aside' = aside /\ left' = left /\ was' = was /\ mixed' = mixed /\
      parted' = parted /\ cut' = cut /\ asked' = asked /\ runs' = runs /\ restores' = restores /\
      version' = version
  BY DEF RestoreRefused, Copies!store, Copies!queue, Copies!swap, Copies!history,
     Copies!copies, Copies!caps
<1>a. run[w].kind = "restore" /\ run[w].at = "begin"
  BY DEF RestoreRefused, Copies!store, Copies!queue, Copies!swap, Copies!history,
     Copies!copies, Copies!caps, Copies!Doing
<1>b. /\ run' \in [Worker -> Place] /\ run'[w].at = "idle" /\ run'[w].kind = "none"
      /\ run'[w].got.files = Copies!Nil
      /\ \A v \in Worker : v # w => run'[v] = run[v]
      /\ \A v \in Worker : run'[v].kind # "none" => v # w /\ run'[v] = run[v]
  BY StopIs DEF RestoreRefused, Copies!store, Copies!queue, Copies!swap, Copies!history,
     Copies!copies, Copies!caps, Copies!Idle, Copies!NoCopy
<1>c. run[w].b \in Copies!Backup /\ ~Restores(w) /\ ~InDir(w) /\ Copies!Busy(w) /\ run[w] \in Place /\ row[run[w].b] \in Record
  BY <1>a DEF Restores, InDir, WorkTyped, StoreTyped, Copies!Busy
<1>d. \A v \in Worker : /\ InDir(v)' => InDir(v) /\ run'[v] = run[v] /\ v # w
                        /\ Restores(v)' => Restores(v) /\ run'[v] = run[v] /\ v # w
                        /\ run'[v].kind = "backup" => run'[v] = run[v] /\ v # w
  BY <1>a, <1>b, <1>c DEF Restores, InDir, Making
<1>e. ~mixed => \A v \in Worker : Copies!Busy(v) => v = w
  BY <1>a, <1>c DEF Quiet
<1>f. \A b \in Copies!Backup : Going(b) => Going(b)'
  BY <1>a, <1>b DEF Going, Copies!Removing
<1>g. \A b \in Copies!Backup : Copies!TakenAt(b) \in Copies!Dir /\ Holding(b) => Holding(b)'
  BY <1>f, StillHolding
<1>1. SiteTyped' /\ StoreTyped' /\ SwapTyped' /\ PastTyped' /\ Known'
  BY DEF SiteTyped, StoreTyped, SwapTyped, RestoreRefused, PastTyped, Known
<1>2. WorkTyped'
  BY <1>b DEF WorkTyped, Copies!Busy
<1>3. Stages'
  BY <1>a, <1>b, <1>c DEF Stages, Making, Restoring
<1>4. OneEach'
  BY <1>a, <1>b DEF OneEach, Copies!Busy
<1>5. OwnDirs'
  BY DEF OwnDirs, Owned, Copies!TakenAt, Copies!NoDir
<1>6. OwnRun'
  BY <1>b, <1>d DEF OwnRun, Owns
<1>7. NoHalf'
  BY <1>b DEF NoHalf, Copies!Part, Copies!Nil
<1>8. Complete'
  BY <1>g, InPlace DEF Complete
<1>9. Taking'
  <2> SUFFICES ASSUME NEW v \in Worker, run'[v].kind = "backup" PROVE Takes(v)'
    BY DEF Taking
  <2>1. v # w /\ run[v].kind = "backup" /\ run'[v] = run[v] /\ Takes(v) /\ run[v].b \in Copies!Backup
    BY <1>d DEF Taking, WorkTyped, Copies!Busy
  <2>2. InDir(v) => run[v].dir \in Copies!Dir
    BY RunDir
  <2>3. QED BY <1>g, <2>1, <2>2, OthersTake
<1>10. Swapped'
  BY <1>a, <1>b DEF Swapped, Away
<1>11. Quiet'
  <2>1. CASE mixed'
    BY <2>1 DEF Quiet
  <2>2. CASE ~mixed'
    BY <1>b, <1>c, <1>e, <2>2 DEF Quiet, Copies!Busy
  <2>3. QED BY <2>1, <2>2
<1>12. PutBack'
  BY <1>c, <1>d, <1>e DEF PutBack, Restores, Copies!Busy
<1>13. QED BY <1>1, <1>2, <1>3, <1>4, <1>5, <1>6, <1>7, <1>8, <1>9, <1>10, <1>11,
      <1>12 DEF CopiesInv, Typed

LEMMA RestoreStartsKeeps ==
  ASSUME CopiesInv, Copies!BackupsAssumption, NEW w \in Worker, RestoreStarts(w)
  PROVE  CopiesInv'
<1> SUFFICES ASSUME SiteTyped /\ StoreTyped /\ WorkTyped /\ SwapTyped /\ PastTyped /\ Stages /\
                    OneEach /\ Known /\ OwnDirs /\ OwnRun /\ NoHalf /\ Complete /\ Taking /\
                    Swapped /\ Quiet /\ PutBack
             PROVE  CopiesInv'
  BY DEF CopiesInv, Typed
<1>   root' = root /\ db' = db /\ row' = row /\ disk' = disk /\ bucket' = bucket /\
      jobs' = jobs /\ asking' = asking /\ page' = page /\ staging' = staging /\ aside' = aside /\
      left' = left /\ was' = was /\ mixed' = mixed /\ parted' = parted /\ cut' = cut /\
      asked' = asked /\ runs' = runs /\ restores' = restores /\ version' = version /\
      troubles' = troubles
  BY DEF RestoreStarts, Copies!store, Copies!queue, Copies!swap, Copies!history, Copies!copies,
     Copies!caps
<1>a. run[w].kind = "restore" /\ run[w].at = "begin"
  BY DEF RestoreStarts, Copies!store, Copies!queue, Copies!swap, Copies!history, Copies!copies,
     Copies!caps, Copies!Doing
<1>b. /\ run' \in [Worker -> Place] /\ run'[w].at \in {"download", "extract", "empty"} /\ run'[w].kind = "restore"
      /\ run'[w].b = run[w].b /\ run'[w].dir = Copies!TakenAt(run[w].b) /\ run'[w].got = run[w].got
      /\ run'[w].at = "download" <=> run[w].b \in Remote
      /\ run[w].b \notin Remote => disk[row[run[w].b].dir].there
      /\ run'[w].at = "empty" => disk[row[run[w].b].dir].copy.files = Copies!Nil
      /\ \A v \in Worker : v # w => run'[v] = run[v]
      /\ \A v \in Worker : run'[v].kind = run[v].kind /\ run'[v].b = run[v].b
            /\ (run'[v].at = "unrow" => run'[v].old \in Copies!Backup)
  <2>0. run[w] \in Place /\ {"download", "extract", "empty"} \subseteq Copies!At /\ run[w].b \in Copies!Backup
    BY <1>a DEF WorkTyped, Copies!At, Copies!Busy
  <2> DEFINE d == Copies!TakenAt(run[w].b)
             s == IF run[w].b \in Remote THEN "download"
                  ELSE IF disk[row[run[w].b].dir].copy.files # Copies!Nil THEN "extract" ELSE "empty"
  <2>1. /\ run' = [run EXCEPT ![w].dir = d, ![w].at = s]
        /\ s \in {"download", "extract", "empty"}
        /\ s = "download" <=> run[w].b \in Remote
        /\ s = "empty" => disk[row[run[w].b].dir].copy.files = Copies!Nil
    BY DEF RestoreStarts, Copies!TakenAt
  <2>2. d \in 0..MaxRuns
    BY <2>0, <2>1 DEF StoreTyped, Record, Copies!TakenAt
  <2>a. s \in Copies!At
    BY <2>0, <2>1
  <2> HIDE DEF d, s
  <2>3. /\ run'[w] = [run[w] EXCEPT !.dir = d, !.at = s]
        /\ \A v \in Worker : v # w => run'[v] = run[v]
    BY <2>1 DEF WorkTyped
  <2>4. /\ run'[w] \in Place /\ run'[w].at = s /\ run'[w].kind = run[w].kind
        /\ run'[w].b = run[w].b /\ run'[w].dir = d /\ run'[w].got = run[w].got
    BY <2>0, <2>a, <2>2, <2>3, Zenon DEF Place
  <2>5. run' \in [Worker -> Place]
    BY <2>1, <2>3, <2>4 DEF WorkTyped
  <2>6. run[w].b \notin Remote => disk[row[run[w].b].dir].there
    BY DEF RestoreStarts
  <2>7. QED BY <1>a, <2>1, <2>3, <2>4, <2>5, <2>6 DEF WorkTyped, d
<1>c. run[w].b \in Copies!Backup /\ ~Restores(w) /\ ~InDir(w) /\ Copies!Busy(w) /\ run[w] \in Place /\ row[run[w].b] \in Record
  BY <1>a DEF Restores, InDir, WorkTyped, StoreTyped, Copies!Busy
<1>d. \A v \in Worker : /\ InDir(v)' => InDir(v) /\ run'[v] = run[v] /\ v # w
                        /\ Restores(v)' => v = w \/ (Restores(v) /\ run'[v] = run[v])
                        /\ run'[v].kind = "backup" => run'[v] = run[v] /\ v # w
  BY <1>a, <1>b, <1>c DEF Restores, InDir, Making
<1>e. ~mixed => \A v \in Worker : Copies!Busy(v) => v = w
  BY <1>a, <1>c DEF Quiet
<1>f. \A b \in Copies!Backup : Going(b) => Going(b)'
  BY <1>a, <1>b DEF Going, Copies!Removing
<1>g. \A b \in Copies!Backup : Copies!TakenAt(b) \in Copies!Dir /\ Holding(b) => Holding(b)'
  BY <1>f, StillHolding
<1>h. status' = "deploying" /\ row[run[w].b].status = "complete" 
  BY DEF RestoreStarts, Copies!store, Copies!queue, Copies!swap, Copies!history, Copies!copies,
     Copies!caps
<1>i. Copies!TakenAt(run[w].b) \in Copies!Dir /\ Copies!TakenAt(run[w].b) \in 1..runs /\ Holding(run[w].b)
  <2>1. Copies!TakenAt(run[w].b) \in Copies!Dir /\ Holding(run[w].b)
    BY <1>c, <1>h, InPlace DEF Complete
  <2>2. Copies!TakenAt(run[w].b) <= runs
    BY <1>c DEF OwnDirs, Owned, Copies!TakenAt
  <2>3. QED BY <2>1, <2>2, CopyBounds DEF Copies!Dir, PastTyped
<1>1. SiteTyped'
  BY <1>h DEF SiteTyped
<1>2. StoreTyped' /\ SwapTyped' /\ PastTyped' /\ Known'
  BY DEF StoreTyped, SwapTyped, PastTyped, Known
<1>3. WorkTyped'
  BY <1>b DEF WorkTyped, Copies!Busy
<1>4. Stages'
  BY <1>a, <1>b, <1>c DEF Stages, Making, Restoring
<1>5. OneEach'
  BY <1>a, <1>b DEF OneEach, Copies!Busy
<1>6. OwnDirs'
  BY DEF OwnDirs, Owned, Copies!TakenAt, Copies!NoDir
<1>7. OwnRun'
  BY <1>b, <1>d, <1>i DEF OwnRun, Owns
<1>8. NoHalf'
  BY <1>b DEF NoHalf, Copies!Part, Copies!Nil
<1>9. Complete'
  BY <1>g, InPlace DEF Complete
<1>10. Taking'
  <2> SUFFICES ASSUME NEW v \in Worker, run'[v].kind = "backup" PROVE Takes(v)'
    BY DEF Taking
  <2>1. v # w /\ run[v].kind = "backup" /\ run'[v] = run[v] /\ Takes(v) /\ run[v].b \in Copies!Backup
    BY <1>d DEF Taking, WorkTyped, Copies!Busy
  <2>2. InDir(v) => run[v].dir \in Copies!Dir
    BY RunDir
  <2>3. QED BY <1>g, <2>1, <2>2, OthersTake
<1>11. Swapped'
  BY <1>a, <1>b DEF Swapped, Away
<1>12. Quiet'
  <2>1. CASE mixed'
    BY <2>1 DEF Quiet
  <2>2. CASE ~mixed'
    BY <1>b, <1>c, <1>e, <1>h, <2>2 DEF Quiet, Copies!Busy
  <2>3. QED BY <2>1, <2>2
<1>13. PutBack'
  <2> SUFFICES ASSUME ~mixed, NEW v \in Worker, Restores(v)' PROVE Returns(v)'
    BY DEF PutBack
  <2>1. v = w
    BY <1>c, <1>d, <1>e DEF PutBack, Restores, Copies!Busy
  <2>2. run'[w].at = "download" => bucket[run'[w].dir] = Copies!Gone \/ bucket[run'[w].dir].copy = was[run'[w].dir]
    BY <1>b, <1>i DEF Holding, Stored, Both, Copies!TakenAt
  <2>3. run'[w].at # "download" => run'[w].at = "extract" /\ Copies!Source(w)' = was[run'[w].dir]
    <3>1. SUFFICES ASSUME run[w].b \notin Remote
                   PROVE  run'[w].at = "extract" /\ disk[run'[w].dir].copy = was[run'[w].dir]
      BY <1>b DEF Copies!Source
    <3>2. Both(disk[row[run[w].b].dir].copy, row[run[w].b].dir)
      BY <1>b, <1>i, <3>1 DEF Holding, Stored, Copies!Gone
    <3>3. QED BY <1>b, <3>1, <3>2 DEF Both, Copies!TakenAt
  <2>4. QED BY <1>b, <1>h, <2>1, <2>2, <2>3 DEF Returns, Restoring
<1>14. QED BY <1>1, <1>2, <1>3, <1>4, <1>5, <1>6, <1>7, <1>8, <1>9, <1>10, <1>11, <1>12,
      <1>13 DEF CopiesInv, Typed

LEMMA StartRestoreKeeps ==
  ASSUME CopiesInv, Copies!BackupsAssumption, NEW w \in Worker, Copies!StartRestore(w)
  PROVE  CopiesInv'
<1>0. PastTyped
  BY DEF CopiesInv, Typed
<1>1. troubles' \in {troubles, troubles + 1} /\ troubles' \in 0..MaxTroubles
  BY <1>0, CopyBounds DEF Copies!StartRestore, Copies!Trouble, PastTyped
<1>2. RestoreStarts(w) \/ RestoreRefused(w)
  BY <1>1 DEF Copies!StartRestore, RestoreStarts, RestoreRefused
<1>3. QED BY <1>2, RestoreStartsKeeps, RestoreRefusedKeeps

LEMMA CrashKeeps ==
  ASSUME CopiesInv, Copies!BackupsAssumption, Copies!Crash
  PROVE  CopiesInv'
<1> SUFFICES ASSUME SiteTyped /\ StoreTyped /\ WorkTyped /\ SwapTyped /\ PastTyped /\ Stages /\
                    OneEach /\ Known /\ OwnDirs /\ OwnRun /\ NoHalf /\ Complete /\ Taking /\
                    Swapped /\ Quiet /\ PutBack
             PROVE  CopiesInv'
  BY DEF CopiesInv, Typed
<1>   root' = root /\ db' = db /\ status' = status /\ row' = row /\ disk' = disk /\
      bucket' = bucket /\ staging' = staging /\ was' = was /\ mixed' = mixed /\ asked' = asked /\
      runs' = runs /\ restores' = restores /\ version' = version
  BY DEF Copies!Crash, Copies!site, Copies!store, Copies!caps
<1>a. /\ page' = Copies!NoPage /\ page'.at = "idle" /\ asking' = {} /\ page' \in Removal
  BY CopyBounds DEF Copies!Crash, Copies!site, Copies!store, Copies!caps, Copies!NoPage,
     Removal, Row, Copies!NoDir
<1>b. /\ run' \in [Worker -> Place]
      /\ \A w \in Worker : run'[w].kind = "none" /\ run'[w].at = "idle" /\ run'[w].got.files = Copies!Nil
  <2>1. Copies!Idle \in Place
    BY CopyBounds DEF Copies!Idle, Place, Row, Copies!At, Copies!NoCopy, Half, Copies!Content,
       Copies!Nil, Copies!NoDir, Copies!Backup
  <2>2. QED BY <2>1 DEF Copies!Crash, Copies!Idle, Copies!NoCopy
<1>c. /\ jobs' \subseteq [kind : {"backup", "restore"}, b : Copies!Backup]
      /\ \A j \in jobs' : j.b <= asked
  <2> SUFFICES ASSUME NEW j \in jobs' PROVE j \in [kind : {"backup", "restore"}, b : Copies!Backup] /\ j.b <= asked
    OBVIOUS
  <2>1. CASE j \in jobs
    BY <2>1 DEF WorkTyped, OneEach
  <2>2. CASE j \notin jobs
    <3>1. PICK w \in Worker : Copies!Busy(w) /\ j = [kind |-> run[w].kind, b |-> run[w].b]
      BY <2>2 DEF Copies!Crash
    <3>2. run[w] \in Place /\ run[w].b \in Copies!Backup /\ run[w].b <= asked /\ run[w].kind \in {"backup", "restore"}
      BY <3>1 DEF WorkTyped, OneEach, Copies!Busy, Place
    <3>3. QED BY <3>1, <3>2
  <2>3. QED BY <2>1, <2>2
<1>d. /\ aside' = [w \in Worker |-> Copies!Nil] /\ aside' \in [Worker -> Copies!Content]
      /\ left \subseteq left' /\ \A w \in Worker : aside[w] # Copies!Nil => aside[w] \in left'
      /\ left' \subseteq Copies!Content
  BY DEF Copies!Crash, Copies!site, Copies!store, Copies!caps, SwapTyped, Copies!Content
<1>e. /\ parted' \in BOOLEAN /\ cut' \subseteq Copies!Backup /\ troubles' \in 0..MaxTroubles
      /\ parted => parted'
      /\ \A w \in Worker : Away(w) => parted'
      /\ parted' => parted \/ \E w \in Worker : aside[w] # Copies!Nil
      /\ \A b \in Copies!Backup : Going(b) => b \in cut'
  <2>1. troubles' \in 0..MaxTroubles
    BY CopyBounds DEF Copies!Crash, PastTyped, Copies!Trouble
  <2>2. cut' = cut \cup {b \in Copies!Backup : Copies!Removing(b)}
    BY DEF Copies!Crash
  <2>3. cut' \subseteq Copies!Backup /\ \A b \in Copies!Backup : Going(b) => b \in cut'
    BY <2>2 DEF PastTyped, Going
  <2>4. parted' = (parted \/ \E w \in Worker : run[w].at \in {"in", "back"} /\ aside[w] # Copies!Nil)
    BY DEF Copies!Crash
  <2>5. QED BY <2>1, <2>3, <2>4, Zenon DEF PastTyped, Away
<1>f. \A b \in Copies!Backup : Copies!TakenAt(b) \in Copies!Dir /\ Holding(b) => Holding(b)'
  <2>1. \A b \in Copies!Backup : Going(b) => Going(b)'
    BY <1>e DEF Going
  <2>2. QED BY <2>1, StillHolding
<1>1. SiteTyped' /\ StoreTyped' /\ Known'
  BY DEF SiteTyped, StoreTyped, Known
<1>2. WorkTyped'
  BY <1>a, <1>b, <1>c DEF WorkTyped, Copies!Busy
<1>3. SwapTyped'
  BY <1>d DEF SwapTyped
<1>4. PastTyped'
  BY <1>e DEF PastTyped
<1>5. Stages'
  BY <1>b DEF Stages
<1>6. OneEach'
  BY <1>a, <1>b, <1>c DEF OneEach, Copies!Busy
<1>7. OwnDirs'
  BY <1>a DEF OwnDirs, Owned, Copies!TakenAt
<1>8. OwnRun'
  BY <1>b DEF OwnRun, Restores, InDir
<1>9. NoHalf'
  BY <1>b, <1>d DEF NoHalf, Copies!Nil, Copies!Part
<1>10. Complete'
  BY <1>f, InPlace DEF Complete
<1>11. Taking'
  BY <1>b DEF Taking
<1>12. Swapped'
  BY <1>b, <1>d, <1>e DEF Swapped, Away
<1>13. Quiet'
  BY <1>b DEF Quiet, Copies!Busy
<1>14. PutBack'
  BY <1>b DEF PutBack, Restores
<1>15. QED BY <1>1, <1>2, <1>3, <1>4, <1>5, <1>6, <1>7, <1>8, <1>9, <1>10, <1>11, <1>12, <1>13,
      <1>14 DEF CopiesInv, Typed

LEMMA CopiesUnchanged ==
  ASSUME CopiesInv, Copies!BackupsAssumption, UNCHANGED Copies!vars
  PROVE  CopiesInv'
<1> SUFFICES ASSUME SiteTyped /\ StoreTyped /\ WorkTyped /\ SwapTyped /\ PastTyped /\ Stages /\
                    OneEach /\ Known /\ OwnDirs /\ OwnRun /\ NoHalf /\ Complete /\ Taking /\
                    Swapped /\ Quiet /\ PutBack
             PROVE  CopiesInv'
  BY DEF CopiesInv, Typed
<1>   root' = root /\ db' = db /\ status' = status /\ row' = row /\ disk' = disk /\
      bucket' = bucket /\ jobs' = jobs /\ asking' = asking /\ run' = run /\ page' = page /\
      staging' = staging /\ aside' = aside /\ left' = left /\ was' = was /\ mixed' = mixed /\
      parted' = parted /\ cut' = cut /\ asked' = asked /\ runs' = runs /\ restores' = restores /\
      version' = version /\ troubles' = troubles
  BY DEF Copies!vars, Copies!site, Copies!store, Copies!queue, Copies!swap, Copies!history,
     Copies!bounds
<1>1. SiteTyped' /\ StoreTyped' /\ WorkTyped' /\ SwapTyped' /\ PastTyped' /\ Known'
  BY DEF SiteTyped, StoreTyped, WorkTyped, Removal, Row, Copies!Busy, Copies!Backup,
     Copies!NoDir, SwapTyped, PastTyped, Known
<1>2. Stages'
  BY DEF Stages, Making, Restoring
<1>3. OneEach'
  BY DEF OneEach, Copies!Busy, Copies!Backup
<1>4. OwnDirs'
  BY DEF OwnDirs, Owned, Copies!TakenAt, Copies!NoDir
<1>5. OwnRun'
  BY DEF OwnRun, Owns, InDir, Restores, Making
<1>6. NoHalf'
  BY DEF NoHalf, Copies!Part, Copies!Nil
<1>7. Complete'
  BY Zenon DEF Complete, Holding, Stored, Both, Going, Copies!Removing, Copies!Gone
<1>8. Taking'
  BY SameTaking DEF Typed
<1>9. Swapped'
  BY DEF Swapped, Away, Copies!Nil, Copies!Part
<1>10. Quiet'
  BY DEF Quiet, Copies!Busy
<1>11. PutBack'
  BY DEF PutBack, Returns, Restores, Restoring, Copies!Source
<1>12. QED BY <1>1, <1>2, <1>3, <1>4, <1>5, <1>6, <1>7, <1>8, <1>9, <1>10, <1>11 DEF CopiesInv,
      Typed

LEMMA CopiesInit ==
  ASSUME Copies!BackupsAssumption, Copies!Init
  PROVE  CopiesInv
<1>1. Typed
  <2>0. 0 \in Copies!Content /\ Copies!Nil \in Copies!Content /\ Copies!NoCopy \in Half /\ Copies!Gone \in Held
    BY CopyBounds DEF Copies!Content, Copies!Version, Half, Held, Copies!Gone, Copies!NoCopy
  <2>1. SiteTyped
    BY <2>0 DEF Copies!Init, SiteTyped
  <2>2. Copies!NoRow \in Record
    BY CopyBounds DEF Copies!NoRow, Record, Copies!Status, Copies!NoDir
  <2>3. StoreTyped
    BY <2>0, <2>2 DEF Copies!Init, StoreTyped
  <2>4. Copies!Idle \in Place /\ Copies!NoPage \in Removal
    BY <2>0, CopyBounds DEF Copies!Idle, Place, Copies!NoPage, Removal, Row, Copies!At, Copies!NoDir
  <2>5. run \in [Worker -> Place] /\ page \in Removal /\ page.at = "idle"
        /\ \A w \in Worker : ~Copies!Busy(w) /\ run[w].at = "idle"
    BY <2>4 DEF Copies!Init, Copies!Busy, Copies!Idle, Copies!NoPage
  <2>6. WorkTyped
    BY <2>5 DEF Copies!Init, WorkTyped
  <2>7. SwapTyped
    BY <2>0 DEF Copies!Init, SwapTyped
  <2>8. PastTyped
    <3>1. \A n \in Nat : 0 \in 0..n
      OBVIOUS
    <3>2. /\ 0 \in 0..MaxBackups /\ 0 \in 0..MaxRuns /\ 0 \in 0..MaxRestores
          /\ 0 \in 0..MaxVersion /\ 0 \in 0..MaxTroubles
      BY <3>1, CopyBounds
    <3>3. was \in [Copies!Dir -> Half] /\ mixed \in BOOLEAN /\ parted \in BOOLEAN /\ cut \subseteq Copies!Backup
      BY <2>0, Zenon DEF Copies!Init
    <3>4. QED BY <3>2, <3>3 DEF Copies!Init, PastTyped
  <2>9. QED BY <2>1, <2>3, <2>6, <2>7, <2>8 DEF Typed
<1>2. /\ \A w \in Worker : run[w].kind = "none" /\ run[w].at = "idle" /\ run[w].got.files = Copies!Nil
      /\ \A b \in Copies!Backup : row[b] = Copies!NoRow
      /\ page.at = "idle"
  BY DEF Copies!Init, Copies!Idle, Copies!NoPage, Copies!NoCopy
<1>3. Copies!NoRow.status = "none" /\ Copies!NoRow.dir = Copies!NoDir /\ Copies!NoRow.key = Copies!NoDir
  BY DEF Copies!NoRow
<1>4. Stages /\ OneEach /\ Known /\ OwnRun /\ Complete /\ Taking /\ PutBack
  BY <1>2, <1>3 DEF Copies!Init, Stages, OneEach, Copies!Busy, Known, OwnRun, Restores, InDir,
     Complete, Taking, PutBack
<1>5. OwnDirs
  BY <1>2, <1>3 DEF Copies!Init, OwnDirs, Owned, Copies!NoDir
<1>6. NoHalf /\ Swapped /\ Quiet
  BY <1>2 DEF Copies!Init, NoHalf, Swapped, Away, Quiet, Copies!Busy, Copies!Nil, Copies!Part,
     Copies!Gone, Copies!NoCopy
<1>7. QED BY <1>1, <1>4, <1>5, <1>6 DEF CopiesInv

LEMMA CopiesMeans ==
  ASSUME CopiesInv, Copies!BackupsAssumption
  PROVE  Copies!TypeOK /\ Copies!CopiesKept
<1>0. Typed /\ Swapped /\ NoHalf /\ Complete /\ Quiet
  BY DEF CopiesInv
<1>1. Copies!TypeOK
  BY <1>0 DEF Copies!TypeOK, Typed, SiteTyped, StoreTyped, WorkTyped, SwapTyped, PastTyped, Held,
     Half, Record, Place
<1>2. Copies!RootSurvives
  BY <1>0 DEF Copies!RootSurvives, Swapped, Away, NoHalf
<1>3. ASSUME NEW b \in Copies!Backup, row[b].status = "complete", ~Copies!Removing(b), b \notin cut
      PROVE  /\ Copies!CopyOf(b).copy.files # Copies!Nil /\ Copies!CopyOf(b).copy.db # Copies!Nil
             /\ ~mixed => Copies!CopyOf(b).copy = was[Copies!TakenAt(b)]
  BY <1>0, <1>3 DEF Complete, Holding, Stored, Both, Going, Copies!CopyOf, Copies!TakenAt
<1>4. Copies!HalvesMatch
  BY <1>0, <1>3 DEF Copies!HalvesMatch, Quiet
<1>5. QED BY <1>1, <1>2, <1>4 DEF Copies!CopiesKept

LEMMA CopiesStep ==
  ASSUME CopiesInv, Copies!BackupsAssumption, Copies!Next \/ UNCHANGED Copies!vars
  PROVE  CopiesInv'
<1>1. CASE Copies!sitesBackupStore \/ Copies!mcpCreateSiteBackup \/ Copies!takeDueBackups
  BY <1>1, CreateBackupKeeps DEF Copies!sitesBackupStore, Copies!mcpCreateSiteBackup,
     Copies!takeDueBackups
<1>2. ASSUME NEW b \in Copies!Backup,
             \/ Copies!PushBackup(b) \/ Copies!sitesBackupRestore(b) \/ Copies!mcpRestoreSiteBackup(b)
             \/ Copies!sitesBackupDestroy(b) \/ Copies!mcpDeleteSiteBackup(b)
      PROVE  CopiesInv'
  BY <1>2, PushBackupKeeps, AskRestoreKeeps, RemoveBeginKeeps DEF Copies!sitesBackupRestore,
     Copies!mcpRestoreSiteBackup, Copies!sitesBackupDestroy, Copies!mcpDeleteSiteBackup
<1>3. CASE Copies!RemoveFiles \/ Copies!RemoveRow \/ Copies!Change \/ Copies!Crash
  BY <1>3, RemoveFilesKeeps, RemoveRowKeeps, ChangeKeeps, CrashKeeps
<1>4. ASSUME NEW w \in Worker,
             \/ \E j \in jobs : Copies!TakeJob(w, j)
             \/ Copies!StartBackup(w) \/ Copies!StorageMissing(w) \/ Copies!MakeRoom(w) \/ Copies!DumpDatabase(w)
             \/ Copies!ArchiveFiles(w) \/ Copies!Upload(w) \/ Copies!DropLocal(w) \/ Copies!MarkUploaded(w)
      PROVE  CopiesInv'
  BY <1>4, TakeBackupJobKeeps, StartBackupKeeps, StorageMissingKeeps, MakeRoomKeeps,
     DumpDatabaseKeeps,
     ArchiveFilesKeeps, UploadBackupKeeps, DropLocalKeeps, MarkUploadedKeeps
<1>5. ASSUME NEW w \in Worker,
             \/ Copies!FinishBackup(w) \/ Copies!BackupStepFails(w) \/ Copies!CleanUp(w) \/ Copies!BackupFails(w)
             \/ Copies!Prune(w) \/ Copies!PruneFiles(w) \/ Copies!PruneRow(w)
      PROVE  CopiesInv'
  BY <1>5, FinishBackupKeeps, BackupStepFailsKeeps, CleanUpKeeps, BackupFailsKeeps, PruneKeeps,
     PruneFilesKeeps, PruneRowKeeps
<1>6. ASSUME NEW w \in Worker,
             \/ Copies!StartRestore(w) \/ Copies!Download(w) \/ Copies!Extract(w) \/ Copies!Extracted(w)
             \/ Copies!MoveAside(w) \/ Copies!MoveIn(w) \/ Copies!MoveBack(w) \/ Copies!RemoveReplaced(w)
             \/ Copies!EmptyDatabase(w) \/ Copies!LoadDatabase(w) \/ Copies!EndRestore(w)
      PROVE  CopiesInv'
  BY <1>6, StartRestoreKeeps, DownloadKeeps, ExtractKeeps, ExtractedKeeps, MoveAsideKeeps,
     MoveInKeeps,
     MoveBackKeeps, RemoveReplacedKeeps, EmptyDatabaseKeeps, LoadDatabaseKeeps, EndRestoreKeeps
<1>7. CASE UNCHANGED Copies!vars
  BY <1>7, CopiesUnchanged
<1>8. CASE Copies!Next
  BY <1>1, <1>2, <1>3, <1>4, <1>5, <1>6, <1>8 DEF Copies!Next
<1>9. QED BY <1>7, <1>8

CopiesFocus == focus = "copies" => CopiesInv

LEMMA CopiesStarts == Init => CopiesFocus
<1> SUFFICES ASSUME Init, focus = "copies" PROVE CopiesInv
  BY DEF CopiesFocus
<1>1. Copies!Init
  BY DEF Init
<1>2. QED BY <1>1, CopiesAssumption, CopiesInit

LEMMA CopiesGoOn == CopiesFocus /\ [Next]_vars => CopiesFocus'
<1> SUFFICES ASSUME CopiesFocus, [Next]_vars, focus' = "copies" PROVE CopiesInv'
  BY DEF CopiesFocus
<1>1. focus = "copies" /\ (Copies!Next \/ UNCHANGED copyVars) /\ CopiesInv
  BY DEF Next, vars, CopiesFocus
<1>2. UNCHANGED copyVars => UNCHANGED Copies!vars
  BY DEF copyVars, Copies!vars, Copies!site, Copies!store, Copies!queue, Copies!swap,
     Copies!history, Copies!bounds
<1>3. Copies!Next \/ UNCHANGED Copies!vars
  BY <1>1, <1>2
<1>4. QED BY <1>1, <1>3, CopiesAssumption, CopiesStep

\* Through steps that fail, backups removed while they are read, two jobs at the
\* site and a panel that dies anywhere and runs its jobs again: the site's root is
\* never half of anything, and it is there but for the moment between the two
\* renames, when the old one is set aside, where a panel that dies leaves it; and a
\* complete backup nobody has begun to remove has both halves.  As long as no other job was at the site during a
\* restore and the owner changed nothing meanwhile, they are those of the moment
\* it began, and a restore that succeeded leaves the site's halves of one version
\* (sites/backup.go, Backup, Restore, restoreFiles and pruneBackups).
THEOREM BackupsAreWhole == Spec => []CopiesKept
<1>1. CopiesFocus => CopiesKept
  BY CopiesAssumption, CopiesMeans DEF CopiesFocus, CopiesKept
<1>2. QED BY <1>1, CopiesStarts, CopiesGoOn, PTL DEF Spec
=============================================================================
