-------------------------- MODULE LatchPostProofs --------------------------
(***************************************************************************)
(* For every length of the stream and every width of the counters: the    *)
(* latch's own assertion, that a confirmed post is this post's, that the  *)
(* completion wait ends on the right frame, and that the protocol         *)
(* implements LatchDevice.                                                *)
(*                                                                        *)
(* The device's part of core is what a step may change of it: Steady says *)
(* that it changed nothing, and every command and every word of a stream  *)
(* is steady but the one CRC word that is accepted.                       *)
(***************************************************************************)
EXTENDS LatchPost, TLAPS

Requests == [seq : 1 .. SeqLimit, slot : Slots]

Steady(c, d) ==
    /\ d.scan = c.scan /\ d.queued = c.queued /\ d.mine = c.mine
    /\ d.accepted = c.accepted /\ d.pending = c.pending /\ d.active = c.active
    /\ d.attempted = c.attempted

(* A command or a word that is not accepted: no new receipt says it was,  *)
(* and a closed receiver stays closed.                                    *)
Unaccepted(c, d) ==
    /\ Steady(c, d)
    /\ d.receipt \in {c.receipt, "rejected"}
    /\ ~c.open => ~d.open

Takes(c, request, d) ==
    /\ c.open /\ ~Busy(c)
    /\ ~d.open /\ d.receipt \in {"accepted", "rejected"}
    /\ d.accepted = [tx |-> c.attempted, seq |-> request.seq]
    /\ d.pending = d.accepted
    /\ d.queued = request.slot /\ d.mine = "pending"
    /\ d.scan = c.scan /\ d.active = c.active /\ d.attempted = c.attempted

PostInvariant ==
    /\ TypeOK
    /\ AcceptedIsActive
    /\ RegistersFollow
    /\ FrameFollows
    /\ PostingAlone
    /\ ReceiptFollows
    /\ ConfirmedIsMine
    /\ pc \in {"check", "set", "words"} => sent <= PayloadWords

-----------------------------------------------------------------------------
(* A rejection (any of the latch's reject branches) changes no frame.     *)
LEMMA RejectedSteady ==
    ASSUME NEW c \in Cores
    PROVE  /\ Rejected(c) \in Cores
           /\ Unaccepted(c, Rejected(c))
           /\ ~Rejected(c).open
BY DEF Rejected, Cores, Unaccepted, Steady

(* A command other than SET (cmd_start) changes no frame.                 *)
LEMMA OtherCommandSteady ==
    ASSUME NEW c \in Cores
    PROVE  /\ OtherCommand(c) \in Cores
           /\ Unaccepted(c, OtherCommand(c))
           /\ ~OtherCommand(c).open
<1>1. CASE c.open
  BY <1>1, RejectedSteady DEF OtherCommand
<1>2. CASE ~c.open
  BY <1>2 DEF OtherCommand, Cores, Unaccepted, Steady
<1>. QED BY <1>1, <1>2

(* An accepted commit fills the pending and the accepted registers.       *)
LEMMA AcceptedTakes ==
    ASSUME NEW c \in Cores, NEW request \in Requests, c.open, ~Busy(c)
    PROVE  /\ Accepted(c, request) \in Cores
           /\ Takes(c, request, Accepted(c, request))
<1>1. [tx |-> c.attempted, seq |-> request.seq] \in Ids
  BY WireAssumption DEF Cores, Requests, Ids, Sequences
<1>2. Accepted(c, request) \in Cores
  BY <1>1 DEF Accepted, Cores, Requests
<1>. QED BY <1>2 DEF Accepted, Takes, Cores

(* One word of a SET stream (cmd_data): it is accepted, or no frame       *)
(* changes.                                                               *)
LEMMA WordEffect ==
    ASSUME NEW c \in Cores, NEW request \in Requests, NEW w \in 0 .. CrcWord
    PROVE  /\ Word(c, request, w) \in Cores
           /\ \/ Unaccepted(c, Word(c, request, w))
              \/ Takes(c, request, Word(c, request, w))
<1>1. CASE ~c.open
  <2>1. CASE c.faulted
    BY <1>1, <2>1 DEF Word, Unaccepted, Steady
  <2>2. CASE ~c.faulted
    BY <1>1, <2>2, RejectedSteady DEF Word
  <2>. QED BY <2>1, <2>2
<1>2. CASE c.open /\ c.expected < PayloadWords
  <2>. DEFINE d == [c EXCEPT !.expected = @ + 1, !.good = @ /\ w = c.expected + 1]
  <2>1. Word(c, request, w) = d
    BY <1>2 DEF Word
  <2>2. c.expected + 1 \in 0 .. PayloadWords
    BY <1>2, WireAssumption DEF Cores
  <2>3. d \in Cores
    BY <2>2 DEF Cores
  <2>4. Unaccepted(c, d)
    BY DEF Cores, Unaccepted, Steady
  <2>. QED BY <2>1, <2>3, <2>4
<1>3. CASE c.open /\ ~(c.expected < PayloadWords)
  <2>1. CASE c.good /\ w = CrcWord /\ ~Busy(c)
    BY <1>3, <2>1, AcceptedTakes DEF Word
  <2>2. CASE ~(c.good /\ w = CrcWord /\ ~Busy(c))
    BY <1>3, <2>2, RejectedSteady DEF Word
  <2>. QED BY <2>1, <2>2
<1>. QED BY <1>1, <1>2, <1>3

(* A word that reaches the latch twice is accepted at most once; what     *)
(* follows the acceptance can only reject the receipt (POST_CLOSE).       *)
LEMMA DoubledEffect ==
    ASSUME NEW c \in Cores, NEW request \in Requests, NEW w \in 0 .. CrcWord,
           NEW once, once = Word(c, request, w),
           NEW d, d = Word(once, request, w)
    PROVE  /\ d \in Cores
           /\ Unaccepted(c, d) \/ Takes(c, request, d)
<1>1. once \in Cores /\ (Unaccepted(c, once) \/ Takes(c, request, once))
  BY WordEffect
<1>2. d \in Cores /\ (Unaccepted(once, d) \/ Takes(once, request, d))
  BY <1>1, WordEffect
<1>3. CASE Unaccepted(c, once) /\ Unaccepted(once, d)
  BY <1>2, <1>3 DEF Unaccepted, Steady
<1>4. CASE Unaccepted(c, once) /\ Takes(once, request, d)
  BY <1>2, <1>4 DEF Unaccepted, Steady, Takes, Busy
<1>5. CASE Takes(c, request, once) /\ Unaccepted(once, d)
  BY <1>2, <1>5 DEF Unaccepted, Steady, Takes
<1>6. CASE Takes(c, request, once) /\ Takes(once, request, d)
  BY <1>6 DEF Takes
<1>. QED BY <1>1, <1>2, <1>3, <1>4, <1>5, <1>6

(* Whatever happens to a word on the wire, the latch accepts a frame or   *)
(* keeps what it has.                                                     *)
LEMMA StreamEffect ==
    ASSUME TypeOK, sent <= PayloadWords, NEW fate \in Fates, SendWord(fate)
    PROVE  /\ core' \in Cores
           /\ Unaccepted(core, core') \/ Takes(core, post, core')
<1>. DEFINE w == sent + 1
<1>1. core \in Cores /\ post \in Requests
  BY DEF TypeOK, Requests
<1>2. 0 \in 0 .. CrcWord /\ w \in 0 .. CrcWord
  BY WireAssumption DEF TypeOK, CrcWord
<1>3. CASE fate = "delivered"
  <2>1. core' = Word(core, post, w)
    BY <1>3 DEF SendWord
  <2>. QED BY <1>1, <1>2, <2>1, WordEffect
<1>4. CASE fate = "lost"
  <2>1. core' = core
    BY <1>4 DEF SendWord
  <2>. QED BY <1>1, <2>1 DEF Unaccepted, Steady
<1>5. CASE fate = "doubled"
  <2>1. core' = Word(Word(core, post, w), post, w)
    BY <1>5 DEF SendWord
  <2>. QED BY <1>1, <1>2, <2>1, DoubledEffect
<1>6. CASE fate = "damaged"
  <2>1. core' = Word(core, post, 0)
    BY <1>6 DEF SendWord
  <2>. QED BY <1>1, <1>2, <2>1, WordEffect
<1>. QED BY <1>3, <1>4, <1>5, <1>6 DEF Fates
-----------------------------------------------------------------------------
(* The latch and its poster start with clear registers and no post.       *)
LEMMA PostInit == Init => PostInvariant
<1>. SUFFICES ASSUME Init PROVE PostInvariant
  OBVIOUS
<1>1. NoId \in Ids
  BY WireAssumption DEF NoId, Ids, Sequences
<1>2. PICK output \in {Off, Foreign} :
        core = [open |-> FALSE, faulted |-> FALSE, good |-> FALSE, expected |-> 0,
                attempted |-> 0, receipt |-> "none",
                accepted |-> NoId, pending |-> NoId, active |-> NoId,
                scan |-> output, queued |-> NoSlot, mine |-> "nowhere"]
  BY DEF Init
<1>3. core \in Cores
  BY <1>1, <1>2, WireAssumption DEF Cores, NoSlot
<1>4. TypeOK
  BY <1>3, WireAssumption DEF Init, TypeOK, Slots, MaxReads
<1>5. core.scan \notin Slots
  BY <1>2 DEF Off, Foreign, Slots
<1>6. core.accepted = NoId /\ core.pending = NoId /\ core.active = NoId
      /\ core.mine = "nowhere" /\ core.queued = NoSlot
  BY <1>2
<1>. QED
  BY <1>4, <1>5, <1>6, WireAssumption
  DEF Init, PostInvariant, AcceptedIsActive, RegistersFollow, FrameFollows,
      PostingAlone, ReceiptFollows, ConfirmedIsMine, Busy

(* A new post (present_cached_full_frame, present_completed) takes the    *)
(* next sequence and owns no frame yet.                                   *)
LEMMA BeginPostStep ==
    ASSUME PostInvariant, NEW s \in Slots, BeginPost(s)
    PROVE  PostInvariant'
<1>. USE DEF PostInvariant
<1>1. core' \in Cores
  BY DEF BeginPost, TypeOK, Cores
<1>2. /\ core'.mine = "nowhere" /\ core'.queued = core.queued /\ core'.scan = core.scan
      /\ core'.accepted = core.accepted /\ core'.pending = core.pending
      /\ core'.active = core.active /\ core'.receipt = core.receipt
  BY DEF BeginPost, TypeOK, Cores
<1>3. next' \in 1 .. SeqLimit /\ post' \in [seq : 1 .. SeqLimit, slot : Slots]
  BY WireAssumption DEF BeginPost, TypeOK, NextSequence
<1>4. TypeOK'
  BY <1>1, <1>3, WireAssumption DEF BeginPost, TypeOK, MaxReads
<1>5. pc' = "check" /\ sent' = 0
  BY DEF BeginPost
<1>6. AcceptedIsActive' /\ RegistersFollow'
  BY <1>2 DEF AcceptedIsActive, RegistersFollow, Busy
<1>. QED
  BY <1>2, <1>4, <1>5, <1>6, WireAssumption
  DEF FrameFollows, PostingAlone, ReceiptFollows, ConfirmedIsMine

(* A read of the status or the receipt, the poster's or another client's, *)
(* changes no frame.                                                      *)
LEMMA ReadStep ==
    ASSUME PostInvariant, core' = OtherCommand(core)
    PROVE  /\ core' \in Cores /\ Unaccepted(core, core') /\ ~core'.open
           /\ AcceptedIsActive' /\ RegistersFollow'
<1>1. core' \in Cores /\ Unaccepted(core, core') /\ ~core'.open
  BY OtherCommandSteady DEF PostInvariant, TypeOK
<1>. QED
  BY <1>1 DEF PostInvariant, AcceptedIsActive, RegistersFollow, Unaccepted, Steady, Busy

(* The locked status: nothing is queued and the slot is not on screen.    *)
LEMMA CheckSlotStep == PostInvariant /\ CheckSlot => PostInvariant'
<1>. SUFFICES ASSUME PostInvariant, CheckSlot PROVE PostInvariant'
  OBVIOUS
<1>1. /\ core' \in Cores /\ Unaccepted(core, core')
      /\ AcceptedIsActive' /\ RegistersFollow'
  BY ReadStep DEF CheckSlot
<1>2. TypeOK'
  BY <1>1 DEF PostInvariant, CheckSlot, TypeOK
<1>3. core'.mine = "nowhere" /\ core'.queued = NoSlot /\ core'.scan # post.slot
  BY <1>1 DEF PostInvariant, CheckSlot, SlotIdle, Busy, PostingAlone, Unaccepted, Steady
<1>. QED
  BY <1>1, <1>2, <1>3
  DEF PostInvariant, CheckSlot, FrameFollows, PostingAlone, ReceiptFollows,
      ConfirmedIsMine, Busy

(* The SET command opens the receiver for a new transaction.              *)
LEMMA StartSetStep == PostInvariant /\ StartSet => PostInvariant'
<1>. SUFFICES ASSUME PostInvariant, StartSet PROVE PostInvariant'
  OBVIOUS
<1>. USE DEF PostInvariant
<1>1. (core.attempted + 1) % TxLimit \in 0 .. TxLimit - 1
  BY WireAssumption DEF TypeOK, Cores
<1>2. core' \in Cores
  <2>1. core' = [core EXCEPT !.attempted = (core.attempted + 1) % TxLimit,
                             !.receipt = "none", !.open = TRUE, !.faulted = FALSE,
                             !.good = TRUE, !.expected = 0]
    BY DEF StartSet, SetCommand, TypeOK, Cores
  <2>2. core \in Cores /\ 0 \in 0 .. PayloadWords
    BY WireAssumption DEF TypeOK
  <2>. QED BY <1>1, <2>1, <2>2 DEF Cores
<1>3. /\ core'.mine = core.mine /\ core'.queued = core.queued /\ core'.scan = core.scan
      /\ core'.accepted = core.accepted /\ core'.pending = core.pending
      /\ core'.active = core.active /\ core'.receipt = "none"
  BY DEF StartSet, SetCommand, TypeOK, Cores
<1>4. TypeOK'
  BY <1>2 DEF StartSet, TypeOK
<1>5. AcceptedIsActive' /\ RegistersFollow'
  BY <1>3 DEF AcceptedIsActive, RegistersFollow, Busy
<1>6. FrameFollows' /\ PostingAlone'
  BY <1>3 DEF StartSet, FrameFollows, PostingAlone, Busy
<1>. QED
  BY <1>3, <1>4, <1>5, <1>6 DEF StartSet, ReceiptFollows, ConfirmedIsMine

(* A word of the stream: at most the last one queues this post's frame.   *)
LEMMA SendWordStep ==
    ASSUME PostInvariant, NEW fate \in Fates, SendWord(fate)
    PROVE  PostInvariant'
<1>. USE DEF PostInvariant
<1>1. pc = "words" /\ sent <= PayloadWords /\ sent' = sent + 1
      /\ pc' = (IF sent' = CrcWord THEN "receipt" ELSE "words")
      /\ UNCHANGED <<next, post, reads>>
  BY DEF SendWord
<1>2. core' \in Cores /\ (Unaccepted(core, core') \/ Takes(core, post, core'))
  BY <1>1, StreamEffect
<1>3. TypeOK' /\ (pc' = "words" => sent' <= PayloadWords)
  BY <1>1, <1>2, WireAssumption DEF TypeOK, CrcWord
<1>4. CASE Unaccepted(core, core')
  <2>1. AcceptedIsActive' /\ RegistersFollow'
    BY <1>4 DEF Unaccepted, Steady, AcceptedIsActive, RegistersFollow, Busy
  <2>2. FrameFollows'
    BY <1>1, <1>4 DEF Unaccepted, Steady, FrameFollows, Busy
  <2>3. PostingAlone'
    BY <1>1, <1>4, <1>2 DEF Unaccepted, Steady, PostingAlone, Busy, TypeOK, Cores
  <2>4. ReceiptFollows' /\ ConfirmedIsMine'
    BY <1>1, <1>4 DEF Unaccepted, Steady, ReceiptFollows, ConfirmedIsMine
  <2>. QED BY <1>1, <1>3, <2>1, <2>2, <2>3, <2>4
<1>5. CASE Takes(core, post, core')
  <2>1. core'.queued # NoSlot /\ core'.pending.seq = post.seq
    BY <1>5 DEF Takes, TypeOK, Slots, NoSlot
  <2>2. AcceptedIsActive' /\ RegistersFollow'
    BY <1>5, <2>1 DEF Takes, AcceptedIsActive, RegistersFollow, Busy
  <2>3. FrameFollows' /\ PostingAlone'
    BY <1>1, <1>5, <2>1 DEF Takes, FrameFollows, PostingAlone, Busy
  <2>4. ReceiptFollows' /\ ConfirmedIsMine'
    BY <1>1, <1>5 DEF Takes, ReceiptFollows, ConfirmedIsMine
  <2>. QED BY <1>1, <1>3, <2>2, <2>3, <2>4
<1>. QED BY <1>2, <1>4, <1>5

(* The receipt check: what it accepts is this post's frame.               *)
LEMMA ReadReceiptStep == PostInvariant /\ ReadReceipt => PostInvariant'
<1>. SUFFICES ASSUME PostInvariant, ReadReceipt PROVE PostInvariant'
  OBVIOUS
<1>1. /\ core' \in Cores /\ Unaccepted(core, core') /\ ~core'.open
      /\ AcceptedIsActive' /\ RegistersFollow'
  BY ReadStep DEF ReadReceipt
<1>2. TypeOK'
  BY <1>1 DEF PostInvariant, ReadReceipt, TypeOK
<1>3. core.receipt = "accepted" /\ core.accepted.seq = post.seq
  <2>1. core'.receipt = "accepted" /\ core'.accepted.seq = post.seq
    BY DEF ReadReceipt, ReceiptOfPost
  <2>. QED BY <1>1, <2>1 DEF Unaccepted, Steady
<1>4. core.accepted # NoId
  BY <1>3, WireAssumption DEF PostInvariant, TypeOK, NoId
<1>5. core.mine # "nowhere"
  BY <1>3, <1>4 DEF PostInvariant, ReadReceipt, ReceiptFollows
<1>6. FrameFollows' /\ PostingAlone'
  BY <1>1 DEF PostInvariant, ReadReceipt, FrameFollows, PostingAlone, Unaccepted,
              Steady, Busy
<1>7. ReceiptFollows' /\ ConfirmedIsMine'
  BY <1>1, <1>5 DEF ReadReceipt, ReceiptFollows, ConfirmedIsMine, Unaccepted, Steady
<1>. QED BY <1>1, <1>2, <1>6, <1>7 DEF PostInvariant, ReadReceipt

(* The status reads after the post, the polls of the wait and the reads   *)
(* of other clients leave the frame where it is.                          *)
LEMMA StatusStep ==
    ASSUME PostInvariant, ReadStatus \/ AwaitCompletion \/ OtherReader
    PROVE  PostInvariant'
<1>1. core' = OtherCommand(core) /\ next' = next /\ post' = post /\ sent' = sent
  BY DEF ReadStatus, AwaitCompletion, OtherReader, poster
<1>2. /\ core' \in Cores /\ Unaccepted(core, core') /\ ~core'.open
      /\ AcceptedIsActive' /\ RegistersFollow'
  BY <1>1, ReadStep
<1>3. \/ pc = "status" /\ pc' \in {"status", "await"}
      \/ pc = "await" /\ pc' = "shown"
      \/ pc # "words" /\ pc' = pc
  BY DEF ReadStatus, AwaitCompletion, OtherReader, poster
<1>4. reads' \in 0 .. MaxReads
  BY DEF PostInvariant, TypeOK, ReadStatus, AwaitCompletion, OtherReader, poster, MaxReads
<1>5. TypeOK'
  BY <1>1, <1>2, <1>3, <1>4 DEF PostInvariant, TypeOK
<1>6. FrameFollows'
  BY <1>1, <1>2, <1>3 DEF PostInvariant, FrameFollows, Unaccepted, Steady, Busy
<1>7. PostingAlone'
  BY <1>1, <1>2, <1>3 DEF PostInvariant, PostingAlone, Unaccepted, Steady, Busy
<1>8. ReceiptFollows' /\ ConfirmedIsMine'
  BY <1>1, <1>2, <1>3
  DEF PostInvariant, ReceiptFollows, ConfirmedIsMine, Unaccepted, Steady
<1>. QED BY <1>1, <1>2, <1>3, <1>5, <1>6, <1>7, <1>8 DEF PostInvariant

(* An interrupted wait, a lost presenter and a stuttering step touch      *)
(* nothing of the latch.                                                  *)
LEMMA LeaveStep ==
    ASSUME PostInvariant, AwaitInterrupted \/ PresenterLost \/ UNCHANGED vars
    PROVE  PostInvariant'
<1>1. core' = core /\ post' = post /\ sent' = sent /\ reads' = reads
      /\ next' \in {1, next} /\ pc' \in {"idle", pc}
  BY DEF AwaitInterrupted, PresenterLost, vars
<1>2. TypeOK'
  BY <1>1, WireAssumption DEF PostInvariant, TypeOK
<1>. QED
  BY <1>1, <1>2
  DEF PostInvariant, AcceptedIsActive, RegistersFollow, FrameFollows, PostingAlone,
      ReceiptFollows, ConfirmedIsMine, Busy

(* apply: the queued frame becomes the active one.                        *)
LEMMA VBlankStep == PostInvariant /\ VBlank => PostInvariant'
<1>. SUFFICES ASSUME PostInvariant, VBlank PROVE PostInvariant'
  OBVIOUS
<1>. USE DEF PostInvariant
<1>1. NoId \in Ids
  BY WireAssumption DEF NoId, Ids, Sequences
<1>2. core.queued \in Slots
  BY DEF VBlank, Busy, TypeOK, Cores
<1>3. core' \in Cores
  BY <1>1, <1>2 DEF VBlank, Blank, TypeOK, Cores
<1>4. /\ core'.active = core.pending /\ core'.pending = NoId
      /\ core'.scan = core.queued /\ core'.queued = NoSlot
      /\ core'.accepted = core.accepted /\ core'.receipt = core.receipt
      /\ core'.open = core.open
      /\ core'.mine = IF core.mine = "pending" THEN "active" ELSE "nowhere"
  BY DEF VBlank, Blank, TypeOK, Cores
<1>5. AcceptedIsActive' /\ RegistersFollow'
  BY <1>2, <1>4 DEF VBlank, AcceptedIsActive, RegistersFollow, Busy
<1>6. TypeOK'
  BY <1>3 DEF VBlank, TypeOK, poster
<1>7. FrameFollows'
  BY <1>4 DEF VBlank, FrameFollows, Busy, poster
<1>8. PostingAlone'
  BY <1>4 DEF VBlank, PostingAlone, Busy, poster
<1>9. ReceiptFollows' /\ ConfirmedIsMine'
  BY <1>4 DEF VBlank, ReceiptFollows, ConfirmedIsMine, PostingAlone, poster
<1>. QED BY <1>5, <1>6, <1>7, <1>8, <1>9 DEF VBlank, poster

(* legacy_write: every register of the latch's ownership is cleared.      *)
LEMMA MainWritesStep ==
    ASSUME PostInvariant, NEW output \in {Off, Foreign}, MainWrites(output)
    PROVE  PostInvariant'
<1>. USE DEF PostInvariant
<1>. DEFINE c == OtherCommand(core)
<1>1. c \in Cores /\ Unaccepted(core, c) /\ ~c.open
  BY OtherCommandSteady DEF TypeOK
<1>2. NoId \in Ids /\ output \notin Slots
  BY WireAssumption DEF NoId, Ids, Sequences, Off, Foreign, Slots
<1>3. core' = [c EXCEPT !.active = NoId, !.accepted = NoId, !.pending = NoId,
                        !.scan = output, !.queued = NoSlot, !.mine = "nowhere"]
  BY DEF MainWrites, LegacyWrite
<1>. HIDE DEF c
<1>4. core' \in Cores
  BY <1>1, <1>2, <1>3 DEF Cores
<1>5. /\ core'.active = NoId /\ core'.accepted = NoId /\ core'.pending = NoId
      /\ core'.scan = output /\ core'.queued = NoSlot /\ core'.mine = "nowhere"
      /\ ~core'.open
  BY <1>1, <1>3 DEF Cores
<1>6. AcceptedIsActive' /\ RegistersFollow'
  BY <1>5 DEF AcceptedIsActive, RegistersFollow, Busy
<1>7. TypeOK'
  BY <1>4 DEF MainWrites, TypeOK, poster
<1>8. FrameFollows' /\ ReceiptFollows' /\ ConfirmedIsMine'
  BY <1>2, <1>5 DEF FrameFollows, ReceiptFollows, ConfirmedIsMine
<1>9. PostingAlone'
  <2>1. output # post.slot
    BY <1>2 DEF TypeOK
  <2>. QED BY <1>5, <2>1 DEF MainWrites, PostingAlone, Busy, poster
<1>. QED BY <1>6, <1>7, <1>8, <1>9 DEF MainWrites, poster

(* Every step of the poster, the latch, Main and the other readers.       *)
LEMMA PostStep == PostInvariant /\ [Next]_vars => PostInvariant'
BY BeginPostStep, CheckSlotStep, StartSetStep, SendWordStep, ReadReceiptStep,
   StatusStep, LeaveStep, VBlankStep, MainWritesStep
   DEF Next

-----------------------------------------------------------------------------
(* The registers, sequences and counters keep their widths: sequences     *)
(* stay in 1 .. SeqLimit although they wrap (wrapping_add(1).max(1)).     *)
THEOREM PostTypeCorrect == Spec => []TypeOK
<1>1. PostInvariant => TypeOK
  BY DEF PostInvariant
<1>. QED BY PostInit, PostStep, <1>1, PTL DEF Spec

(* The assertions at the end of the latch module hold.                    *)
THEOREM AcceptedIsActiveCorrect == Spec => []AcceptedIsActive
<1>1. PostInvariant => AcceptedIsActive
  BY DEF PostInvariant
<1>. QED BY PostInit, PostStep, <1>1, PTL DEF Spec

(* What the receipt confirms is this post's frame                         *)
(* (post_magik_latched_fbuf_rgb565_observed).                             *)
THEOREM ConfirmedIsMineCorrect == Spec => []ConfirmedIsMine
<1>1. PostInvariant => ConfirmedIsMine
  BY DEF PostInvariant
<1>. QED BY PostInit, PostStep, <1>1, PTL DEF Spec

(* wait_for_latch_completion returns only with this post's slot on screen *)
(* although it compares nothing but the sequence.                         *)
LEMMA CompletionStep ==
    ASSUME PostInvariant, [Next]_vars, pc = "await", pc' = "shown"
    PROVE  core.mine = "active" /\ core.scan = post.slot
<1>1. AwaitCompletion
  BY DEF Next, vars, poster, BeginPost, CheckSlot, StartSet, SendWord, ReadReceipt,
         ReadStatus, AwaitInterrupted, PresenterLost, VBlank, MainWrites, OtherReader
<1>2. core' = OtherCommand(core)
  BY <1>1 DEF AwaitCompletion
<1>3. Unaccepted(core, core')
  BY <1>2, ReadStep
<1>4. ~Busy(core) /\ core.active.seq = post.seq
  BY <1>1, <1>3 DEF AwaitCompletion, Complete, Busy, Unaccepted, Steady
<1>5. core.active # NoId
  BY <1>4, WireAssumption DEF PostInvariant, TypeOK, NoId
<1>6. core.mine # "nowhere"
  BY <1>5 DEF PostInvariant, RegistersFollow, ConfirmedIsMine
<1>7. core.mine # "pending"
  BY <1>4 DEF PostInvariant, FrameFollows, Busy, TypeOK, Slots, NoSlot
<1>8. core.mine = "active"
  BY <1>6, <1>7 DEF PostInvariant, TypeOK, Cores
<1>. QED BY <1>8 DEF PostInvariant, FrameFollows

(* The completion wait ends only on this very post's frame.               *)
THEOREM CompletionSoundCorrect == Spec => CompletionSound
<1>1. PostInvariant /\ [Next]_vars =>
        [pc = "await" /\ pc' = "shown" => core.mine = "active" /\ core.scan = post.slot]_vars
  BY CompletionStep
<1>. QED BY PostInit, PostStep, <1>1, PTL DEF Spec, CompletionSound

-----------------------------------------------------------------------------
(* Every step of the protocol is a step of the device or none of its.     *)
LEMMA DeviceStep ==
    PostInvariant /\ [Next]_vars => [Device!DeviceNext]_(Device!deviceVars)
<1>. SUFFICES ASSUME PostInvariant, [Next]_vars
              PROVE  [Device!DeviceNext]_(Device!deviceVars)
  OBVIOUS
<1>. USE DEF Device!deviceVars
<1>1. CASE \/ CheckSlot \/ ReadReceipt \/ ReadStatus \/ AwaitCompletion \/ OtherReader
  <2>1. core' = OtherCommand(core)
    BY <1>1 DEF CheckSlot, ReadReceipt, ReadStatus, AwaitCompletion, OtherReader
  <2>2. Unaccepted(core, core')
    BY <2>1, ReadStep
  <2>. QED BY <2>2 DEF Unaccepted, Steady
<1>2. ASSUME NEW s \in Slots, BeginPost(s)
      PROVE  UNCHANGED Device!deviceVars
  BY <1>2 DEF BeginPost, PostInvariant, TypeOK, Cores
<1>3. CASE StartSet
  BY <1>3 DEF StartSet, SetCommand, PostInvariant, TypeOK, Cores
<1>4. ASSUME NEW fate \in Fates, SendWord(fate)
      PROVE  [Device!DeviceNext]_(Device!deviceVars)
  <2>1. pc = "words" /\ sent <= PayloadWords
    BY <1>4 DEF SendWord, PostInvariant
  <2>2. Unaccepted(core, core') \/ Takes(core, post, core')
    BY <1>4, <2>1, StreamEffect DEF PostInvariant
  <2>3. CASE Unaccepted(core, core')
    BY <2>3 DEF Unaccepted, Steady
  <2>4. CASE Takes(core, post, core')
    <3>1. core.queued = NoSlot /\ core.scan # post.slot
      BY <2>1, <2>4 DEF Takes, Busy, PostInvariant, PostingAlone
    <3>2. core'.queued = post.slot /\ core'.scan = core.scan
      BY <2>4 DEF Takes
    <3>3. post.slot \in Device!Slots
      BY DEF PostInvariant, TypeOK, Slots, Device!Slots
    <3>. QED BY <3>1, <3>2, <3>3
             DEF Device!DeviceNext, Device!Accept, Device!NoSlot, NoSlot
  <2>. QED BY <2>2, <2>3, <2>4
<1>5. CASE AwaitInterrupted \/ PresenterLost \/ UNCHANGED vars
  BY <1>5 DEF AwaitInterrupted, PresenterLost, vars
<1>6. CASE VBlank
  <2>1. core.queued # NoSlot
    BY <1>6 DEF VBlank, Busy
  <2>2. core'.scan = core.queued /\ core'.queued = NoSlot
    BY <1>6 DEF VBlank, Blank, PostInvariant, TypeOK, Cores
  <2>. QED BY <2>1, <2>2 DEF Device!DeviceNext, Device!Flip, Device!NoSlot, NoSlot
<1>7. ASSUME NEW output \in {Off, Foreign}, MainWrites(output)
      PROVE  Device!DeviceNext
  <2>1. OtherCommand(core) \in Cores
    BY OtherCommandSteady DEF PostInvariant, TypeOK
  <2>2. core'.scan = output /\ core'.queued = NoSlot
    BY <1>7, <2>1 DEF MainWrites, LegacyWrite, Cores
  <2>. QED BY <2>2 DEF Device!DeviceNext, Device!Takeover, Device!NoSlot, NoSlot,
                       Device!Off, Device!Foreign, Off, Foreign
<1>. QED BY <1>1, <1>2, <1>3, <1>4, <1>5, <1>6, <1>7 DEF Next

(* The wire protocol implements the latch device that LatchSlots is       *)
(* written for.                                                           *)
THEOREM ImplementsDeviceCorrect == Spec => ImplementsDevice
<1>1. Init => Device!DeviceInit
  BY DEF Init, Device!DeviceInit, Device!Off, Device!Foreign, Device!NoSlot,
         Off, Foreign, NoSlot
<1>. QED BY <1>1, PostInit, PostStep, DeviceStep, PTL
         DEF Spec, ImplementsDevice, Device!DeviceSpec
=============================================================================
