------------------------ MODULE CommandTrackerProofs ------------------------
(***************************************************************************)
(* Proofs about CommandTracker, for any kinds of commands, any limit on    *)
(* the queue and any time-out.                                             *)
(***************************************************************************)
EXTENDS CommandTracker, SequenceTheorems, WellFoundedInduction, TLAPS

USE TrackerAssumption

-----------------------------------------------------------------------------
(* The queue of the tracker.                                               *)

LEMMA LeastOfNaturals ==
  ASSUME NEW T, T \subseteq Nat, T # {}
  PROVE  \E x \in T : \A y \in T : x <= y
  <1> DEFINE R == OpToRel(<, Nat)
  <1>1. PICK x \in T : \A y \in T : <<y, x>> \notin R
    <2>1. IsWellFoundedOn(R, Nat)
      BY NatLessThanWellFounded
    <2> HIDE DEF R
    <2> QED
      BY <2>1, WFMin
  <1>2. \A y \in T : ~(y < x)
    BY <1>1 DEF OpToRel
  <1> QED
    BY <1>2

\* The CHOOSE of Expired has a value: the entries before the first that has not
\* expired, or all.
LEMMA ExpiredIsPrefix ==
  ASSUME NEW queue \in Seq(Pending)
  PROVE  Expired(queue) \in 0 .. Len(queue)
  <1> DEFINE fresh == {i \in 1 .. Len(queue) : queue[i].age < ReplyTimeout}
             IsIt(n) == /\ \A i \in 1 .. n : queue[i].age >= ReplyTimeout
                        /\ n < Len(queue) => queue[n + 1].age < ReplyTimeout
  <1>0. \A i \in 1 .. Len(queue) : queue[i].age \in Nat
    <2>1. \A i \in 1 .. Len(queue) : queue[i] \in Pending
      OBVIOUS
    <2> QED
      BY <2>1 DEF Pending
  <1>1. \E n \in 0 .. Len(queue) : IsIt(n)
    <2>1. CASE fresh = {}
      <3>1. IsIt(Len(queue))
        BY <1>0, <2>1
      <3> QED
        BY <3>1
    <2>2. CASE fresh # {}
      <3>1. PICK x \in fresh : \A y \in fresh : x <= y
        <4>1. fresh \subseteq Nat
          OBVIOUS
        <4> HIDE DEF fresh
        <4> QED
          BY <2>2, <4>1, LeastOfNaturals
      <3>2. x - 1 \in 0 .. Len(queue) /\ IsIt(x - 1)
        BY <1>0, <3>1
      <3> QED
        BY <3>2
    <2> QED
      BY <2>1, <2>2
  <1> QED
    BY <1>1 DEF Expired

LEMMA DropExpiredType ==
  ASSUME NEW queue \in Seq(Pending)
  PROVE  /\ DropExpired(queue) \in Seq(Pending)
         /\ Len(DropExpired(queue)) <= Len(queue)
  BY ExpiredIsPrefix, SubSeqProperties DEF DropExpired

LEMMA EntryType ==
  ASSUME NEW b \in BOOLEAN
  PROVE  LET entry == [age |-> 0, automatic |-> b] IN entry \in Pending /\ entry.automatic = b
  BY DEF Pending

LEMMA TrackType ==
  ASSUME NEW queue \in Seq(Pending), NEW automatic \in BOOLEAN, Len(queue) <= MaxPending
  PROVE  /\ Track(queue, automatic) \in Seq(Pending)
         /\ Len(Track(queue, automatic)) <= MaxPending
  <1>1. [age |-> 0, automatic |-> automatic] \in Pending
    BY DEF Pending
  <1> QED
    BY <1>1 DEF Track

LEMMA RestType ==
  ASSUME NEW queue \in Seq(Pending)
  PROVE  Rest(queue) \in Seq(Pending) /\ Len(Rest(queue)) <= Len(queue)
  BY DEF Rest

LEMMA OlderType ==
  ASSUME NEW queue \in Seq(Pending)
  PROVE  /\ Older(queue) \in Seq(Pending)
         /\ Len(Older(queue)) = Len(queue)
         /\ \A i \in 1 .. Len(queue) : Older(queue)[i].automatic = queue[i].automatic
  <1>1. \A i \in 1 .. Len(queue) :
          LET entry == [queue[i] EXCEPT !.age = IF @ < ReplyTimeout THEN @ + 1 ELSE @] IN
          entry \in Pending /\ entry.automatic = queue[i].automatic
    <2> SUFFICES ASSUME NEW i \in 1 .. Len(queue)
                 PROVE  LET entry == [queue[i] EXCEPT !.age = IF @ < ReplyTimeout THEN @ + 1 ELSE @]
                        IN  entry \in Pending /\ entry.automatic = queue[i].automatic
      OBVIOUS
    <2>1. queue[i] \in Pending
      OBVIOUS
    <2> QED
      BY <2>1 DEF Pending
  <1>2. DOMAIN queue = 1 .. Len(queue) /\ Len(queue) \in Nat
    OBVIOUS
  <1>3. Older(queue) \in [1 .. Len(queue) -> Pending]
    BY <1>1, <1>2 DEF Older
  <1>4. \A i \in 1 .. Len(queue) : Older(queue)[i].automatic = queue[i].automatic
    BY <1>1, <1>2 DEF Older
  <1> QED
    BY <1>2, <1>3, <1>4

-----------------------------------------------------------------------------
(* The pipes.                                                              *)

LEMMA AppendType ==
  ASSUME NEW pipe \in Seq(BOOLEAN), NEW b \in BOOLEAN
  PROVE  Append(pipe, b) \in Seq(BOOLEAN)
  BY AppendProperties

LEMMA HeadTailType ==
  ASSUME NEW pipe \in Seq(BOOLEAN), pipe # <<>>
  PROVE  Head(pipe) \in BOOLEAN /\ Tail(pipe) \in Seq(BOOLEAN)
  BY HeadTailProperties

LEMMA EmptyType ==
  /\ Empty \in [Kinds -> Seq(Pending)] /\ Empty \in [Kinds -> Seq(BOOLEAN)]
  /\ \A k \in Kinds : Len(Empty[k]) = 0
  BY EmptySeq DEF Empty

LEMMA ChangedType ==
  ASSUME NEW S, NEW f \in [Kinds -> S], NEW k \in Kinds, NEW v \in S
  PROVE  [f EXCEPT ![k] = v] \in [Kinds -> S]
  OBVIOUS

-----------------------------------------------------------------------------
(* The invariant.                                                          *)

\* Without a loss, the queue is what the pipes hold, in order: first the replies
\* that were given, then the commands that wait to be read.
Agree(queue, given, waiting) ==
  /\ Len(queue) = Len(given) + Len(waiting)
  /\ \A i \in 1 .. Len(given) : queue[i].automatic = given[i]
  /\ \A i \in 1 .. Len(waiting) : queue[Len(given) + i].automatic = waiting[i]

Match(k) == Agree(tracker[k], pipeOut[k], pipeIn[k])

Attribution ==
  /\ open /\ ~disturbed => \A k \in Kinds : Match(k)
  /\ ~open => tracker = Empty /\ pipeIn = Empty

IInv == TypeOK /\ Attribution /\ RepliesReachWhoAsked

LEMMA NoVerdictType ==
  /\ NoVerdict \in [automatic : BOOLEAN, suppressed : BOOLEAN, inSession : BOOLEAN]
  /\ ~NoVerdict.suppressed /\ ~NoVerdict.automatic
  BY DEF NoVerdict

LEMMA InitIInv == Init => IInv
  <1> SUFFICES ASSUME Init PROVE IInv
    OBVIOUS
  <1>1. TypeOK
    <2>1. typed \in 0 .. MaxTyped /\ \A k \in Kinds : Len(tracker[k]) <= MaxPending
      BY EmptyType DEF Init
    <2>2. open \in BOOLEAN /\ stopping \in BOOLEAN /\ disturbed \in BOOLEAN
      BY DEF Init
    <2> QED
      BY <2>1, <2>2, EmptyType, NoVerdictType DEF Init, TypeOK
  <1>2. Attribution /\ RepliesReachWhoAsked
    BY NoVerdictType DEF Init, Attribution, RepliesReachWhoAsked
  <1> QED
    BY <1>1, <1>2 DEF IInv

LEMMA TypeStep == TypeOK /\ [Next]_vars => TypeOK'
  <1> SUFFICES ASSUME TypeOK, [Next]_vars PROVE TypeOK'
    OBVIOUS
  <1> USE DEF TypeOK
  <1>1. ASSUME NEW k \in Kinds, TypeCommand(k) PROVE TypeOK'
    <2>1. /\ Track(tracker[k], FALSE) \in Seq(Pending)
          /\ Len(Track(tracker[k], FALSE)) <= MaxPending
      BY TrackType
    <2>2. pipeIn' \in [Kinds -> Seq(BOOLEAN)]
      BY <1>1, AppendType, ChangedType DEF TypeCommand
    <2>3. /\ tracker' \in [Kinds -> Seq(Pending)]
          /\ \A j \in Kinds : Len(tracker'[j]) <= MaxPending
      BY <1>1, <2>1 DEF TypeCommand
    <2>4. disturbed' \in BOOLEAN
      BY <1>1 DEF TypeCommand
    <2>5. typed' \in 0 .. MaxTyped /\ UNCHANGED <<sessionVars, pipeOut, verdict>>
      BY <1>1 DEF TypeCommand
    <2> QED
      BY <2>2, <2>3, <2>4, <2>5 DEF sessionVars
  <1>2. ASSUME NEW k \in Kinds, Poll(k) PROVE TypeOK'
    <2> DEFINE queue == DropExpired(tracker[k])
    <2>1. queue \in Seq(Pending) /\ Len(queue) <= MaxPending
      BY DropExpiredType
    <2>2. pipeIn' = [pipeIn EXCEPT ![k] = Append(pipeIn[k], TRUE)] \/ UNCHANGED pipeIn
      BY <1>2 DEF Poll
    <2>3. \/ tracker' = [tracker EXCEPT ![k] = Track(queue, TRUE)]
          \/ tracker' = [tracker EXCEPT ![k] = queue]
      BY <1>2 DEF Poll
    <2>4. disturbed' \in BOOLEAN /\ UNCHANGED <<sessionVars, pipeOut, typed, verdict>>
      BY <1>2 DEF Poll
    <2> HIDE DEF queue
    <2>5. Track(queue, TRUE) \in Seq(Pending) /\ Len(Track(queue, TRUE)) <= MaxPending
      BY <2>1, TrackType
    <2>6. pipeIn' \in [Kinds -> Seq(BOOLEAN)]
      <3>1. CASE pipeIn' = [pipeIn EXCEPT ![k] = Append(pipeIn[k], TRUE)]
        BY <3>1, AppendType, ChangedType
      <3>2. CASE UNCHANGED pipeIn
        BY <3>2
      <3> QED
        BY <2>2, <3>1, <3>2
    <2>7. /\ tracker' \in [Kinds -> Seq(Pending)]
          /\ \A j \in Kinds : Len(tracker'[j]) <= MaxPending
      BY <2>1, <2>3, <2>5
    <2> QED
      BY <2>4, <2>6, <2>7 DEF sessionVars
  <1>3. ASSUME NEW k \in Kinds, Answer(k) PROVE TypeOK'
    <2>1. pipeIn' \in [Kinds -> Seq(BOOLEAN)] /\ pipeOut' \in [Kinds -> Seq(BOOLEAN)]
      BY <1>3, AppendType, HeadTailType, ChangedType DEF Answer
    <2> QED
      BY <1>3, <2>1 DEF Answer, sessionVars
  <1>4. ASSUME NEW k \in Kinds, Ignore(k) PROVE TypeOK'
    <2>1. pipeIn' \in [Kinds -> Seq(BOOLEAN)]
      BY <1>4, HeadTailType, ChangedType DEF Ignore
    <2> QED
      BY <1>4, <2>1 DEF Ignore, sessionVars
  <1>5. ASSUME NEW k \in Kinds, Reply(k) PROVE TypeOK'
    <2>1. Rest(tracker[k]) \in Seq(Pending) /\ Len(Rest(tracker[k])) <= MaxPending
      BY RestType
    <2>2. pipeOut' \in [Kinds -> Seq(BOOLEAN)] /\ Head(pipeOut[k]) \in BOOLEAN
      BY <1>5, HeadTailType, ChangedType DEF Reply
    <2>3. Consume(tracker[k]) \in BOOLEAN
      BY DEF Consume
    <2>4. verdict' \in [automatic : BOOLEAN, suppressed : BOOLEAN, inSession : BOOLEAN]
      BY <1>5, <2>2, <2>3 DEF Reply
    <2>5. /\ tracker' \in [Kinds -> Seq(Pending)]
          /\ \A j \in Kinds : Len(tracker'[j]) <= MaxPending
      BY <1>5, <2>1 DEF Reply
    <2> QED
      BY <1>5, <2>2, <2>4, <2>5 DEF Reply, sessionVars
  <1>6. CASE Tick
    <2>1. \A k \in Kinds : /\ Older(tracker[k]) \in Seq(Pending)
                           /\ Len(Older(tracker[k])) <= MaxPending
      BY OlderType
    <2>2. /\ tracker' \in [Kinds -> Seq(Pending)]
          /\ \A j \in Kinds : Len(tracker'[j]) <= MaxPending
      BY <1>6, <2>1 DEF Tick
    <2> QED
      BY <1>6, <2>2 DEF Tick, sessionVars
  <1>7. CASE RequestStop \/ Exit \/ Start
    <2>1. typed' \in 0 .. MaxTyped /\ \A k \in Kinds : Len(tracker'[k]) <= MaxPending
      BY <1>7, EmptyType DEF RequestStop, Exit, Start
    <2>2. open' \in BOOLEAN /\ stopping' \in BOOLEAN /\ disturbed' \in BOOLEAN
      BY <1>7 DEF RequestStop, Exit, Start
    <2> QED
      BY <1>7, <2>1, <2>2, EmptyType, NoVerdictType DEF RequestStop, Exit, Start
  <1>8. CASE UNCHANGED vars
    BY <1>8 DEF vars, sessionVars
  <1> QED
    BY <1>1, <1>2, <1>3, <1>4, <1>5, <1>6, <1>7, <1>8 DEF Next

-----------------------------------------------------------------------------
(* Attribution.                                                            *)

LEMMA AgreeAppended ==
  ASSUME NEW queue \in Seq(Pending), NEW Value, NEW given \in Seq(Value),
         NEW waiting \in Seq(Value), NEW entry \in Pending, NEW b \in Value,
         entry.automatic = b, Agree(queue, given, waiting)
  PROVE  Agree(Append(queue, entry), given, Append(waiting, b))
  <1>1. Len(queue) \in Nat /\ Len(given) \in Nat /\ Len(waiting) \in Nat
    OBVIOUS
  <1>2. /\ Len(Append(queue, entry)) = Len(queue) + 1
        /\ \A i \in 1 .. Len(queue) : Append(queue, entry)[i] = queue[i]
        /\ Append(queue, entry)[Len(queue) + 1] = entry
    BY AppendProperties
  <1>3. /\ Len(Append(waiting, b)) = Len(waiting) + 1
        /\ \A i \in 1 .. Len(waiting) : Append(waiting, b)[i] = waiting[i]
        /\ Append(waiting, b)[Len(waiting) + 1] = b
    BY AppendProperties
  <1>4. Len(queue) = Len(given) + Len(waiting)
    BY DEF Agree
  <1>5. ASSUME NEW i \in 1 .. Len(given) PROVE Append(queue, entry)[i].automatic = given[i]
    BY <1>1, <1>2, <1>4, <1>5 DEF Agree
  <1>6. ASSUME NEW i \in 1 .. Len(waiting) + 1
        PROVE  Append(queue, entry)[Len(given) + i].automatic = Append(waiting, b)[i]
    <2>1. CASE i <= Len(waiting)
      <3>1. i \in 1 .. Len(waiting) /\ Len(given) + i \in 1 .. Len(queue)
        BY <1>1, <1>4, <2>1
      <3> QED
        BY <1>2, <1>3, <3>1 DEF Agree
    <2>2. CASE i = Len(waiting) + 1
      <3>1. Len(given) + i = Len(queue) + 1
        BY <1>1, <1>4, <2>2
      <3>2. Append(queue, entry)[Len(given) + i] = entry
        BY <1>2, <3>1
      <3>3. Append(waiting, b)[i] = b
        BY <1>3, <2>2
      <3> QED
        BY <3>2, <3>3
    <2>3. i <= Len(waiting) \/ i = Len(waiting) + 1
      BY <1>1
    <2> QED
      BY <2>1, <2>2, <2>3
  <1>7. Len(Append(queue, entry)) = Len(given) + Len(Append(waiting, b))
    BY <1>1, <1>2, <1>3, <1>4
  <1>8. 1 .. Len(Append(waiting, b)) = 1 .. Len(waiting) + 1
    BY <1>3
  <1> QED
    BY <1>5, <1>6, <1>7, <1>8 DEF Agree

LEMMA AgreeAnswered ==
  ASSUME NEW queue \in Seq(Pending), NEW given \in Seq(BOOLEAN), NEW waiting \in Seq(BOOLEAN),
         waiting # <<>>, Agree(queue, given, waiting)
  PROVE  Agree(queue, Append(given, Head(waiting)), Tail(waiting))
  <1>1. Len(waiting) \in Nat \ {0} /\ Len(given) \in Nat /\ Head(waiting) = waiting[1]
    OBVIOUS
  <1>2. /\ Len(Append(given, Head(waiting))) = Len(given) + 1
        /\ \A i \in 1 .. Len(given) : Append(given, Head(waiting))[i] = given[i]
        /\ Append(given, Head(waiting))[Len(given) + 1] = waiting[1]
    BY <1>1
  <1>3. /\ Len(Tail(waiting)) = Len(waiting) - 1
        /\ \A i \in 1 .. Len(waiting) - 1 : Tail(waiting)[i] = waiting[i + 1]
    BY <1>1
  <1> QED
    BY <1>1, <1>2, <1>3 DEF Agree

LEMMA AgreeReplied ==
  ASSUME NEW queue \in Seq(Pending), NEW given \in Seq(BOOLEAN), NEW waiting \in Seq(BOOLEAN),
         given # <<>>, Agree(queue, given, waiting)
  PROVE  /\ queue # <<>> /\ Head(queue).automatic = Head(given)
         /\ Agree(Tail(queue), Tail(given), waiting)
  <1>1. Len(given) \in Nat \ {0} /\ Len(waiting) \in Nat /\ Len(queue) \in Nat
    OBVIOUS
  <1>2. queue # <<>>
    BY <1>1 DEF Agree
  <1>3. /\ Len(Tail(queue)) = Len(queue) - 1 /\ Len(Tail(given)) = Len(given) - 1
        /\ \A i \in 1 .. Len(queue) - 1 : Tail(queue)[i] = queue[i + 1]
        /\ \A i \in 1 .. Len(given) - 1 : Tail(given)[i] = given[i + 1]
        /\ Head(queue) = queue[1] /\ Head(given) = given[1]
    BY <1>1, <1>2
  <1> QED
    BY <1>1, <1>2, <1>3 DEF Agree

LEMMA AgreeOlder ==
  ASSUME NEW queue \in Seq(Pending), NEW given \in Seq(BOOLEAN), NEW waiting \in Seq(BOOLEAN),
         Agree(queue, given, waiting)
  PROVE  Agree(Older(queue), given, waiting)
  <1>1. Len(queue) \in Nat /\ Len(given) \in Nat /\ Len(waiting) \in Nat
    OBVIOUS
  <1> QED
    BY <1>1, OlderType DEF Agree

LEMMA Matched == ASSUME IInv, open, ~disturbed, NEW k \in Kinds PROVE Match(k)
  BY DEF IInv, Attribution

\* A step on one kind of command leaves the others as they are.
LEMMA OthersMatch ==
  ASSUME NEW k \in Kinds, NEW t, NEW i, NEW o, NEW j \in Kinds, j # k, TypeOK, Match(j),
         tracker' = [tracker EXCEPT ![k] = t], pipeIn' = [pipeIn EXCEPT ![k] = i],
         pipeOut' = [pipeOut EXCEPT ![k] = o]
  PROVE  Match(j)'
  <1>1. tracker'[j] = tracker[j] /\ pipeIn'[j] = pipeIn[j] /\ pipeOut'[j] = pipeOut[j]
    BY DEF TypeOK
  <1> QED
    BY <1>1 DEF Match

LEMMA SentMatches ==
  ASSUME IInv, open, ~disturbed, NEW k \in Kinds, NEW b \in BOOLEAN,
         Len(tracker[k]) < MaxPending,
         tracker' = [tracker EXCEPT ![k] = Track(tracker[k], b)],
         pipeIn' = [pipeIn EXCEPT ![k] = Append(pipeIn[k], b)],
         pipeOut' = pipeOut
  PROVE  \A j \in Kinds : Match(j)'
  <1> DEFINE entry == [age |-> 0, automatic |-> b]
  <1>1. Len(tracker[k]) \in Nat /\ ~(Len(tracker[k]) >= MaxPending)
    BY DEF IInv, TypeOK
  <1>2. Track(tracker[k], b) = Append(tracker[k], entry)
    BY <1>1 DEF Track
  <1>3. entry \in Pending /\ entry.automatic = b
    BY EntryType
  <1> HIDE DEF entry
  <1>4. Match(k)'
    <2>1. /\ tracker[k] \in Seq(Pending) /\ pipeIn[k] \in Seq(BOOLEAN)
          /\ pipeOut[k] \in Seq(BOOLEAN)
      BY DEF IInv, TypeOK
    <2>2. Agree(tracker[k], pipeOut[k], pipeIn[k])
      BY Matched DEF Match
    <2>3. Agree(Append(tracker[k], entry), pipeOut[k], Append(pipeIn[k], b))
      BY <1>3, <2>1, <2>2, AgreeAppended
    <2> QED
      BY <1>2, <2>3 DEF Match, IInv, TypeOK
  <1>5. pipeOut' = [pipeOut EXCEPT ![k] = pipeOut[k]]
    BY DEF IInv, TypeOK
  <1> QED
    BY <1>4, <1>5, OthersMatch, Matched DEF IInv

LEMMA TypedMatches ==
  ASSUME IInv, NEW k \in Kinds, TypeCommand(k), ~disturbed' PROVE \A j \in Kinds : Match(j)'
  <1>1. open /\ ~(disturbed \/ Len(tracker[k]) >= MaxPending)
    BY DEF TypeCommand, CanSend
  <1>2. Len(tracker[k]) < MaxPending
    BY <1>1 DEF IInv, TypeOK
  <1> QED
    BY <1>1, <1>2, SentMatches DEF TypeCommand

\* A poll that drops an expired entry disturbs the session; one that is sent
\* finds the queue empty.
LEMMA PollMatches ==
  ASSUME IInv, NEW k \in Kinds, Poll(k), ~disturbed' PROVE \A j \in Kinds : Match(j)'
  <1>1. open /\ ~disturbed /\ DropExpired(tracker[k]) = tracker[k] /\ pipeOut' = pipeOut
    BY DEF Poll
  <1>2. CASE tracker[k] = <<>> /\ ~stopping
    <2>1. Len(tracker[k]) < MaxPending
      BY <1>2
    <2> QED
      BY <1>1, <1>2, <2>1, SentMatches DEF Poll
  <1>3. CASE ~(tracker[k] = <<>> /\ ~stopping)
    <2>1. tracker' = tracker /\ pipeIn' = pipeIn
      BY <1>1, <1>3 DEF Poll, IInv, TypeOK
    <2> QED
      BY <1>1, <2>1, Matched DEF Match
  <1> QED
    BY <1>2, <1>3

LEMMA AnswerMatches ==
  ASSUME IInv, NEW k \in Kinds, Answer(k), ~disturbed' PROVE \A j \in Kinds : Match(j)'
  <1>1. /\ open /\ ~disturbed /\ pipeIn[k] # <<>> /\ tracker' = tracker
        /\ pipeIn' = [pipeIn EXCEPT ![k] = Tail(pipeIn[k])]
        /\ pipeOut' = [pipeOut EXCEPT ![k] = Append(pipeOut[k], Head(pipeIn[k]))]
    BY DEF Answer
  <1>2. /\ tracker[k] \in Seq(Pending) /\ pipeIn[k] \in Seq(BOOLEAN)
        /\ pipeOut[k] \in Seq(BOOLEAN)
    BY DEF IInv, TypeOK
  <1>3. Agree(tracker[k], Append(pipeOut[k], Head(pipeIn[k])), Tail(pipeIn[k]))
    BY <1>1, <1>2, Matched, AgreeAnswered DEF Match
  <1>4. Match(k)'
    BY <1>1, <1>3 DEF Match, IInv, TypeOK
  <1>5. tracker' = [tracker EXCEPT ![k] = tracker[k]]
    BY <1>1 DEF IInv, TypeOK
  <1> QED
    BY <1>1, <1>4, <1>5, OthersMatch, Matched DEF IInv

LEMMA ReplyMatches ==
  ASSUME IInv, NEW k \in Kinds, Reply(k), open, ~disturbed' PROVE \A j \in Kinds : Match(j)'
  <1>1. /\ ~disturbed /\ pipeOut[k] # <<>> /\ pipeIn' = pipeIn
        /\ tracker' = [tracker EXCEPT ![k] = Rest(tracker[k])]
        /\ pipeOut' = [pipeOut EXCEPT ![k] = Tail(pipeOut[k])]
    BY DEF Reply
  <1>2. /\ tracker[k] \in Seq(Pending) /\ pipeIn[k] \in Seq(BOOLEAN)
        /\ pipeOut[k] \in Seq(BOOLEAN)
    BY DEF IInv, TypeOK
  <1>3. tracker[k] # <<>> /\ Agree(Tail(tracker[k]), Tail(pipeOut[k]), pipeIn[k])
    BY <1>1, <1>2, Matched, AgreeReplied DEF Match
  <1>4. Match(k)'
    BY <1>1, <1>3 DEF Match, Rest, IInv, TypeOK
  <1>5. pipeIn' = [pipeIn EXCEPT ![k] = pipeIn[k]]
    BY <1>1 DEF IInv, TypeOK
  <1> QED
    BY <1>1, <1>4, <1>5, OthersMatch, Matched DEF IInv

LEMMA TickMatches ==
  ASSUME IInv, Tick, open, ~disturbed' PROVE \A j \in Kinds : Match(j)'
  <1> SUFFICES ASSUME NEW j \in Kinds PROVE Match(j)'
    OBVIOUS
  <1>1. /\ ~disturbed /\ tracker'[j] = Older(tracker[j])
        /\ pipeIn' = pipeIn /\ pipeOut' = pipeOut
    BY DEF Tick
  <1>2. /\ tracker[j] \in Seq(Pending) /\ pipeIn[j] \in Seq(BOOLEAN)
        /\ pipeOut[j] \in Seq(BOOLEAN)
    BY DEF IInv, TypeOK
  <1> QED
    BY <1>1, <1>2, Matched, AgreeOlder DEF Match

LEMMA StartMatches ==
  ASSUME tracker' = Empty, pipeIn' = Empty, pipeOut' = Empty PROVE \A j \in Kinds : Match(j)'
  BY EmptyType DEF Match, Agree

LEMMA AttributionStep == IInv /\ [Next]_vars => Attribution'
  <1> SUFFICES ASSUME IInv, [Next]_vars PROVE Attribution'
    OBVIOUS
  <1> USE DEF Attribution
  <1>0. TypeOK /\ Attribution
    BY DEF IInv
  <1>1. ASSUME NEW k \in Kinds, TypeCommand(k) PROVE Attribution'
    BY <1>1, TypedMatches DEF TypeCommand, CanSend, sessionVars
  <1>2. ASSUME NEW k \in Kinds, Poll(k) PROVE Attribution'
    BY <1>2, PollMatches DEF Poll, sessionVars
  <1>3. ASSUME NEW k \in Kinds, Answer(k) PROVE Attribution'
    BY <1>3, AnswerMatches DEF Answer, sessionVars
  <1>4. ASSUME NEW k \in Kinds, Ignore(k) PROVE Attribution'
    BY <1>4 DEF Ignore, sessionVars
  <1>5. ASSUME NEW k \in Kinds, Reply(k) PROVE Attribution'
    <2>1. CASE ~open
      <3>1. tracker' = Empty
        <4>1. tracker = Empty /\ Rest(tracker[k]) = tracker[k]
          BY <1>0, <2>1 DEF Empty, Rest
        <4> QED
          BY <1>5, <4>1 DEF Reply, Empty
      <3> QED
        BY <1>0, <1>5, <2>1, <3>1 DEF Reply, sessionVars
    <2>2. CASE open
      BY <1>5, <2>2, ReplyMatches DEF Reply, sessionVars
    <2> QED
      BY <2>1, <2>2
  <1>6. CASE Tick
    <2>1. open
      BY <1>0, <1>6, EmptyType DEF Tick, Empty
    <2> QED
      BY <1>6, <2>1, TickMatches DEF Tick, sessionVars
  <1>7. CASE RequestStop
    BY <1>0, <1>7 DEF RequestStop, CanSend, Match
  <1>8. CASE Exit
    BY <1>8 DEF Exit
  <1>9. CASE Start
    BY <1>0, <1>9, EmptyType, StartMatches DEF Start
  <1>10. CASE UNCHANGED vars
    BY <1>0, <1>10 DEF vars, sessionVars, Match
  <1> QED
    BY <1>1, <1>2, <1>3, <1>4, <1>5, <1>6, <1>7, <1>8, <1>9, <1>10 DEF Next

-----------------------------------------------------------------------------
(* The verdicts.                                                           *)

LEMMA VerdictStep == IInv /\ [Next]_vars => RepliesReachWhoAsked'
  <1> SUFFICES ASSUME IInv, [Next]_vars, ~disturbed'
               PROVE  /\ verdict'.suppressed => verdict'.automatic
                      /\ verdict'.inSession /\ verdict'.automatic => verdict'.suppressed
    BY DEF RepliesReachWhoAsked
  <1>0. TypeOK /\ Attribution /\ RepliesReachWhoAsked
    BY DEF IInv
  <1>1. CASE Start
    BY <1>1, NoVerdictType DEF Start
  <1>2. ASSUME NEW k \in Kinds, Reply(k)
        PROVE  /\ verdict'.suppressed => verdict'.automatic
               /\ verdict'.inSession /\ verdict'.automatic => verdict'.suppressed
    <2>1. /\ verdict' = [automatic |-> Head(pipeOut[k]), suppressed |-> Consume(tracker[k]),
                         inSession |-> open]
          /\ pipeOut[k] # <<>> /\ ~disturbed
      BY <1>2 DEF Reply
    <2>2. CASE ~open
      BY <1>0, <2>1, <2>2 DEF Attribution, Empty, Consume
    <2>3. CASE open
      <3>1. Match(k)
        BY <2>1, <2>3, Matched
      <3>2. tracker[k] # <<>> /\ Head(tracker[k]).automatic = Head(pipeOut[k])
        BY <1>0, <2>1, <3>1, AgreeReplied DEF TypeOK, Match
      <3> QED
        BY <2>1, <3>2 DEF Consume
    <2> QED
      BY <2>2, <2>3
  <1>3. CASE UNCHANGED verdict /\ ~disturbed
    BY <1>0, <1>3 DEF RepliesReachWhoAsked
  <1>4. ASSUME NEW k \in Kinds, TypeCommand(k) \/ Poll(k) \/ Answer(k) \/ Ignore(k)
        PROVE  UNCHANGED verdict /\ ~disturbed
    <2>1. CASE TypeCommand(k)
      BY <2>1 DEF TypeCommand
    <2>2. CASE Poll(k)
      BY <2>2 DEF Poll
    <2>3. CASE Answer(k) \/ Ignore(k)
      BY <2>3 DEF Answer, Ignore
    <2> QED
      BY <1>4, <2>1, <2>2, <2>3
  <1>5. CASE Tick \/ RequestStop \/ Exit
    BY <1>3, <1>5 DEF Tick, RequestStop, Exit
  <1>6. CASE UNCHANGED vars
    BY <1>3, <1>6 DEF vars
  <1> QED
    BY <1>1, <1>2, <1>3, <1>4, <1>5, <1>6 DEF Next

LEMMA SpecIInv == Spec => []IInv
  <1>1. IInv /\ [Next]_vars => IInv'
    BY TypeStep, AttributionStep, VerdictStep DEF IInv
  <1> QED
    BY <1>1, InitIInv, PTL DEF Spec

-----------------------------------------------------------------------------
(* Theorems.                                                               *)

\* Among the types, the queue of the tracker never outgrows MAX_PENDING_REPLIES.
THEOREM TrackerTypeCorrect == Spec => []TypeOK
  <1>1. IInv => TypeOK
    BY DEF IInv
  <1> QED
    BY <1>1, SpecIInv, PTL

\* pumpkin_command_consume_reply gives every recognised line to the command it
\* answers, for any mix of typed commands and polls, as long as no reply of the
\* session was lost, came after its entry had expired, or outran the queue.
THEOREM RepliesAreAttributed == Spec => []RepliesReachWhoAsked
  <1>1. IInv => RepliesReachWhoAsked
    BY DEF IInv
  <1> QED
    BY <1>1, SpecIInv, PTL
=============================================================================
