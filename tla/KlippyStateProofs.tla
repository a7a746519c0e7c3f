-------------------------- MODULE KlippyStateProofs --------------------------
(***************************************************************************)
(* NewFramesAreAccepted and QuietIsTrue for every number of changes and     *)
(* closes.  Neither is inductive.  What a frame may do to the watermark      *)
(* depends on which session it was stamped with, and on what the wire can    *)
(* still hold; IInv says so of every place a frame can be: no frame on the   *)
(* wire is ahead of Klipper's clock, and a frame stamped with the current    *)
(* session, queued or half applied, exists only while that session is open.  *)
(* WInv, in the second half, follows the last word about a serving Klipper   *)
(* over the wire and both of the main thread's queues.                       *)
(***************************************************************************)
EXTENDS KlippyState, TLAPS

(* A message of the wire is not ahead of the clock t.                        *)
Fresh(m, t) == m.kind = "frame" => m.state = "shutdown" /\ m.tag <= t

AllFresh(s, t) == \A i \in 1..Len(s) : Fresh(s[i], t)

WireInv == (~link => wire = << >> /\ asked = {}) /\ AllFresh(wire, now)

(* A frame n that is waiting, or half applied, in session e with the socket  *)
(* open or not (l): if it may still move the watermark, it is not ahead.     *)
Fits(n, e, l, t) ==
    /\ n.epoch <= e
    /\ n.epoch = e /\ n.time > 0 => l /\ n.time <= t

AllFit(s, e, l, t) == \A i \in 1..Len(s) : Fits(s[i], e, l, t)

NotesInv ==
    /\ AllFit(notes, epoch, link, now)
    /\ applying # Nothing => Fits(applying, epoch, link, now)

GuardInv == (~link => watermark = 0) /\ NewFramesAreAccepted

IInv == TypeOK /\ WireInv /\ NotesInv /\ GuardInv

(* What a typed sequence gives when its first element is taken ...           *)
LEMMA Taking ==
    ASSUME NEW S, NEW s \in Seq(S), s # << >>
    PROVE  /\ Head(s) \in S /\ Head(s) = s[1]
           /\ Tail(s) \in Seq(S) /\ Len(Tail(s)) = Len(s) - 1 /\ Len(s) \in Nat \ {0}
           /\ \A i \in 1..Len(Tail(s)) : i + 1 \in 1..Len(s) /\ Tail(s)[i] = s[i + 1]
  OBVIOUS

(* ... or one is added.                                                      *)
LEMMA Adding ==
    ASSUME NEW S, NEW s \in Seq(S), NEW e \in S
    PROVE  /\ Append(s, e) \in Seq(S) /\ Len(Append(s, e)) = Len(s) + 1
           /\ Len(s) \in Nat /\ Append(s, e)[Len(s) + 1] = e
           /\ \A i \in 1..Len(s) : Append(s, e)[i] = s[i]
           /\ \A i \in 1..(Len(s) + 1) : i \in 1..Len(s) \/ i = Len(s) + 1
  OBVIOUS

(* The poll's record keeps its type however the poll changes ...             *)
LEMMA PollValues ==
    ASSUME poll \in Polls
    PROVE  /\ StartPoll \in Polls /\ StopPoll \in Polls /\ Settle \in Polls
           /\ [StopPoll EXCEPT !.in_flight = FALSE] \in Polls
           /\ [poll EXCEPT !.in_flight = TRUE] \in Polls
           /\ [poll EXCEPT !.in_flight = FALSE] \in Polls
<1>1. /\ poll.on \in BOOLEAN /\ poll.generation \in Nat /\ poll.in_flight \in BOOLEAN
      /\ poll.generation + 1 \in Nat
  BY DEF Polls
<1>2. StartPoll \in Polls /\ Settle \in Polls
  BY <1>1 DEF Polls, StartPoll, Settle
<1>3. [poll EXCEPT !.in_flight = TRUE] \in Polls /\ [poll EXCEPT !.in_flight = FALSE] \in Polls
  BY DEF Polls
<1>4. [poll EXCEPT !.on = FALSE, !.generation = @ + 1] \in Polls
  BY <1>1 DEF Polls
<1>5. StopPoll \in Polls
  BY <1>4 DEF StopPoll
<1>6. [StopPoll EXCEPT !.in_flight = FALSE] \in Polls
  BY <1>5 DEF Polls
<1> QED
  BY <1>2, <1>3, <1>5, <1>6

(* ... and so do the entries of the queues.                                  *)
LEMMA Heads ==
    ASSUME QueuesOK
    PROVE  /\ wire # << >> => /\ Head(wire) \in Messages /\ Tail(wire) \in Seq(Messages)
                             /\ Head(wire).state \in Reports /\ Head(wire).tag \in Nat
           /\ notes # << >> => Head(notes) \in Notes /\ Tail(notes) \in Seq(Notes)
           /\ updates # << >> => /\ Head(updates) \in Updates /\ Tail(updates) \in Seq(Updates)
                                /\ Head(updates).state \in KlippyStates
           /\ applying # Nothing => /\ applying.state \in KlippyStates /\ applying.time \in Nat
                                   /\ applying.epoch \in Nat /\ applying.cached \in BOOLEAN
<1>1. wire # << >> => /\ Head(wire) \in Messages /\ Tail(wire) \in Seq(Messages)
  BY Taking DEF QueuesOK
<1>2. notes # << >> => Head(notes) \in Notes /\ Tail(notes) \in Seq(Notes)
  BY Taking DEF QueuesOK
<1>3. updates # << >> => Head(updates) \in Updates /\ Tail(updates) \in Seq(Updates)
  BY Taking DEF QueuesOK
<1> QED
  BY <1>1, <1>2, <1>3 DEF QueuesOK, Messages, Notes, Updates

(* Every step keeps the types of the scalars.                                *)
LEMMA ScalarsStep ==
    ASSUME IInv, [Next]_vars
    PROVE  ScalarsOK'
<1>1. CASE KlipperShutsDown
  BY <1>1, BoundsAssumption DEF KlipperShutsDown, Change, moonraker,
     socket, client, guard, screen, IInv, TypeOK, ScalarsOK, Reports,
     KlippyStates
<1>2. CASE KlipperComesUp
  BY <1>2, BoundsAssumption DEF KlipperComesUp, Change, moonraker, socket,
     client, guard, screen, IInv, TypeOK, ScalarsOK, Reports, KlippyStates
<1>3. CASE KlipperStarts
  BY <1>3, BoundsAssumption DEF KlipperStarts, Change, moonraker, socket,
     client, guard, screen, IInv, TypeOK, ScalarsOK, Reports, KlippyStates
<1>4. CASE KlipperFailsToStart
  BY <1>4, BoundsAssumption DEF KlipperFailsToStart, Change, moonraker,
     socket, client, guard, screen, IInv, TypeOK, ScalarsOK, Reports,
     KlippyStates
<1>5. CASE HostReboots
  BY <1>5, BoundsAssumption DEF HostReboots, Change, moonraker, socket,
     client, guard, screen, IInv, TypeOK, ScalarsOK, Reports, KlippyStates
<1>6. CASE KlipperGoes
  <2>1. /\ klippy' = "disconnected" /\ changes < MaxChanges /\ changes' = changes + 1
        /\ UNCHANGED <<now, link, closes, seq, completed, poll, shown, guard>>
    BY <1>6 DEF KlipperGoes, Change, socket, client, screen
  <2>2. subscribed' \in BOOLEAN
    BY <1>6 DEF KlipperGoes
  <2> QED
    BY <2>1, <2>2, BoundsAssumption DEF guard, IInv, TypeOK, ScalarsOK, Reports
<1>7. CASE OnFrame
  BY <1>7 DEF OnFrame, moonraker, socket, client, guard, screen, IInv,
     TypeOK, ScalarsOK
<1>8. CASE OnGate
  BY <1>8 DEF OnGate, moonraker, socket, client, guard, screen, IInv,
     TypeOK, ScalarsOK
<1>9. CASE OnInfo
  BY <1>9 DEF OnInfo, moonraker, socket, client, guard, screen, IInv,
     TypeOK, ScalarsOK
<1>10. CASE TakeNote
  BY <1>10 DEF TakeNote, moonraker, socket, client, guard, screen, IInv,
     TypeOK, ScalarsOK
<1>11. CASE RunDiscovered
  BY <1>11 DEF RunDiscovered, NextUpdate, moonraker, socket, client, guard,
     screen, IInv, TypeOK, ScalarsOK
<1>12. CASE RunPolled
  BY <1>12 DEF RunPolled, NextUpdate, moonraker, socket, client, guard,
     screen, IInv, TypeOK, ScalarsOK
<1>13. CASE (\E r \in asked : AnswerGate(r))
  BY <1>13 DEF AnswerGate, moonraker, socket, client, guard, screen, IInv,
     TypeOK, ScalarsOK
<1>14. CASE (\E r \in asked : Reply(r))
  BY <1>14 DEF Reply, moonraker, socket, client, guard, screen, IInv,
     TypeOK, ScalarsOK
<1>15. CASE OnKlippyReady
  BY <1>15, PollValues DEF OnKlippyReady, SetKlippyState, Discover,
     moonraker, socket, client, guard, screen, IInv, TypeOK,
     ScalarsOK
<1>16. CASE OnKlippyShutdown
  BY <1>16, PollValues DEF OnKlippyShutdown, SetKlippyState, Discover,
     moonraker, socket, client, guard, screen, IInv, TypeOK, ScalarsOK
<1>17. CASE OnKlippyDisconnected
  BY <1>17, PollValues DEF OnKlippyDisconnected, SetKlippyState, StartPoll,
     moonraker, socket, client, guard, screen, IInv, TypeOK, ScalarsOK
<1>18. CASE OnSubscribed
  BY <1>18, PollValues DEF OnSubscribed, moonraker, socket, client, guard,
     screen, IInv, TypeOK, ScalarsOK
<1>19. CASE OnPolled
  BY <1>19, PollValues DEF OnPolled, moonraker, socket, client,
     guard, screen, IInv, TypeOK, ScalarsOK
<1>20. CASE HealthTick
  BY <1>20, PollValues DEF HealthTick, moonraker, socket, client, guard,
     screen, IInv, TypeOK, ScalarsOK
<1>21. CASE PollGivesUp
  BY <1>21, PollValues DEF PollGivesUp, moonraker, socket,
     client, guard, screen, IInv, TypeOK, ScalarsOK
<1>22. CASE Commit
  BY <1>22, Heads DEF Commit, moonraker, socket, client, guard, screen,
     IInv, TypeOK, ScalarsOK
<1>23. CASE RunSet
  BY <1>23, Heads DEF RunSet, NextUpdate, moonraker, socket, client, guard,
     screen, IInv, TypeOK, ScalarsOK
<1>24. CASE RunSeed
  BY <1>24, Heads DEF RunSeed, NextUpdate, moonraker, socket, client,
     guard, screen, IInv, TypeOK, ScalarsOK
<1>25. CASE (\E r \in asked : Evaluate(r))
  BY <1>25 DEF Evaluate, moonraker, socket, client, guard, screen, IInv,
     TypeOK, ScalarsOK
<1>26. CASE OnUnmatched
  BY <1>26, Zenon DEF OnUnmatched, moonraker, socket, client, guard, screen,
     IInv, TypeOK, ScalarsOK
<1>27. CASE Open
  BY <1>27 DEF Open, Discover, moonraker, socket, client, guard, screen,
     IInv, TypeOK, ScalarsOK
<1>28. CASE Close
  <2>1. /\ closes < MaxCloses /\ closes' = closes + 1
        /\ watermark' = 0 /\ epoch' = epoch + 1
        /\ poll' = [StopPoll EXCEPT !.in_flight = FALSE]
        /\ UNCHANGED <<klippy, now, changes, seq, shown>>
    BY <1>28 DEF Close, screen
  <2>2. /\ link' \in BOOLEAN /\ subscribed' \in BOOLEAN
        /\ completed' \in BOOLEAN /\ live' \in BOOLEAN
    BY <1>28 DEF Close
  <2>3. poll' \in Polls
    BY <2>1, PollValues DEF IInv, TypeOK, ScalarsOK
  <2> QED
    BY <2>1, <2>2, <2>3, BoundsAssumption DEF IInv, TypeOK, ScalarsOK
<1>29. CASE UNCHANGED vars
  BY <1>29 DEF vars, moonraker, socket, client, guard, screen, IInv,
     TypeOK, ScalarsOK
<1> QED
  BY <1>1, <1>2, <1>3, <1>4, <1>5, <1>6, <1>7, <1>8, <1>9, <1>10, <1>11, <1>12,
     <1>13, <1>14, <1>15, <1>16, <1>17, <1>18, <1>19, <1>20, <1>21, <1>22, <1>23,
     <1>24, <1>25, <1>26, <1>27, <1>28, <1>29 DEF Next, Klipper, Answer, Deliver, Main

(* What is put into the queues has their type.                               *)
LEMMA Entries ==
    ASSUME ScalarsOK
    PROVE  /\ \A k \in Requests, t \in Nat : Ask(k, t) \in Questions
           /\ \A s \in KlippyStates, k \in {"set", "seed", "discovered", "poll"} :
                 Item(k, s) \in Updates
           /\ \A s \in Reports : Notify(s) \in Messages
           /\ Frame \in Messages /\ Unmatched \in Messages
           /\ \A s \in Reports : SeedOf(s) \in KlippyStates
  BY DEF ScalarsOK, Ask, Questions, Unanswered, Item, Updates, Notify, Messages,
     Frame, Unmatched,
         Reports, KlippyStates, Requests, SeedOf

(* Every step keeps the type of the outstanding requests.                    *)
LEMMA AskedStep ==
    ASSUME IInv, [Next]_vars
    PROVE  (asked \subseteq Questions)'
<1>1. CASE \/ KlipperShutsDown \/ KlipperGoes \/ KlipperComesUp
          \/ KlipperStarts \/ KlipperFailsToStart \/ HostReboots
  BY <1>1 DEF KlipperShutsDown, KlipperGoes, KlipperComesUp, KlipperStarts,
     KlipperFailsToStart, HostReboots, IInv, TypeOK, QueuesOK
<1>2. CASE \/ OnFrame \/ OnSubscribed \/ OnPolled
          \/ OnUnmatched \/ TakeNote \/ Commit
          \/ RunSet \/ RunSeed \/ RunDiscovered
          \/ RunPolled \/ PollGivesUp
  BY <1>2 DEF OnFrame, OnSubscribed, OnPolled, OnUnmatched, TakeNote,
     Commit, RunSet, RunSeed, RunDiscovered, RunPolled, PollGivesUp, IInv,
     TypeOK, QueuesOK
<1>3. CASE OnKlippyDisconnected
  BY <1>3 DEF OnKlippyDisconnected, IInv, TypeOK, QueuesOK
<1>4. CASE Close
  BY <1>4 DEF Close, IInv, TypeOK, QueuesOK
<1>5. CASE OnKlippyReady
  BY <1>5, Entries DEF OnKlippyReady, IInv, TypeOK, QueuesOK, Discover,
     ScalarsOK, Requests
<1>6. CASE OnKlippyShutdown
  BY <1>6, Entries DEF OnKlippyShutdown, IInv, TypeOK, QueuesOK, Discover,
     ScalarsOK, Requests
<1>7. CASE Open
  BY <1>7, Entries DEF Open, IInv, TypeOK, QueuesOK, Discover, ScalarsOK,
     Requests
<1>8. CASE OnGate
  BY <1>8, Entries DEF OnGate, IInv, TypeOK, QueuesOK, ScalarsOK, Requests,
     Polls
<1>9. CASE OnInfo
  BY <1>9, Entries DEF OnInfo, IInv, TypeOK, QueuesOK, ScalarsOK, Requests,
     Polls
<1>10. CASE HealthTick
  BY <1>10, Entries DEF HealthTick, IInv, TypeOK, QueuesOK, ScalarsOK,
     Requests, Polls
<1>11. CASE (\E r \in asked : AnswerGate(r))
  BY <1>11 DEF AnswerGate, IInv, TypeOK, QueuesOK
<1>12. CASE (\E r \in asked : Reply(r))
  BY <1>12 DEF Reply, IInv, TypeOK, QueuesOK
<1>13. CASE (\E r \in asked : Evaluate(r))
  BY <1>13 DEF Evaluate, IInv, TypeOK, QueuesOK, Questions, ScalarsOK
<1>14. CASE UNCHANGED vars
  BY <1>14 DEF vars, IInv, TypeOK, QueuesOK
<1> QED
  BY <1>1, <1>2, <1>3, <1>4, <1>5, <1>6, <1>7, <1>8, <1>9, <1>10, <1>11, <1>12,
     <1>13, <1>14 DEF Next, Klipper, Answer, Deliver, Main

(* Every step keeps the type of the update queue.                            *)
LEMMA UpdatesStep ==
    ASSUME IInv, [Next]_vars
    PROVE  (updates \in Seq(Updates))'
<1>1. CASE \/ KlipperShutsDown \/ KlipperGoes \/ KlipperComesUp
          \/ KlipperStarts \/ KlipperFailsToStart \/ HostReboots
  BY <1>1 DEF KlipperShutsDown, KlipperGoes, KlipperComesUp, KlipperStarts,
     KlipperFailsToStart, HostReboots, IInv, TypeOK, QueuesOK, screen
<1>2. CASE \/ OnFrame \/ OnGate \/ OnUnmatched
          \/ TakeNote \/ Commit
  BY <1>2 DEF OnFrame, OnGate, OnUnmatched, TakeNote, Commit, IInv, TypeOK,
     QueuesOK, screen
<1>3. CASE \/ Open \/ Close \/ HealthTick
          \/ PollGivesUp
  BY <1>3 DEF Open, Close, HealthTick, PollGivesUp, IInv, TypeOK, QueuesOK,
     screen
<1>4. CASE \/ (\E r \in asked : AnswerGate(r)) \/ (\E r \in asked : Evaluate(r)) \/ (\E r \in asked : Reply(r))
  BY <1>4 DEF AnswerGate, Evaluate, Reply, IInv, TypeOK, QueuesOK, screen
<1>5. CASE OnKlippyReady
  BY <1>5, Entries DEF OnKlippyReady, IInv, TypeOK, QueuesOK,
     SetKlippyState, Queue, KlippyStates
<1>6. CASE OnKlippyShutdown
  BY <1>6, Entries DEF OnKlippyShutdown, IInv, TypeOK, QueuesOK,
     SetKlippyState, Queue, KlippyStates
<1>7. CASE OnKlippyDisconnected
  BY <1>7, Entries DEF OnKlippyDisconnected, IInv, TypeOK, QueuesOK,
     SetKlippyState, Queue, KlippyStates
<1>8. CASE OnInfo
  <2>1. Head(wire).state \in Reports
    BY <1>8, Heads DEF OnInfo, Receive, IInv, TypeOK
  <2>2. Item("seed", SeedOf(Head(wire).state)) \in Updates
    BY <2>1, Entries DEF IInv, TypeOK
  <2>3. updates' = updates \/ updates' = Append(updates, Item("seed", SeedOf(Head(wire).state)))
    BY <1>8 DEF OnInfo, Queue
  <2>4. updates \in Seq(Updates)
    BY DEF IInv, TypeOK, QueuesOK
  <2> HIDE DEF IInv
  <2> QED
    BY <2>2, <2>3, <2>4
<1>9. CASE OnSubscribed
  <2>1. Head(wire).state \in Reports
    BY <1>9, Heads DEF OnSubscribed, Receive, IInv, TypeOK
  <2>2. Head(wire).state \in {"ready", "shutdown"} =>
          Item("discovered", Head(wire).state) \in Updates
    BY <2>1, Entries DEF IInv, TypeOK, KlippyStates
  <2>3. \/ updates' = updates
        \/ /\ Head(wire).state \in {"ready", "shutdown"}
           /\ updates' = Append(updates, Item("discovered", Head(wire).state))
    BY <1>9 DEF OnSubscribed, Queue
  <2>4. updates \in Seq(Updates)
    BY DEF IInv, TypeOK, QueuesOK
  <2> QED
    BY <2>2, <2>3, <2>4, Adding
<1>10. CASE OnPolled
  <2>1. Head(wire).state \in Reports
    BY <1>10, Heads DEF OnPolled, Receive, IInv, TypeOK
  <2>2. Head(wire).state \in {"ready", "shutdown", "error"} =>
          Item("poll", Head(wire).state) \in Updates
    BY <2>1, Entries DEF IInv, TypeOK, KlippyStates
  <2>3. \/ updates' = updates
        \/ /\ Head(wire).state \in {"ready", "shutdown", "error"}
           /\ updates' = Append(updates, Item("poll", Head(wire).state))
    BY <1>10 DEF OnPolled, Queue
  <2>4. updates \in Seq(Updates)
    BY DEF IInv, TypeOK, QueuesOK
  <2> QED
    BY <2>2, <2>3, <2>4, Adding
<1>11. CASE RunSet
  BY <1>11, Heads DEF RunSet, IInv, TypeOK, QueuesOK, NextUpdate
<1>12. CASE RunSeed
  BY <1>12, Heads DEF RunSeed, IInv, TypeOK, QueuesOK, NextUpdate
<1>13. CASE RunDiscovered
  BY <1>13, Heads DEF RunDiscovered, IInv, TypeOK, QueuesOK, NextUpdate
<1>14. CASE RunPolled
  BY <1>14, Heads DEF RunPolled, IInv, TypeOK, QueuesOK, NextUpdate
<1>15. CASE UNCHANGED vars
  BY <1>15 DEF vars, IInv, TypeOK, QueuesOK, screen
<1> QED
  BY <1>1, <1>2, <1>3, <1>4, <1>5, <1>6, <1>7, <1>8, <1>9, <1>10, <1>11, <1>12,
     <1>13, <1>14, <1>15 DEF Next, Klipper, Answer, Deliver, Main

(* A wire whose frames are not ahead of Klipper's clock stays one when a      *)
(* message is taken from it; the two lemmas after this add one, and let the  *)
(* clock move on.                                                            *)
LEMMA FreshTail ==
    ASSUME NEW s \in Seq(Messages), s # << >>, NEW t \in Nat, AllFresh(s, t)
    PROVE  AllFresh(Tail(s), t)
  BY Taking DEF AllFresh

(* Adding a message that is not ahead.                                       *)
LEMMA FreshAppend ==
    ASSUME NEW s \in Seq(Messages), NEW m \in Messages, NEW t \in Nat, AllFresh(s, t), Fresh(m, t)
    PROVE  Append(s, m) \in Seq(Messages) /\ AllFresh(Append(s, m), t)
  BY Adding DEF AllFresh

(* A later clock.                                                            *)
LEMMA FreshLater ==
    ASSUME NEW s \in Seq(Messages), NEW t \in Nat, NEW u \in Nat, t <= u, AllFresh(s, t)
    PROVE  AllFresh(s, u)
<1> SUFFICES ASSUME NEW i \in 1..Len(s), s[i].kind = "frame"
             PROVE  s[i].state = "shutdown" /\ s[i].tag <= u
  BY DEF AllFresh, Fresh
<1>0. s[i] \in Messages
  OBVIOUS
<1>1. s[i].tag \in Nat
  BY <1>0 DEF Messages
<1>2. s[i].state = "shutdown" /\ s[i].tag <= t
  BY DEF AllFresh, Fresh
<1> QED
  BY <1>1, <1>2

(* Announcing one message, or two, is appending them.                        *)
LEMMA Joining ==
    ASSUME NEW s \in Seq(Messages), NEW a \in Messages, NEW c \in Messages
    PROVE  s \o <<a>> = Append(s, a) /\ s \o <<a, c>> = Append(Append(s, a), c)
  OBVIOUS

(* No step puts a frame on the wire that is ahead of Klipper's clock, and a  *)
(* closed socket carries nothing and is asked nothing.                       *)
LEMMA WireStep ==
    ASSUME IInv, [Next]_vars
    PROVE  (wire \in Seq(Messages) /\ WireInv)'
<1>1. CASE KlipperShutsDown
  <2>1. now \in Nat /\ now' = now + 1 /\ link' = link /\ asked' = asked
    BY <1>1 DEF KlipperShutsDown, Change, socket, moonraker, IInv, TypeOK, ScalarsOK
  <2>2. AllFresh(wire, now') /\ wire \in Seq(Messages)
    BY <2>1, FreshLater DEF IInv, TypeOK, ScalarsOK, QueuesOK, WireInv
  <2>3. Notify("shutdown") \in Messages /\ Fresh(Notify("shutdown"), now')
    BY Entries DEF IInv, TypeOK, Notify, Fresh, Reports, KlippyStates
  <2>4. Frame \in Messages /\ Fresh(Frame, now')
    BY <2>1, Entries DEF IInv, TypeOK, Frame, Fresh
  <2>5. \/ wire' = wire
        \/ link /\ wire' = Append(wire, Notify("shutdown"))
        \/ link /\ wire' = Append(Append(wire, Frame), Notify("shutdown"))
        \/ link /\ wire' = Append(Append(wire, Notify("shutdown")), Frame)
    BY <1>1, <2>2, <2>3, <2>4, Joining DEF KlipperShutsDown, Announce
  <2>n. now' \in Nat
    BY <2>1
  <2>a. AllFresh(Append(wire, Frame), now') /\ Append(wire, Frame) \in Seq(Messages)
    BY <2>n, <2>2, <2>4, FreshAppend
  <2>b. /\ AllFresh(Append(wire, Notify("shutdown")), now')
        /\ Append(wire, Notify("shutdown")) \in Seq(Messages)
    BY <2>n, <2>2, <2>3, FreshAppend
  <2>c. /\ AllFresh(Append(Append(wire, Frame), Notify("shutdown")), now')
        /\ Append(Append(wire, Frame), Notify("shutdown")) \in Seq(Messages)
    BY <2>n, <2>a, <2>3, FreshAppend
  <2>d. /\ AllFresh(Append(Append(wire, Notify("shutdown")), Frame), now')
        /\ Append(Append(wire, Notify("shutdown")), Frame) \in Seq(Messages)
    BY <2>n, <2>b, <2>4, FreshAppend
  <2>6. wire' \in Seq(Messages) /\ AllFresh(wire', now')
    BY <2>2, <2>5, <2>b, <2>c, <2>d
  <2> QED
    BY <2>1, <2>5, <2>6 DEF IInv, WireInv, AllFresh, Fresh
<1>2. CASE KlipperGoes
  <2>1. now \in Nat /\ now' = now /\ link' = link /\ asked' = asked
    BY <1>2 DEF KlipperGoes, Change, socket, moonraker, IInv, TypeOK, ScalarsOK
  <2>2. AllFresh(wire, now') /\ wire \in Seq(Messages)
    BY <2>1, FreshLater DEF IInv, TypeOK, ScalarsOK, QueuesOK, WireInv
  <2>3. Notify("disconnected") \in Messages /\ Fresh(Notify("disconnected"), now')
    BY Entries DEF IInv, TypeOK, Notify, Fresh, Reports, KlippyStates
  <2>4. wire' = wire \/ (link /\ wire' = Append(wire, Notify("disconnected")))
    BY <1>2, <2>2, <2>3, Joining DEF KlipperGoes, Announce
  <2>n. now' \in Nat
    BY <2>1
  <2>a. /\ AllFresh(Append(wire, Notify("disconnected")), now')
        /\ Append(wire, Notify("disconnected")) \in Seq(Messages)
    BY <2>n, <2>2, <2>3, FreshAppend
  <2>5. wire' \in Seq(Messages) /\ AllFresh(wire', now')
    BY <2>2, <2>4, <2>a
  <2> QED
    BY <2>1, <2>4, <2>5 DEF IInv, WireInv, AllFresh, Fresh
<1>3. CASE KlipperStarts
  <2>1. now \in Nat /\ now' = now + 1 /\ link' = link /\ asked' = asked
    BY <1>3 DEF KlipperStarts, Change, socket, moonraker, IInv, TypeOK, ScalarsOK
  <2>2. AllFresh(wire, now') /\ wire \in Seq(Messages)
    BY <2>1, FreshLater DEF IInv, TypeOK, ScalarsOK, QueuesOK, WireInv
  <2>3. Notify("ready") \in Messages /\ Fresh(Notify("ready"), now')
    BY Entries DEF IInv, TypeOK, Notify, Fresh, Reports, KlippyStates
  <2>4. wire' = wire \/ (link /\ wire' = Append(wire, Notify("ready")))
    BY <1>3, <2>2, <2>3, Joining DEF KlipperStarts, Announce
  <2>n. now' \in Nat
    BY <2>1
  <2>a. /\ AllFresh(Append(wire, Notify("ready")), now')
        /\ Append(wire, Notify("ready")) \in Seq(Messages)
    BY <2>n, <2>2, <2>3, FreshAppend
  <2>5. wire' \in Seq(Messages) /\ AllFresh(wire', now')
    BY <2>2, <2>4, <2>a
  <2> QED
    BY <2>1, <2>4, <2>5 DEF IInv, WireInv, AllFresh, Fresh
<1>4. CASE KlipperComesUp
  BY <1>4 DEF KlipperComesUp, IInv, TypeOK, QueuesOK, WireInv, socket,
     moonraker, AllFresh, Fresh
<1>5. CASE KlipperFailsToStart
  <2>1. /\ now \in Nat /\ now' = now + 1 /\ wire' = wire
        /\ link' = link /\ asked' = asked
    BY <1>5 DEF KlipperFailsToStart, Change, socket, IInv, TypeOK, ScalarsOK
  <2>2. AllFresh(wire, now') /\ wire \in Seq(Messages)
    BY <2>1, FreshLater DEF IInv, TypeOK, QueuesOK, WireInv
  <2> QED
    BY <2>1, <2>2 DEF IInv, WireInv, AllFresh, Fresh
<1>6. CASE HostReboots
  BY <1>6 DEF HostReboots, IInv, TypeOK, QueuesOK, WireInv, socket, AllFresh
<1>7. CASE \/ OnFrame \/ OnKlippyReady \/ OnKlippyShutdown
          \/ OnGate \/ OnInfo \/ OnSubscribed
          \/ OnPolled \/ OnUnmatched
  <2>1. wire # << >> /\ wire' = Tail(wire) /\ link' = link /\ now' = now
    BY <1>7 DEF OnFrame, OnKlippyReady, OnKlippyShutdown, OnGate, OnInfo,
       OnSubscribed, OnPolled, OnUnmatched, Receive, moonraker, socket
  <2>2. link
    BY <2>1 DEF IInv, WireInv
  <2>3. AllFresh(Tail(wire), now) /\ Tail(wire) \in Seq(Messages)
    BY <2>1, FreshTail, Heads DEF IInv, TypeOK, ScalarsOK, QueuesOK, WireInv
  <2> QED
    BY <2>1, <2>2, <2>3 DEF WireInv, AllFresh, Fresh
<1>8. CASE OnKlippyDisconnected
  <2>1. /\ wire # << >> /\ link' = link /\ now' = now /\ asked' = {}
        /\ wire' = [i \in 1..(Len(wire) - 1) |-> Abandoned(wire[i + 1])]
    BY <1>8 DEF OnKlippyDisconnected, Receive, moonraker, socket
  <2>2. link /\ wire \in Seq(Messages) /\ AllFresh(wire, now)
    BY <2>1 DEF IInv, TypeOK, QueuesOK, WireInv
  <2>3. \A i \in 1..Len(wire) : wire[i] \in Messages /\ Fresh(wire[i], now)
    BY <2>2 DEF AllFresh
  <2>4. \A i \in 1..Len(wire) : Abandoned(wire[i]) \in Messages /\ Fresh(Abandoned(wire[i]), now)
    BY <2>3, Entries DEF Abandoned, Unmatched, Fresh, IInv, TypeOK
  <2>5. Len(wire) - 1 \in Nat /\ \A i \in 1..(Len(wire) - 1) : i + 1 \in 1..Len(wire)
    BY <2>1, <2>2
  <2>6. wire' \in Seq(Messages) /\ Len(wire') = Len(wire) - 1
    BY <2>1, <2>4, <2>5
  <2>7. AllFresh(wire', now)
    BY <2>1, <2>4, <2>5, <2>6 DEF AllFresh
  <2> QED
    BY <2>1, <2>2, <2>6, <2>7 DEF WireInv, AllFresh, Fresh
<1>9. CASE \/ TakeNote \/ Commit \/ RunSet
          \/ RunSeed \/ RunDiscovered \/ RunPolled
  BY <1>9 DEF TakeNote, Commit, RunSet, RunSeed, RunDiscovered, RunPolled,
     IInv, TypeOK, QueuesOK, WireInv, moonraker, socket, AllFresh, Fresh
<1>10. CASE Open
  BY <1>10 DEF Open, IInv, TypeOK, QueuesOK, WireInv, moonraker, AllFresh,
     Fresh
<1>11. CASE Close
  BY <1>11 DEF Close, IInv, TypeOK, QueuesOK, WireInv, AllFresh, Fresh
<1>12. CASE \/ HealthTick \/ PollGivesUp
  BY <1>12 DEF HealthTick, PollGivesUp, IInv, TypeOK, QueuesOK, WireInv,
     moonraker, socket, AllFresh, Fresh
<1>13. CASE (\E r \in asked : Evaluate(r))
  BY <1>13 DEF Evaluate, IInv, TypeOK, QueuesOK, WireInv, socket, AllFresh,
     Fresh
<1>14. CASE (\E r \in asked : AnswerGate(r))
  <2>1. PICK r \in asked : AnswerGate(r)
    BY <1>14
  <2>2. link /\ link' = link /\ now' = now /\ now \in Nat
    BY <2>1 DEF AnswerGate, moonraker, socket, IInv, TypeOK, ScalarsOK, WireInv
  <2>3. [r EXCEPT !.state = klippy] \in Messages /\ Fresh([r EXCEPT !.state = klippy], now)
    BY <2>1 DEF AnswerGate, IInv, TypeOK, ScalarsOK, QueuesOK, Questions, Messages,
       Requests, Fresh
  <2>4. wire' = Append(wire, [r EXCEPT !.state = klippy])
    BY <2>1 DEF AnswerGate
  <2>5. wire' \in Seq(Messages) /\ AllFresh(wire', now)
    BY <2>2, <2>3, <2>4, FreshAppend DEF IInv, TypeOK, QueuesOK, WireInv
  <2> QED
    BY <2>2, <2>5 DEF WireInv, AllFresh, Fresh
<1>15. CASE (\E r \in asked : Reply(r))
  <2>1. PICK r \in asked : Reply(r)
    BY <1>15
  <2>2. link /\ link' = link /\ now' = now /\ now \in Nat
    BY <2>1 DEF Reply, moonraker, socket, IInv, TypeOK, ScalarsOK, WireInv
  <2>3. r \in Messages /\ Fresh(r, now)
    BY <2>1 DEF Reply, IInv, TypeOK, ScalarsOK, QueuesOK, Questions, Messages,
       Requests, Fresh
  <2>4. wire' = Append(wire, r)
    BY <2>1 DEF Reply
  <2>5. wire' \in Seq(Messages) /\ AllFresh(wire', now)
    BY <2>2, <2>3, <2>4, FreshAppend DEF IInv, TypeOK, QueuesOK, WireInv
  <2> QED
    BY <2>2, <2>5 DEF WireInv, AllFresh, Fresh
<1>16. CASE UNCHANGED vars
  BY <1>16 DEF vars, IInv, TypeOK, QueuesOK, WireInv, moonraker, socket,
     AllFresh, Fresh
<1> QED
  BY <1>1, <1>2, <1>3, <1>4, <1>5, <1>6, <1>7, <1>8, <1>9, <1>10, <1>11, <1>12,
     <1>13, <1>14, <1>15, <1>16 DEF Next, Klipper, Answer, Deliver, Main

(* A waiting frame still fits when the clock moves on, when the clock or the *)
(* socket is renewed while the session has no frame, and after a close.      *)
LEMMA FitsLater ==
    ASSUME NEW n \in Notes, NEW e \in Nat, NEW l \in BOOLEAN, NEW t \in Nat, Fits(n, e, l, t)
    PROVE  /\ \A u \in Nat : t <= u => Fits(n, e, l, u)
           /\ ~l => \A k \in BOOLEAN, u \in Nat : Fits(n, e, k, u)
           /\ \A k \in BOOLEAN, u \in Nat : Fits(n, e + 1, k, u)
<1>1. n.epoch \in Nat /\ n.time \in Nat
  BY DEF Notes
<1> QED
  BY <1>1 DEF Fits

(* The same of every frame of a queue.                                       *)
LEMMA AllFitLater ==
    ASSUME NEW s \in Seq(Notes), NEW e \in Nat, NEW l \in BOOLEAN, NEW t \in Nat,
           AllFit(s, e, l, t)
    PROVE  /\ \A u \in Nat : t <= u => AllFit(s, e, l, u)
           /\ ~l => \A k \in BOOLEAN, u \in Nat : AllFit(s, e, k, u)
           /\ \A k \in BOOLEAN, u \in Nat : AllFit(s, e + 1, k, u)
<1>1. \A i \in 1..Len(s) : s[i] \in Notes
  OBVIOUS
<1> QED
  BY <1>1, FitsLater DEF AllFit

(* Taking the first frame of a queue ...                                     *)
LEMMA AllFitTail ==
    ASSUME NEW s \in Seq(Notes), s # << >>, NEW e, NEW l, NEW t, AllFit(s, e, l, t)
    PROVE  AllFit(Tail(s), e, l, t) /\ Fits(Head(s), e, l, t)
<1>1. 1 \in 1..Len(s)
  BY Taking
<1> QED
  BY <1>1, Taking DEF AllFit

(* ... and adding one.                                                       *)
LEMMA AllFitAppend ==
    ASSUME NEW s \in Seq(Notes), NEW n \in Notes, NEW e, NEW l, NEW t,
           AllFit(s, e, l, t), Fits(n, e, l, t)
    PROVE  Append(s, n) \in Seq(Notes) /\ AllFit(Append(s, n), e, l, t)
  BY Adding DEF AllFit

(* A frame of the current session waits, or is half applied, only while the  *)
(* session is open, and is not ahead of Klipper's clock.                     *)
LEMMA NotesStep ==
    ASSUME IInv, [Next]_vars
    PROVE  (notes \in Seq(Notes) /\ applying \in Notes \cup {Nothing} /\ NotesInv)'
<1>1. CASE \/ KlipperGoes \/ KlipperComesUp \/ OnKlippyReady
          \/ OnKlippyShutdown \/ OnKlippyDisconnected \/ OnGate
          \/ OnInfo \/ OnSubscribed \/ OnPolled
          \/ OnUnmatched \/ RunSet \/ RunSeed
          \/ HealthTick \/ PollGivesUp \/ (\E r \in asked : AnswerGate(r))
          \/ (\E r \in asked : Evaluate(r)) \/ (\E r \in asked : Reply(r))
  <2>1. UNCHANGED <<notes, applying, epoch, link, now>>
    BY <1>1 DEF KlipperGoes, KlipperComesUp, OnKlippyReady, OnKlippyShutdown,
       OnKlippyDisconnected, OnGate, OnInfo, OnSubscribed,
       OnPolled, OnUnmatched, RunSet, RunSeed, HealthTick,
       PollGivesUp, AnswerGate, Evaluate, Reply, moonraker, socket, guard, screen
  <2> QED
    BY <2>1 DEF IInv, TypeOK, ScalarsOK, QueuesOK, NotesInv
<1>2. CASE \/ KlipperShutsDown \/ KlipperStarts \/ KlipperFailsToStart
  <2>1. now \in Nat /\ now' = now + 1 /\ epoch' = epoch /\ link' = link
        /\ notes' = notes /\ applying' = applying
    BY <1>2 DEF KlipperShutsDown, KlipperStarts, KlipperFailsToStart, guard, socket,
       Change, screen, IInv, TypeOK, ScalarsOK, QueuesOK, NotesInv
  <2>2. AllFit(notes, epoch', link', now')
    BY <2>1, AllFitLater DEF IInv, TypeOK, ScalarsOK, QueuesOK, NotesInv
  <2>3. applying # Nothing => Fits(applying, epoch', link', now')
    BY <2>1, FitsLater DEF IInv, TypeOK, ScalarsOK, QueuesOK, NotesInv
  <2> QED
    BY <2>1, <2>2, <2>3 DEF IInv, TypeOK, ScalarsOK, QueuesOK, NotesInv
<1>3. CASE HostReboots
  <2>1. ~link /\ now' = 1 /\ epoch' = epoch /\ link' = link
        /\ notes' = notes /\ applying' = applying
    BY <1>3 DEF HostReboots, guard, socket, Change, screen, IInv, TypeOK, ScalarsOK,
       QueuesOK, NotesInv
  <2>2. AllFit(notes, epoch', link', now')
    BY <2>1, AllFitLater DEF IInv, TypeOK, ScalarsOK, QueuesOK, NotesInv
  <2>3. applying # Nothing => Fits(applying, epoch', link', now')
    BY <2>1, FitsLater DEF IInv, TypeOK, ScalarsOK, QueuesOK, NotesInv
  <2> QED
    BY <2>1, <2>2, <2>3 DEF IInv, TypeOK, ScalarsOK, QueuesOK, NotesInv
<1>4. CASE Open
  <2>1. ~link /\ now' = now /\ epoch' = epoch /\ link' \in BOOLEAN
        /\ notes' = notes /\ applying' = applying
    BY <1>4 DEF Open, guard, moonraker, screen, IInv, TypeOK, ScalarsOK, QueuesOK,
       NotesInv
  <2>2. AllFit(notes, epoch', link', now')
    BY <2>1, AllFitLater DEF IInv, TypeOK, ScalarsOK, QueuesOK, NotesInv
  <2>3. applying # Nothing => Fits(applying, epoch', link', now')
    BY <2>1, FitsLater DEF IInv, TypeOK, ScalarsOK, QueuesOK, NotesInv
  <2> QED
    BY <2>1, <2>2, <2>3 DEF IInv, TypeOK, ScalarsOK, QueuesOK, NotesInv
<1>5. CASE Close
  <2>1. epoch' = epoch + 1 /\ now' = now /\ link' \in BOOLEAN
        /\ notes' = notes /\ applying' = applying
    BY <1>5 DEF Close, screen, IInv, TypeOK, ScalarsOK, QueuesOK, NotesInv
  <2>2. AllFit(notes, epoch', link', now')
    BY <2>1, AllFitLater DEF IInv, TypeOK, ScalarsOK, QueuesOK, NotesInv
  <2>3. applying # Nothing => Fits(applying, epoch', link', now')
    BY <2>1, FitsLater DEF IInv, TypeOK, ScalarsOK, QueuesOK, NotesInv
  <2> QED
    BY <2>1, <2>2, <2>3 DEF IInv, TypeOK, ScalarsOK, QueuesOK, NotesInv
<1>6. CASE OnFrame
  <2> DEFINE n == [state |-> Head(wire).state, time |-> Head(wire).tag,
                   cached |-> FALSE, epoch |-> epoch, polled |-> FALSE]
  <2>1. /\ wire # << >> /\ Head(wire).kind = "frame" /\ notes' = Append(notes, n)
        /\ UNCHANGED <<applying, epoch, link, now>>
    BY <1>6 DEF OnFrame, Receive, moonraker, socket, guard
  <2>2. link /\ Head(wire) = wire[1] /\ 1 \in 1..Len(wire)
    BY <2>1, Taking DEF IInv, TypeOK, QueuesOK, WireInv
  <2>3. Fresh(Head(wire), now)
    BY <2>2 DEF IInv, WireInv, AllFresh
  <2>4. Head(wire).state = "shutdown" /\ Head(wire).tag <= now /\ Head(wire).tag \in Nat
    BY <2>1, <2>3, Heads DEF Fresh, IInv, TypeOK
  <2>5. n \in Notes
    BY <2>4 DEF Notes, KlippyStates, IInv, TypeOK, ScalarsOK
  <2>6. Fits(n, epoch, link, now)
    BY <2>2, <2>4 DEF Fits, IInv, TypeOK, ScalarsOK
  <2>7. notes' \in Seq(Notes) /\ AllFit(notes', epoch, link, now)
    BY <2>1, <2>5, <2>6, AllFitAppend DEF IInv, TypeOK, ScalarsOK, QueuesOK, NotesInv
  <2> QED
    BY <2>1, <2>7 DEF IInv, TypeOK, ScalarsOK, QueuesOK, NotesInv
<1>7. CASE TakeNote
  <2>1. /\ notes # << >> /\ notes' = Tail(notes)
        /\ applying' \in {Nothing, Head(notes)}
        /\ UNCHANGED <<epoch, link, now>>
    BY <1>7 DEF TakeNote, moonraker, socket, guard
  <2>2. Tail(notes) \in Seq(Notes) /\ Head(notes) \in Notes
    BY <2>1, Heads DEF IInv, TypeOK
  <2>3. AllFit(Tail(notes), epoch, link, now) /\ Fits(Head(notes), epoch, link, now)
    BY <2>1, AllFitTail DEF IInv, TypeOK, ScalarsOK, QueuesOK, NotesInv
  <2> QED
    BY <2>1, <2>2, <2>3 DEF NotesInv
<1>8. CASE Commit
  <2>1. applying' = Nothing /\ UNCHANGED <<notes, epoch, link, now>>
    BY <1>8 DEF Commit, moonraker, socket
  <2> QED
    BY <2>1 DEF IInv, TypeOK, ScalarsOK, QueuesOK, NotesInv
<1>9. CASE RunDiscovered
  <2> DEFINE n == [state |-> Head(updates).state, time |-> 0,
                   cached |-> TRUE, epoch |-> epoch, polled |-> FALSE]
  <2>1. /\ updates # << >> /\ notes' = Append(notes, n)
        /\ UNCHANGED <<applying, epoch, link, now>>
    BY <1>9 DEF RunDiscovered, NextUpdate, moonraker, socket, guard
  <2>2. n \in Notes /\ Fits(n, epoch, link, now)
    BY <2>1, Heads DEF Notes, Fits, IInv, TypeOK, ScalarsOK
  <2>3. notes' \in Seq(Notes) /\ AllFit(notes', epoch, link, now)
    BY <2>1, <2>2, AllFitAppend DEF IInv, TypeOK, ScalarsOK, QueuesOK, NotesInv
  <2> QED
    BY <2>1, <2>3 DEF IInv, TypeOK, ScalarsOK, QueuesOK, NotesInv
<1>10. CASE RunPolled
  <2> DEFINE n == [state |-> Head(updates).state, time |-> 0,
                   cached |-> FALSE, epoch |-> epoch, polled |-> TRUE]
  <2>1. /\ updates # << >> /\ applying' \in {Nothing, n}
        /\ UNCHANGED <<notes, epoch, link, now>>
    BY <1>10 DEF RunPolled, NextUpdate, moonraker, socket, guard
  <2>2. n \in Notes /\ Fits(n, epoch, link, now)
    BY <2>1, Heads DEF Notes, Fits, IInv, TypeOK, ScalarsOK
  <2> QED
    BY <2>1, <2>2 DEF IInv, TypeOK, ScalarsOK, QueuesOK, NotesInv
<1>11. CASE UNCHANGED vars
  BY <1>11 DEF vars, IInv, TypeOK, ScalarsOK, QueuesOK, NotesInv,
     moonraker, socket, guard, screen
<1> QED
  BY <1>1, <1>2, <1>3, <1>4, <1>5, <1>6, <1>7, <1>8, <1>9, <1>10, <1>11 DEF Next,
     Klipper, Answer, Deliver, Main

(* Only such a frame moves the watermark, and a close clears it.             *)
LEMMA GuardStep ==
    ASSUME IInv, [Next]_vars
    PROVE  GuardInv'
<1>1. CASE \/ KlipperGoes \/ KlipperComesUp \/ OnFrame
          \/ OnKlippyReady \/ OnKlippyShutdown \/ OnKlippyDisconnected
          \/ OnGate \/ OnInfo \/ OnSubscribed
          \/ OnPolled \/ OnUnmatched \/ TakeNote
          \/ RunSet \/ RunSeed \/ RunDiscovered
          \/ RunPolled \/ HealthTick \/ PollGivesUp
          \/ (\E r \in asked : AnswerGate(r)) \/ (\E r \in asked : Evaluate(r)) \/ (\E r \in asked : Reply(r))
  <2>1. UNCHANGED <<watermark, link, now>>
    BY <1>1 DEF KlipperGoes, KlipperComesUp, OnFrame, OnKlippyReady, OnKlippyShutdown,
       OnKlippyDisconnected, OnGate, OnInfo, OnSubscribed,
       OnPolled, OnUnmatched, TakeNote, RunSet, RunSeed, RunDiscovered,
       RunPolled, HealthTick, PollGivesUp, AnswerGate, Evaluate, Reply, moonraker, socket, guard
  <2> QED
    BY <2>1 DEF IInv, TypeOK, ScalarsOK, GuardInv, NewFramesAreAccepted
<1>2. CASE KlipperShutsDown
  BY <1>2 DEF KlipperShutsDown, IInv, TypeOK, ScalarsOK, GuardInv,
     NewFramesAreAccepted, guard, socket
<1>3. CASE KlipperStarts
  BY <1>3 DEF KlipperStarts, IInv, TypeOK, ScalarsOK, GuardInv,
     NewFramesAreAccepted, guard, socket
<1>4. CASE KlipperFailsToStart
  BY <1>4 DEF KlipperFailsToStart, IInv, TypeOK, ScalarsOK, GuardInv,
     NewFramesAreAccepted, guard, socket
<1>5. CASE HostReboots
  BY <1>5 DEF HostReboots, IInv, TypeOK, ScalarsOK, GuardInv,
     NewFramesAreAccepted, guard, socket
<1>6. CASE Open
  BY <1>6 DEF Open, IInv, TypeOK, ScalarsOK, GuardInv,
     NewFramesAreAccepted, guard, moonraker
<1>7. CASE Close
  BY <1>7 DEF Close, IInv, TypeOK, ScalarsOK, GuardInv, NewFramesAreAccepted
<1>8. CASE Commit
  <2>1. /\ applying # Nothing /\ UNCHANGED <<link, now>>
        /\ \/ watermark' = watermark
           \/ applying.epoch = epoch /\ applying.time > 0 /\ watermark' = applying.time
    BY <1>8 DEF Commit, moonraker, socket
  <2>2. Fits(applying, epoch, link, now)
    BY <2>1 DEF IInv, NotesInv
  <2> QED
    BY <2>1, <2>2 DEF Fits, IInv, TypeOK, ScalarsOK, GuardInv, NewFramesAreAccepted
<1>9. CASE UNCHANGED vars
  BY <1>9 DEF vars, IInv, TypeOK, ScalarsOK, GuardInv,
     NewFramesAreAccepted, moonraker, socket, guard
<1> QED
  BY <1>1, <1>2, <1>3, <1>4, <1>5, <1>6, <1>7, <1>8, <1>9 DEF Next, Klipper, Answer,
     Deliver, Main

(* The inductive invariant holds in every reachable state, for every bound.  *)
THEOREM Invariance == Spec => []IInv
<1>1. Init => IInv
  <2> SUFFICES ASSUME Init PROVE IInv
    OBVIOUS
  <2>a. klippy \in Reports /\ shown \in KlippyStates
    BY BoundsAssumption DEF Init, Reports, KlippyStates
  <2>b. poll \in Polls
    BY DEF Init, Polls
  <2>c. /\ subscribed \in BOOLEAN /\ link \in BOOLEAN
        /\ completed \in BOOLEAN /\ live \in BOOLEAN
    BY DEF Init
  <2>1. ScalarsOK
    BY <2>a, <2>b, <2>c, BoundsAssumption DEF Init, ScalarsOK
  <2>2. QueuesOK
    BY DEF Init, QueuesOK
  <2>3. WireInv /\ NotesInv /\ GuardInv
    BY DEF Init, WireInv, AllFresh, NotesInv, AllFit, GuardInv, NewFramesAreAccepted
  <2> QED
    BY <2>1, <2>2, <2>3 DEF IInv, TypeOK
<1>2. IInv /\ [Next]_vars => IInv'
  <2> SUFFICES ASSUME IInv, [Next]_vars PROVE IInv'
    OBVIOUS
  <2> QED
    BY ScalarsStep, AskedStep, UpdatesStep, WireStep, NotesStep, GuardStep
       DEF IInv, TypeOK, QueuesOK
<1> QED
  BY <1>1, <1>2, PTL DEF Spec

(* Every variable keeps its type: in particular the klippy_state subject, and *)
(* whatever is queued for it, is never Moonraker's "disconnected".            *)
THEOREM TypeCorrect == Spec => []TypeOK
<1>1. IInv => TypeOK
  BY DEF IInv
<1> QED
  BY <1>1, Invariance, PTL

(* The watermark is never ahead of Klipper's clock, however often the socket  *)
(* closes and Klipper's host restarts, and whatever frame of an earlier       *)
(* session is waiting or half applied when it does: apply_webhooks() rejects   *)
(* no frame the connected printer has yet to send.                            *)
THEOREM FramesAccepted == Spec => []NewFramesAreAccepted
<1>1. IInv => NewFramesAreAccepted
  BY DEF IInv, GuardInv
<1> QED
  BY <1>1, Invariance, PTL

-----------------------------------------------------------------------------
(* A ready or shut-down Klipper is shown as what it is, once nothing is on    *)
(* its way.  The last word about it is on exactly one of three roads: its     *)
(* notification, on the wire or already in the update queue; or, if it did    *)
(* not change since the socket opened, discovery, from the gate to the        *)
(* snapshot.  Word(k) says where that word is and that nothing which comes    *)
(* behind it, on either queue, can overwrite it.                             *)

Serving == {"ready", "shutdown"}
Discoveries == {"gate", "info", "subscribe"}

AllIn(s, B) == \A i \in 1..Len(s) : s[i] \in B

(* The sequence s has an element of A with elements of B only behind it.     *)
Closing(s, A, B) ==
    \E i \in 1..Len(s) : s[i] \in A /\ \A j \in 1..Len(s) : j > i => s[j] \in B

(* Messages, by what they can do.                                            *)
NotFrame == {m \in Messages : m.kind # "frame"}
NotNotify == {m \in Messages : m.kind # "notify"}
NotGone == {m \in Messages : m.kind = "notify" => m.state # "disconnected"}
Notified(k) == {m \in Messages : m.kind = "notify" /\ m.state = k}
Own(q) == {m \in Messages : m.kind \in Discoveries /\ m.tag = q}

(* A poll's answer carries a generation that is over, unless the poll is on.  *)
TagFits(r, p) == r.kind = "poll" => r.tag <= p.generation /\ (r.tag = p.generation => p.on)
Tagged(p) == {m \in Messages : TagFits(m, p)}

(* Frames, by what they can do in session e.                                 *)
Plain == {n \in Notes : ~n.polled /\ IF n.cached THEN n.time = 0 ELSE n.state = "shutdown"}
Cached == {n \in Notes : n.cached}
CachedAs(k) == {n \in Cached : n.state = k}
OtherNotes(e) == {n \in Notes : n.epoch = e => n.cached}

(* Items of the update queue, likewise.                                      *)
Known(e) == {u \in Updates : u.epoch <= e}
OtherPolls(e) == {u \in Updates : u.kind = "poll" => u.epoch # e}
Sets(k) == {u \in Updates : u.kind = "set" /\ u.state = k}
Minor == {u \in Updates : u.kind \in {"seed", "discovered"}}
Says(k) == {u \in Minor : u.state = k}
Snapshot(k) == {u \in Says(k) : u.kind = "discovered"}

(* While Klipper is ready every frame of the Klipper before it is read.       *)
FramesRead ==
    klippy = "ready" =>
        /\ AllIn(wire, NotFrame) /\ AllIn(notes, Cached)
        /\ applying # Nothing => applying.cached \/ applying.polled

(* What is queued is either a snapshot or a frame that says "shutdown".       *)
NotesShape ==
    /\ AllIn(notes, Plain)
    /\ applying # Nothing /\ ~applying.cached /\ ~applying.polled => applying.state = "shutdown"

(* Nothing has made this session live, and nothing that waits will.          *)
Unmarked ==
    /\ ~live /\ AllIn(wire, NotFrame)
    /\ AllIn(notes, OtherNotes(epoch)) /\ AllIn(updates, OtherPolls(epoch))
    /\ applying # Nothing /\ applying.epoch = epoch => applying.cached

(* A session begins unmarked, and without a poll.                            *)
ClosedInv == ~link => Unmarked /\ ~poll.on

TagsInv == (\A r \in asked : TagFits(r, poll)) /\ AllIn(wire, Tagged(poll))

(* A Klipper that went away and serves again has been announced: whatever    *)
(* polls for it, or is about to, finds the notification ahead.                *)
PollInv ==
    klippy \in Serving =>
        /\ poll.on => Closing(wire, Notified("ready"), NotGone)
        /\ AllIn(wire, NotGone) \/ Closing(wire, Notified("ready"), NotGone)

(* The notification that said k has been received, and is the last word.      *)
Delivered(k) ==
    /\ AllIn(wire, NotNotify) /\ live
    /\ \/ Closing(updates, Sets(k), Minor)
       \/ /\ AllIn(updates, Minor) /\ shown = k
          /\ applying # Nothing => applying.state = k

(* Discovery's own questions of this sequence were answered with k.           *)
Matched(k) ==
    /\ \A r \in asked : r.tag = seq /\ r.kind \in Discoveries => r.state \in {k, Unanswered}
    /\ \A i \in 1..Len(wire) : wire[i] \in Own(seq) => wire[i].state = k

(* How far discovery has come with its word.                                 *)
Stage(k) ==
    \/ \E r \in asked : r.tag = seq /\ r.kind \in Discoveries
    \/ Closing(wire, Own(seq), Messages)
    \/ Closing(updates, Snapshot(k), Says(k))
    \/ AllIn(updates, Says(k)) /\ Closing(notes, CachedAs(k), CachedAs(k))
    \/ /\ AllIn(updates, Says(k)) /\ AllIn(notes, CachedAs(k))
       /\ IF applying = Nothing THEN shown = k ELSE applying.state = k

Discovering(k) == AllIn(wire, NotNotify) /\ Unmarked /\ Matched(k) /\ Stage(k)

Word(k) == Closing(wire, Notified(k), NotNotify) \/ Delivered(k) \/ Discovering(k)

LastWord == \A k \in Serving : link /\ klippy = k => Word(k)

EpochsInv == AllIn(updates, Known(epoch))

WInv ==
    /\ FramesRead /\ NotesShape /\ EpochsInv /\ ClosedInv /\ TagsInv /\ PollInv
    /\ LastWord

(* What the properties of a sequence become when its first element is taken, *)
LEMMA Tails ==
    ASSUME NEW S, NEW s \in Seq(S), s # << >>, NEW A, NEW B
    PROVE  /\ AllIn(s, B) => Head(s) \in B /\ AllIn(Tail(s), B)
           /\ Closing(s, A, B) => \/ Closing(Tail(s), A, B)
                                  \/ Head(s) \in A /\ AllIn(Tail(s), B)
<1>1. PICK n \in Nat : n = Len(s) /\ n # 0
  BY Taking
<1>2. /\ Head(s) = s[1] /\ Len(Tail(s)) = n - 1
      /\ \A i \in 1..(n - 1) : Tail(s)[i] = s[i + 1]
  BY <1>1, Taking
<1>3. AllIn(s, B) => Head(s) \in B /\ AllIn(Tail(s), B)
  BY <1>1, <1>2 DEF AllIn
<1>4. ASSUME Closing(s, A, B)
      PROVE  Closing(Tail(s), A, B) \/ (Head(s) \in A /\ AllIn(Tail(s), B))
  <2>1. PICK i \in 1..n : s[i] \in A /\ \A j \in 1..n : j > i => s[j] \in B
    BY <1>1, <1>4 DEF Closing
  <2>2. CASE i = 1
    BY <1>2, <2>1, <2>2, <1>1 DEF AllIn
  <2>3. CASE i # 1
    <3>1. i - 1 \in 1..(n - 1) /\ Tail(s)[i - 1] \in A
      BY <1>1, <1>2, <2>1, <2>3
    <3>2. \A j \in 1..(n - 1) : j > i - 1 => Tail(s)[j] \in B
      BY <1>1, <1>2, <2>1
    <3> QED
      BY <1>2, <3>1, <3>2 DEF Closing
  <2> QED
    BY <2>2, <2>3
<1> QED
  BY <1>3, <1>4

(* one is added,                                                             *)
LEMMA Appends ==
    ASSUME NEW S, NEW s \in Seq(S), NEW e \in S, NEW A, NEW B
    PROVE  /\ e \in B /\ AllIn(s, B) => AllIn(Append(s, e), B)
           /\ e \in A => Closing(Append(s, e), A, B)
           /\ e \in B /\ Closing(s, A, B) => Closing(Append(s, e), A, B)
<1>1. PICK n \in Nat : n = Len(s)
  BY Adding
<1>2. /\ Len(Append(s, e)) = n + 1 /\ Append(s, e)[n + 1] = e
      /\ \A i \in 1..n : Append(s, e)[i] = s[i]
      /\ \A i \in 1..(n + 1) : i \in 1..n \/ i = n + 1
  BY <1>1, Adding
<1>3. e \in B /\ AllIn(s, B) => AllIn(Append(s, e), B)
  BY <1>1, <1>2 DEF AllIn
<1>4. e \in A => Closing(Append(s, e), A, B)
  BY <1>1, <1>2 DEF Closing
<1>5. ASSUME e \in B, Closing(s, A, B)
      PROVE  Closing(Append(s, e), A, B)
  <2>1. PICK i \in 1..n : s[i] \in A /\ \A j \in 1..n : j > i => s[j] \in B
    BY <1>1, <1>5 DEF Closing
  <2>2. i \in 1..(n + 1) /\ Append(s, e)[i] \in A
    BY <1>1, <1>2, <2>1
  <2>3. \A j \in 1..(n + 1) : j > i => Append(s, e)[j] \in B
    BY <1>2, <1>5, <2>1
  <2> QED
    BY <1>2, <2>2, <2>3 DEF Closing
<1> QED
  BY <1>3, <1>4, <1>5

(* a message and a frame are, in either order, or the message alone,         *)
LEMMA Announces ==
    ASSUME NEW S, NEW s \in Seq(S), NEW m \in S, NEW f \in S, NEW A, NEW B, NEW t,
           \/ t = Append(s, m)
           \/ t = Append(Append(s, f), m)
           \/ t = Append(Append(s, m), f)
    PROVE  /\ m \in B /\ f \in B /\ AllIn(s, B) => AllIn(t, B)
           /\ m \in A /\ f \in B => Closing(t, A, B)
           /\ m \in B /\ f \in B /\ Closing(s, A, B) => Closing(t, A, B)
<1>1. Append(s, m) \in Seq(S) /\ Append(s, f) \in Seq(S)
  BY Adding
<1>2. CASE t = Append(s, m)
  BY <1>2, Appends
<1>3. CASE t = Append(Append(s, f), m)
  <2> DEFINE u == Append(s, f)
  <2>1. /\ f \in B /\ AllIn(s, B) => AllIn(u, B)
        /\ f \in B /\ Closing(s, A, B) => Closing(u, A, B)
    BY Appends
  <2>2. u \in Seq(S) /\ t = Append(u, m)
    BY <1>1, <1>3
  <2> HIDE DEF u
  <2> QED
    BY <2>1, <2>2, Appends
<1>4. CASE t = Append(Append(s, m), f)
  <2> DEFINE u == Append(s, m)
  <2>1. /\ m \in B /\ AllIn(s, B) => AllIn(u, B)
        /\ m \in A => Closing(u, A, B)
        /\ m \in B /\ Closing(s, A, B) => Closing(u, A, B)
    BY Appends
  <2>2. u \in Seq(S) /\ t = Append(u, f)
    BY <1>1, <1>4
  <2> HIDE DEF u
  <2> QED
    BY <2>1, <2>2, Appends
<1> QED
  BY <1>2, <1>3, <1>4

(* there is none, or more is allowed.                                        *)
LEMMA Empties == ASSUME NEW A, NEW B PROVE AllIn(<< >>, B) /\ ~Closing(<< >>, A, B)
<1>1. Len(<< >>) = 0 /\ 1..0 = {}
  OBVIOUS
<1> QED
  BY <1>1 DEF AllIn, Closing

(* A set that allows more.                                                   *)
LEMMA Widens == ASSUME NEW s, NEW B, NEW C, AllIn(s, B), B \subseteq C PROVE AllIn(s, C)
  BY DEF AllIn

(* What a sequence ends with is one of its elements.                         *)
LEMMA Ends ==
    ASSUME NEW s, NEW A, NEW B, NEW C, Closing(s, A, B), AllIn(s, C)
    PROVE  \E e \in A : e \in C
  BY DEF AllIn, Closing

(* No notification of a Klipper that serves is overtaken by its poll: with   *)
(* no notification on the wire the poll is off.                              *)
LEMMA PollIsOff ==
    ASSUME PollInv, klippy \in Serving, AllIn(wire, NotNotify)
    PROVE  ~poll.on
<1> SUFFICES ASSUME poll.on PROVE FALSE
  OBVIOUS
<1>1. Closing(wire, Notified("ready"), NotGone)
  BY DEF PollInv
<1>2. \E m \in Notified("ready") : m \in NotNotify
  BY <1>1, Ends
<1> QED
  BY <1>2 DEF Notified, NotNotify

(* A step that leaves alone what WInv speaks of keeps it.                    *)
LEMMA WStutter ==
    ASSUME WInv,
           UNCHANGED <<klippy, link, asked, wire, seq, poll, notes, updates, applying, shown, live, epoch>>
    PROVE  WInv'
<1>1. FramesRead' /\ NotesShape' /\ EpochsInv' /\ TagsInv' /\ PollInv'
  BY DEF WInv, FramesRead, NotesShape, EpochsInv, TagsInv, PollInv
<1>2. ClosedInv'
  BY DEF WInv, ClosedInv, Unmarked
<1>3. LastWord'
  BY DEF WInv, LastWord, Word, Delivered, Discovering, Unmarked, Matched, Stage
<1> QED
  BY <1>1, <1>2, <1>3 DEF WInv

(* Klipper's own steps: a Klipper that comes to serve while the socket is     *)
(* open is the last thing that the wire says.                                *)
LEMMA KlipperKeeps ==
    ASSUME IInv, WInv, Klipper
    PROVE  WInv'
<1>0. /\ wire \in Seq(Messages) /\ poll \in Polls
      /\ Frame \in Messages /\ \A s \in Reports : Notify(s) \in Messages
  BY Entries DEF IInv, TypeOK, ScalarsOK, QueuesOK
<1>1. UNCHANGED <<link, asked, poll, seq, live, epoch, notes, updates, applying, shown>>
  BY DEF Klipper, KlipperShutsDown, KlipperGoes, KlipperComesUp, KlipperStarts,
     KlipperFailsToStart, HostReboots, Change, socket, client, guard, screen
<1>2. NotesShape' /\ EpochsInv'
  BY <1>1 DEF WInv, NotesShape, EpochsInv
<1>3. /\ Frame \in NotNotify /\ Frame \in NotGone /\ Frame \in Tagged(poll)
      /\ \A s \in Reports : Notify(s) \in Notified(s) /\ Notify(s) \in NotFrame
                            /\ Notify(s) \in Tagged(poll)
      /\ Notify("shutdown") \in NotGone /\ Notify("ready") \in NotGone
      /\ {"shutdown", "ready", "disconnected"} \subseteq Reports
  BY <1>0 DEF Frame, Notify, NotNotify, NotGone, Notified, NotFrame, Tagged, TagFits,
     Reports, KlippyStates
<1>4. CASE KlipperShutsDown
  <2>1. klippy = "ready" /\ klippy' = "shutdown"
    BY <1>4 DEF KlipperShutsDown, Change
  <2>2. \/ wire' = wire /\ ~link
        \/ link /\ wire' = Append(wire, Notify("shutdown"))
        \/ link /\ wire' = Append(Append(wire, Frame), Notify("shutdown"))
        \/ link /\ wire' = Append(Append(wire, Notify("shutdown")), Frame)
    BY <1>0, <1>3, <1>4, Joining DEF KlipperShutsDown, Announce
  <2> DEFINE N == Notify("shutdown")
  <2>3. /\ N \in Messages /\ Frame \in Messages /\ wire \in Seq(Messages)
        /\ N \in Notified("shutdown") /\ N \in NotGone /\ N \in Tagged(poll)
        /\ Frame \in NotNotify /\ Frame \in NotGone /\ Frame \in Tagged(poll)
    BY <1>0, <1>3
  <2>4. \/ wire' = Append(wire, N)
        \/ wire' = Append(Append(wire, Frame), N)
        \/ wire' = Append(Append(wire, N), Frame)
        \/ ~link /\ wire' = wire
    BY <2>2
  <2> HIDE DEF N
  <2>5. ASSUME NEW A, NEW B, link \/ wire' # wire
        PROVE  /\ N \in B /\ Frame \in B /\ AllIn(wire, B) => AllIn(wire', B)
               /\ N \in A /\ Frame \in B => Closing(wire', A, B)
               /\ N \in B /\ Frame \in B /\ Closing(wire, A, B) => Closing(wire', A, B)
    BY <2>3, <2>4, <2>5, Announces
  <2>6. TagsInv'
    <3>1. AllIn(wire, Tagged(poll))
      BY DEF WInv, TagsInv
    <3>2. AllIn(wire', Tagged(poll))
      BY <2>3, <2>5, <3>1
    <3> QED
      BY <1>1, <3>2 DEF WInv, TagsInv
  <2>7. PollInv'
    <3>1. /\ poll.on => Closing(wire, Notified("ready"), NotGone)
          /\ AllIn(wire, NotGone) \/ Closing(wire, Notified("ready"), NotGone)
      BY <2>1 DEF WInv, PollInv, Serving
    <3>2. Closing(wire, Notified("ready"), NotGone) => Closing(wire', Notified("ready"), NotGone)
      BY <2>3, <2>5
    <3>3. AllIn(wire, NotGone) => AllIn(wire', NotGone)
      BY <2>3, <2>5
    <3> QED
      BY <1>1, <3>1, <3>2, <3>3 DEF PollInv
  <2>8. link => Closing(wire', Notified("shutdown"), NotNotify)
    BY <2>3, <2>5
  <2>9. FramesRead' /\ LastWord'
    BY <1>1, <2>1, <2>8 DEF FramesRead, LastWord, Word
  <2>10. ClosedInv'
    BY <1>1, <2>2 DEF WInv, ClosedInv, Unmarked
  <2> QED
    BY <1>2, <2>6, <2>7, <2>9, <2>10 DEF WInv
<1>5. CASE KlipperStarts
  <2>1. klippy' = "ready" /\ EarlierFramesRead
    BY <1>5 DEF KlipperStarts, Change
  <2>2. (wire' = wire /\ ~link) \/ (link /\ wire' = Append(wire, Notify("ready")))
    BY <1>0, <1>3, <1>5, Joining DEF KlipperStarts, Announce
  <2> DEFINE N == Notify("ready")
  <2>3. N \in Messages /\ N \in Notified("ready") /\ N \in NotFrame /\ N \in Tagged(poll)
    BY <1>0, <1>3
  <2>4. N = Notify("ready")
    OBVIOUS
  <2> HIDE DEF N
  <2>5. TagsInv'
    <3>1. AllIn(wire, Tagged(poll))
      BY DEF WInv, TagsInv
    <3>2. AllIn(wire', Tagged(poll))
      BY <1>0, <2>2, <2>3, <2>4, <3>1, Appends
    <3> QED
      BY <1>1, <3>2 DEF WInv, TagsInv
  <2>6. FramesRead'
    <3>1. AllIn(wire, NotFrame)
      BY <1>0, <2>1 DEF EarlierFramesRead, AllIn, NotFrame
    <3>2. AllIn(wire', NotFrame)
      BY <1>0, <2>2, <2>3, <2>4, <3>1, Appends
    <3>3. notes \in Seq(Notes)
      BY DEF IInv, TypeOK, QueuesOK
    <3>4. AllIn(notes, Cached)
      BY <2>1, <3>3 DEF EarlierFramesRead, AllIn, Cached
    <3> QED
      BY <1>1, <2>1, <3>2, <3>4 DEF FramesRead, EarlierFramesRead
  <2>7. link => /\ Closing(wire', Notified("ready"), NotGone)
                /\ Closing(wire', Notified("ready"), NotNotify)
    BY <1>0, <2>2, <2>3, <2>4, Appends
  <2>8. ~link => ~poll.on /\ AllIn(wire', NotGone)
    BY <2>2, Empties DEF WInv, ClosedInv, IInv, WireInv
  <2>9. PollInv' /\ LastWord'
    BY <1>1, <2>1, <2>7, <2>8 DEF PollInv, LastWord, Word
  <2>10. ClosedInv'
    BY <1>1, <2>2 DEF WInv, ClosedInv, Unmarked
  <2> QED
    BY <1>2, <2>5, <2>6, <2>9, <2>10 DEF WInv
<1>6. CASE KlipperGoes \/ KlipperComesUp \/ KlipperFailsToStart \/ HostReboots
  <2>1. klippy' \notin Serving
    BY <1>6 DEF KlipperGoes, KlipperComesUp, KlipperFailsToStart, HostReboots, Change, Serving
  <2>2. wire' = wire \/ (link /\ wire' = Append(wire, Notify("disconnected")))
    BY <1>0, <1>3, <1>6, Joining
       DEF KlipperGoes, KlipperComesUp, KlipperFailsToStart, HostReboots, Announce
  <2>3. AllIn(wire', Tagged(poll))
    <3>1. AllIn(wire, Tagged(poll))
      BY DEF WInv, TagsInv
    <3>2. Notify("disconnected") \in Messages /\ Notify("disconnected") \in Tagged(poll)
      BY <1>0, <1>3
    <3> QED
      BY <1>0, <2>2, <3>1, <3>2, Appends
  <2>4. TagsInv'
    BY <1>1, <2>3 DEF WInv, TagsInv
  <2>5. FramesRead' /\ PollInv' /\ LastWord'
    BY <2>1 DEF FramesRead, PollInv, LastWord, Serving
  <2>6. ClosedInv'
    BY <1>1, <2>2 DEF WInv, ClosedInv, Unmarked
  <2> QED
    BY <1>2, <2>4, <2>5, <2>6 DEF WInv
<1> QED
  BY <1>4, <1>5, <1>6 DEF Klipper

(* What Moonraker answers is a message of the question's kind and tag, with   *)
(* Klipper's state now or when it was evaluated.                             *)
LEMMA Answers ==
    ASSUME IInv, NEW r \in asked, AnswerGate(r) \/ Evaluate(r) \/ Reply(r)
    PROVE  /\ UNCHANGED <<klippy, link, seq, poll, live, epoch, notes, updates, applying, shown>>
           /\ \/ /\ wire' = wire
                 /\ \E q \in Questions :
                       /\ asked' = (asked \ {r}) \cup {q}
                       /\ q.kind = r.kind /\ q.tag = r.tag /\ q.state = klippy
              \/ /\ asked' = asked \ {r}
                 /\ \E m \in Messages :
                       /\ wire' = Append(wire, m)
                       /\ m.kind = r.kind /\ m.tag = r.tag /\ m.kind \in Requests
                       /\ m.state = klippy \/ (m.state = r.state /\ r.state # Unanswered)
<1>1. /\ r \in Questions /\ klippy \in Reports /\ r.kind \in Requests /\ r.tag \in Nat
      /\ r.state \in Reports \cup {Unanswered}
  BY DEF IInv, TypeOK, ScalarsOK, QueuesOK, Questions
<1>2. UNCHANGED <<klippy, link, seq, poll, live, epoch, notes, updates, applying, shown>>
  BY DEF AnswerGate, Evaluate, Reply, moonraker, socket, client, guard, screen
<1>3. PICK q : q = [r EXCEPT !.state = klippy]
  OBVIOUS
<1>4. /\ q \in Questions /\ q \in Messages
      /\ q.kind = r.kind /\ q.tag = r.tag /\ q.state = klippy
  BY <1>1, <1>3 DEF Questions, Messages
<1>5. CASE AnswerGate(r)
  BY <1>1, <1>2, <1>3, <1>4, <1>5 DEF AnswerGate
<1>6. CASE Evaluate(r)
  BY <1>2, <1>3, <1>4, <1>6 DEF Evaluate
<1>7. CASE Reply(r)
  <2>1. r \in Messages
    BY <1>1, <1>7 DEF Reply, Questions, Messages
  <2> QED
    BY <1>1, <1>2, <1>7, <2>1 DEF Reply
<1> QED
  BY <1>5, <1>6, <1>7

(* An answer is no notification and no frame, and its question's tag fits.    *)
LEMMA AnswerKeeps ==
    ASSUME IInv, WInv, NEW r \in asked, AnswerGate(r) \/ Evaluate(r) \/ Reply(r)
    PROVE  WInv'
<1>0. wire \in Seq(Messages) /\ r \in Questions /\ r.kind \in Requests
  BY DEF IInv, TypeOK, QueuesOK, Questions
<1>1. UNCHANGED <<klippy, link, seq, poll, live, epoch, notes, updates, applying, shown>>
  BY Answers
<1>2. NotesShape' /\ EpochsInv'
  BY <1>1 DEF WInv, NotesShape, EpochsInv
<1>3. CASE /\ wire' = wire
           /\ \E q \in Questions :
                 /\ asked' = (asked \ {r}) \cup {q}
                 /\ q.kind = r.kind /\ q.tag = r.tag /\ q.state = klippy
  <2>1. PICK q \in Questions :
                 /\ asked' = (asked \ {r}) \cup {q}
                 /\ q.kind = r.kind /\ q.tag = r.tag /\ q.state = klippy
    BY <1>3
  <2>2. FramesRead' /\ PollInv' /\ ClosedInv'
    BY <1>1, <1>3 DEF WInv, FramesRead, PollInv, ClosedInv, Unmarked
  <2>3. TagsInv'
    <3>1. TagFits(q, poll)
      BY <2>1 DEF WInv, TagsInv, TagFits
    <3> QED
      BY <1>1, <1>3, <2>1, <3>1 DEF WInv, TagsInv
  <2>4. LastWord'
    <3> SUFFICES ASSUME NEW k \in Serving, link, klippy = k PROVE Word(k)'
      BY <1>1 DEF LastWord
    <3>1. Word(k)
      BY DEF WInv, LastWord
    <3>2. CASE Closing(wire, Notified(k), NotNotify) \/ Delivered(k)
      BY <1>1, <1>3, <3>2 DEF Word, Delivered
    <3>3. CASE Discovering(k)
      <4>1. Unmarked' /\ AllIn(wire', NotNotify)
        BY <1>1, <1>3, <3>3 DEF Discovering, Unmarked
      <4>2. Matched(k)'
        BY <1>1, <1>3, <2>1, <3>3 DEF Discovering, Matched
      <4>3. Stage(k)'
        <5>1. (\E p \in asked : p.tag = seq /\ p.kind \in Discoveries)
                  => \E p \in asked' : p.tag = seq /\ p.kind \in Discoveries
          BY <2>1
        <5> QED
          BY <1>1, <1>3, <3>3, <5>1 DEF Discovering, Stage
      <4> QED
        BY <4>1, <4>2, <4>3 DEF Word, Discovering
    <3> QED
      BY <3>1, <3>2, <3>3 DEF Word
  <2> QED
    BY <1>2, <2>2, <2>3, <2>4 DEF WInv
<1>4. CASE /\ asked' = asked \ {r}
           /\ \E m \in Messages :
                 /\ wire' = Append(wire, m)
                 /\ m.kind = r.kind /\ m.tag = r.tag /\ m.kind \in Requests
                 /\ m.state = klippy \/ (m.state = r.state /\ r.state # Unanswered)
  <2>1. PICK m \in Messages :
                 /\ wire' = Append(wire, m)
                 /\ m.kind = r.kind /\ m.tag = r.tag /\ m.kind \in Requests
                 /\ m.state = klippy \/ (m.state = r.state /\ r.state # Unanswered)
    BY <1>4
  <2>2. /\ m \in NotFrame /\ m \in NotNotify /\ m \in NotGone /\ m \in Tagged(poll)
        /\ TagFits(r, poll) /\ link
    <3>1. TagFits(r, poll)
      BY DEF WInv, TagsInv
    <3>2. TagFits(m, poll)
      BY <2>1, <3>1 DEF TagFits
    <3> QED
      BY <2>1, <3>1, <3>2 DEF NotFrame, NotNotify, NotGone, Tagged, Requests, IInv, WireInv
  <2>3. FramesRead' /\ ClosedInv'
    <3>1. AllIn(wire, NotFrame) => AllIn(wire', NotFrame)
      BY <1>0, <2>1, <2>2, Appends
    <3> QED
      BY <1>1, <2>2, <3>1 DEF WInv, FramesRead, ClosedInv
  <2>4. TagsInv'
    <3>1. AllIn(wire, Tagged(poll))
      BY DEF WInv, TagsInv
    <3>2. AllIn(wire', Tagged(poll))
      BY <1>0, <2>1, <2>2, <3>1, Appends
    <3> QED
      BY <1>1, <1>4, <3>2 DEF WInv, TagsInv
  <2>5. PollInv'
    <3>1. /\ AllIn(wire, NotGone) => AllIn(wire', NotGone)
          /\ Closing(wire, Notified("ready"), NotGone) => Closing(wire', Notified("ready"), NotGone)
      BY <1>0, <2>1, <2>2, Appends
    <3> QED
      BY <1>1, <3>1 DEF WInv, PollInv
  <2>6. LastWord'
    <3> SUFFICES ASSUME NEW k \in Serving, link, klippy = k PROVE Word(k)'
      BY <1>1 DEF LastWord
    <3>1. Word(k)
      BY DEF WInv, LastWord
    <3>2. /\ AllIn(wire, NotNotify) => AllIn(wire', NotNotify)
          /\ AllIn(wire, NotFrame) => AllIn(wire', NotFrame)
          /\ Closing(wire, Notified(k), NotNotify) => Closing(wire', Notified(k), NotNotify)
          /\ Closing(wire, Own(seq), Messages) => Closing(wire', Own(seq), Messages)
          /\ m \in Own(seq) => Closing(wire', Own(seq), Messages)
      BY <1>0, <2>1, <2>2, Appends
    <3>3. CASE Closing(wire, Notified(k), NotNotify) \/ Delivered(k)
      BY <1>1, <3>2, <3>3 DEF Word, Delivered
    <3>4. CASE Discovering(k)
      <4>1. Unmarked' /\ AllIn(wire', NotNotify)
        BY <1>1, <3>2, <3>4 DEF Discovering, Unmarked
      <4>2. m \in Own(seq) => m.state = k
        BY <2>1, <3>4 DEF Discovering, Matched, Own
      <4>3. Matched(k)'
        <5>1. \A i \in 1..Len(wire') : wire'[i] = m \/ (i \in 1..Len(wire) /\ wire'[i] = wire[i])
          BY <1>0, <2>1, Adding
        <5>2. \A i \in 1..Len(wire') : wire'[i] \in Own(seq) => wire'[i].state = k
          BY <3>4, <4>2, <5>1 DEF Discovering, Matched
        <5> QED
          BY <1>1, <1>4, <3>4, <5>2 DEF Discovering, Matched
      <4>4. Stage(k)'
        <5>1. (\E p \in asked : p.tag = seq /\ p.kind \in Discoveries)
                  => \/ \E p \in asked' : p.tag = seq /\ p.kind \in Discoveries
                     \/ m \in Own(seq)
          BY <1>4, <2>1 DEF Own
        <5> QED
          BY <1>1, <3>2, <3>4, <5>1 DEF Discovering, Stage
      <4> QED
        BY <4>1, <4>3, <4>4 DEF Word, Discovering
    <3> QED
      BY <3>1, <3>3, <3>4 DEF Word
  <2> QED
    BY <1>2, <2>3, <2>4, <2>5, <2>6 DEF WInv
<1> QED
  BY <1>3, <1>4, Answers

(* What is known of the rest of the wire when a message is taken from it.    *)
LEMMA Receiving ==
    ASSUME IInv, WInv, wire # << >>
    PROVE  /\ link /\ Head(wire) \in Messages /\ wire \in Seq(Messages)
           /\ AllIn(wire, NotFrame) => Head(wire).kind # "frame" /\ AllIn(Tail(wire), NotFrame)
           /\ AllIn(wire, NotNotify) => Head(wire).kind # "notify" /\ AllIn(Tail(wire), NotNotify)
           /\ TagFits(Head(wire), poll) /\ AllIn(Tail(wire), Tagged(poll))
           /\ \A k : Closing(wire, Notified(k), NotNotify) =>
                        \/ Closing(Tail(wire), Notified(k), NotNotify)
                        \/ /\ Head(wire).kind = "notify" /\ Head(wire).state = k
                           /\ AllIn(Tail(wire), NotNotify)
           /\ \A k : Matched(k) =>
                        /\ Head(wire) \in Own(seq) => Head(wire).state = k
                        /\ \A i \in 1..Len(Tail(wire)) :
                              Tail(wire)[i] \in Own(seq) => Tail(wire)[i].state = k
           /\ Closing(wire, Own(seq), Messages) =>
                        Closing(Tail(wire), Own(seq), Messages) \/ Head(wire) \in Own(seq)
<1>1. wire \in Seq(Messages) /\ link
  BY DEF IInv, TypeOK, QueuesOK, WireInv
<1>2. Head(wire) \in Messages
  BY <1>1, Taking
<1>3. /\ AllIn(wire, NotFrame) => Head(wire).kind # "frame" /\ AllIn(Tail(wire), NotFrame)
      /\ AllIn(wire, NotNotify) => Head(wire).kind # "notify" /\ AllIn(Tail(wire), NotNotify)
  <2>1. /\ AllIn(wire, NotFrame) => Head(wire) \in NotFrame /\ AllIn(Tail(wire), NotFrame)
        /\ AllIn(wire, NotNotify) => Head(wire) \in NotNotify /\ AllIn(Tail(wire), NotNotify)
    BY <1>1, Tails
  <2> QED
    BY <2>1 DEF NotFrame, NotNotify
<1>4. TagFits(Head(wire), poll) /\ AllIn(Tail(wire), Tagged(poll))
  <2>1. Head(wire) \in Tagged(poll) /\ AllIn(Tail(wire), Tagged(poll))
    BY <1>1, Tails DEF WInv, TagsInv
  <2> QED
    BY <2>1 DEF Tagged
<1>5. ASSUME NEW k, Closing(wire, Notified(k), NotNotify)
      PROVE  \/ Closing(Tail(wire), Notified(k), NotNotify)
             \/ /\ Head(wire).kind = "notify" /\ Head(wire).state = k
                /\ AllIn(Tail(wire), NotNotify)
  <2>1. \/ Closing(Tail(wire), Notified(k), NotNotify)
        \/ Head(wire) \in Notified(k) /\ AllIn(Tail(wire), NotNotify)
    BY <1>1, <1>5, Tails
  <2> QED
    BY <2>1 DEF Notified
<1>6. ASSUME NEW k, Matched(k)
      PROVE  /\ Head(wire) \in Own(seq) => Head(wire).state = k
             /\ \A i \in 1..Len(Tail(wire)) :
                   Tail(wire)[i] \in Own(seq) => Tail(wire)[i].state = k
  <2>1. /\ Head(wire) = wire[1] /\ 1 \in 1..Len(wire)
        /\ \A i \in 1..Len(Tail(wire)) : i + 1 \in 1..Len(wire) /\ Tail(wire)[i] = wire[i + 1]
    BY <1>1, Taking
  <2> QED
    BY <1>6, <2>1 DEF Matched
<1>7. Closing(wire, Own(seq), Messages) =>
          Closing(Tail(wire), Own(seq), Messages) \/ Head(wire) \in Own(seq)
  BY <1>1, Tails
<1> QED
  BY <1>1, <1>2, <1>3, <1>4, <1>5, <1>6, <1>7

(* The same of PollInv, by the message.                                      *)
LEMMA ReceivingPoll ==
    ASSUME IInv, WInv, wire # << >>, klippy \in Serving
    PROVE  /\ AllIn(Tail(wire), NotGone) \/ Closing(Tail(wire), Notified("ready"), NotGone)
           /\ Head(wire).kind # "notify" \/ Head(wire).state # "ready" =>
                 (poll.on => Closing(Tail(wire), Notified("ready"), NotGone))
           /\ Head(wire).kind = "notify" /\ Head(wire).state = "disconnected" =>
                 Closing(Tail(wire), Notified("ready"), NotGone)
<1>1. /\ wire \in Seq(Messages)
      /\ poll.on => Closing(wire, Notified("ready"), NotGone)
      /\ AllIn(wire, NotGone) \/ Closing(wire, Notified("ready"), NotGone)
  BY DEF IInv, TypeOK, QueuesOK, WInv, PollInv
<1>2. /\ AllIn(wire, NotGone) => Head(wire) \in NotGone /\ AllIn(Tail(wire), NotGone)
      /\ Closing(wire, Notified("ready"), NotGone) =>
            \/ Closing(Tail(wire), Notified("ready"), NotGone)
            \/ Head(wire) \in Notified("ready") /\ AllIn(Tail(wire), NotGone)
  BY <1>1, Tails
<1> QED
  BY <1>1, <1>2 DEF NotGone, Notified

(* A message other than a notification leaves the wire as WInv needs it,      *)
(* whatever it queues.                                                       *)
LEMMA ReceivedKeeps ==
    ASSUME IInv, WInv, wire # << >>, wire' = Tail(wire), Head(wire).kind # "notify",
           UNCHANGED <<klippy, link>>, poll'.on => poll.on
    PROVE  /\ ClosedInv' /\ PollInv'
           /\ klippy = "ready" => AllIn(wire', NotFrame)
<1>1. ClosedInv'
  BY Receiving DEF ClosedInv
<1>2. PollInv'
  BY ReceivingPoll DEF PollInv
<1>3. klippy = "ready" => AllIn(wire', NotFrame)
  BY Receiving DEF WInv, FramesRead
<1> QED
  BY <1>1, <1>2, <1>3

(* A frame is queued: it says "shutdown", and there is none while Klipper is  *)
(* ready or this session's discovery has the last word.                      *)
LEMMA FrameKeeps ==
    ASSUME IInv, WInv, OnFrame
    PROVE  WInv'
<1>1. /\ wire # << >> /\ Head(wire).kind = "frame" /\ wire' = Tail(wire)
      /\ UNCHANGED <<klippy, link, asked, seq, poll, live, epoch, updates, applying, shown>>
  BY DEF OnFrame, Receive, moonraker, socket, client, guard
<1>2. PICK n : /\ n = [state |-> Head(wire).state, time |-> Head(wire).tag,
                        cached |-> FALSE, epoch |-> epoch, polled |-> FALSE]
               /\ notes' = Append(notes, n)
  BY DEF OnFrame
<1>3. n \in Notes /\ n \in Plain
  <2>1. Head(wire).state = "shutdown" /\ Head(wire).tag \in Nat /\ epoch \in Nat
    <3>1. Head(wire) = wire[1] /\ 1 \in 1..Len(wire)
      BY <1>1, Taking DEF IInv, TypeOK, QueuesOK
    <3>2. Fresh(Head(wire), now)
      BY <3>1 DEF IInv, WireInv, AllFresh
    <3> QED
      BY <1>1, <3>2, Heads DEF Fresh, IInv, TypeOK, ScalarsOK
  <2> QED
    BY <1>2, <2>1 DEF Notes, Plain, KlippyStates
<1>4. klippy # "ready" /\ ~AllIn(wire, NotFrame)
  BY <1>1, Receiving DEF WInv, FramesRead
<1>5. FramesRead' /\ ClosedInv' /\ PollInv'
  BY <1>1, <1>4, ReceivedKeeps DEF FramesRead
<1>6. NotesShape'
  <2>1. AllIn(notes', Plain)
    BY <1>2, <1>3, Appends DEF WInv, NotesShape, IInv, TypeOK, QueuesOK
  <2> QED
    BY <1>1, <2>1 DEF WInv, NotesShape
<1>7. EpochsInv' /\ TagsInv'
  BY <1>1, Receiving DEF WInv, EpochsInv, TagsInv
<1>8. LastWord'
  <2> SUFFICES ASSUME NEW k \in Serving, link, klippy = k PROVE Word(k)'
    BY <1>1 DEF LastWord
  <2>1. Word(k)
    BY DEF WInv, LastWord
  <2>2. CASE Closing(wire, Notified(k), NotNotify)
    BY <1>1, <2>2, Receiving DEF Word
  <2>3. CASE Delivered(k)
    BY <1>1, <2>3, Receiving DEF Word, Delivered
  <2>4. CASE Discovering(k)
    BY <1>4, <2>4 DEF Discovering, Unmarked
  <2> QED
    BY <2>1, <2>2, <2>3, <2>4 DEF Word
<1> QED
  BY <1>5, <1>6, <1>7, <1>8 DEF WInv

(* A tag that fits a poll fits it when it has moved on, or stopped.           *)
LEMMA TagsMoveOn ==
    ASSUME poll \in Polls, NEW p, p.generation \in Nat, p.generation > poll.generation,
           NEW r, r.tag \in Nat, TagFits(r, poll)
    PROVE  TagFits(r, p)
  BY DEF TagFits, Polls

(* TagsInv for what was asked and what is on the wire.                       *)
LEMMA TagsStep ==
    ASSUME IInv, WInv, NEW p,
           \/ p.generation = poll.generation /\ p.on = poll.on
           \/ p.generation \in Nat /\ p.generation > poll.generation
    PROVE  /\ \A r \in asked : TagFits(r, p)
           /\ Tagged(poll) \subseteq Tagged(p)
           /\ wire # << >> => AllIn(Tail(wire), Tagged(p))
<1>1. poll \in Polls
  BY DEF IInv, TypeOK, ScalarsOK
<1>2. \A r : r.tag \in Nat /\ TagFits(r, poll) => TagFits(r, p)
  BY <1>1, TagsMoveOn DEF TagFits
<1>3. \A r \in asked : TagFits(r, p)
  BY <1>2 DEF IInv, TypeOK, QueuesOK, Questions, WInv, TagsInv
<1>4. Tagged(poll) \subseteq Tagged(p)
  BY <1>2 DEF Tagged, Messages
<1>5. wire # << >> => AllIn(Tail(wire), Tagged(p))
  BY <1>4, Receiving, Widens
<1> QED
  BY <1>3, <1>4, <1>5

(* What is queued is known to this session.                                  *)
LEMMA Queued ==
    ASSUME IInv, NEW e \in {"set", "seed", "discovered", "poll"}, NEW s \in KlippyStates
    PROVE  /\ Item(e, s) \in Updates /\ Item(e, s) \in Known(epoch)
           /\ e = "set" => Item(e, s) \in Sets(s)
           /\ e \in {"seed", "discovered"} =>
                  Item(e, s) \in Minor /\ Item(e, s) \in Says(s) /\ Item(e, s) \in OtherPolls(epoch)
           /\ e = "discovered" => Item(e, s) \in Snapshot(s)
<1>1. Item(e, s) \in Updates
  BY Entries DEF IInv, TypeOK
<1>2. Item(e, s).kind = e /\ Item(e, s).state = s /\ Item(e, s).epoch = epoch /\ epoch \in Nat
  BY DEF Item, IInv, TypeOK, ScalarsOK
<1> QED
  BY <1>1, <1>2 DEF Known, Sets, Minor, Says, Snapshot, OtherPolls

(* A question of discovery fits every poll.                                  *)
LEMMA Asks ==
    ASSUME NEW k \in Discoveries, NEW t, NEW p
    PROVE  /\ TagFits(Ask(k, t), p) /\ Ask(k, t).state = Unanswered
           /\ Ask(k, t).tag = t /\ Ask(k, t).kind = k
  BY DEF Discoveries, TagFits, Ask

(* notify_klippy_ready: the word is in the update queue if it was the last.   *)
LEMMA ReadyKeeps ==
    ASSUME IInv, WInv, OnKlippyReady
    PROVE  WInv'
<1>1. /\ wire # << >> /\ Head(wire).kind = "notify" /\ Head(wire).state = "ready"
      /\ wire' = Tail(wire) /\ live' = TRUE /\ poll' = StopPoll
      /\ updates' = Append(updates, Item("set", "ready"))
      /\ asked' = asked \cup {Ask("gate", seq + 1)} /\ seq' = seq + 1
      /\ UNCHANGED <<klippy, link, epoch, notes, applying, shown>>
  BY DEF OnKlippyReady, Receive, SetKlippyState, Queue, Discover, moonraker, socket
<1>2. /\ updates \in Seq(Updates) /\ Item("set", "ready") \in Updates
      /\ Item("set", "ready") \in Known(epoch) /\ Item("set", "ready") \in Sets("ready")
  BY Queued DEF KlippyStates, IInv, TypeOK, QueuesOK
<1>3. /\ ~poll'.on
      /\ \/ poll' = poll
         \/ poll'.generation \in Nat /\ poll'.generation > poll.generation
  BY <1>1 DEF StopPoll, IInv, TypeOK, ScalarsOK, Polls
<1>4. NotesShape'
  BY <1>1 DEF WInv, NotesShape
<1>5. FramesRead' /\ ClosedInv'
  <2>1. klippy = "ready" => AllIn(wire', NotFrame)
    BY <1>1, Receiving DEF WInv, FramesRead
  <2> QED
    BY <1>1, <2>1, Receiving DEF WInv, FramesRead, ClosedInv
<1>6. PollInv'
  BY <1>1, <1>3, ReceivingPoll DEF PollInv
<1>7. EpochsInv'
  BY <1>1, <1>2, Appends DEF WInv, EpochsInv
<1>8. TagsInv'
  <2>1. (\A r \in asked : TagFits(r, poll')) /\ AllIn(Tail(wire), Tagged(poll'))
    BY <1>1, <1>3, TagsStep
  <2>2. TagFits(Ask("gate", seq + 1), poll')
    BY Asks DEF Discoveries
  <2> QED
    BY <1>1, <2>1, <2>2 DEF TagsInv
<1>9. LastWord'
  <2> SUFFICES ASSUME NEW k \in Serving, link, klippy = k PROVE Word(k)'
    BY <1>1 DEF LastWord
  <2>1. Closing(wire, Notified(k), NotNotify)
    BY <1>1, Receiving DEF WInv, LastWord, Word, Delivered, Discovering
  <2>2. CASE Closing(Tail(wire), Notified(k), NotNotify)
    BY <1>1, <2>2 DEF Word
  <2>3. CASE k = "ready" /\ AllIn(Tail(wire), NotNotify)
    <3>1. Closing(updates', Sets(k), Minor)
      BY <1>1, <1>2, <2>3, Appends
    <3> QED
      BY <1>1, <2>3, <3>1 DEF Word, Delivered
  <2> QED
    BY <1>1, <2>1, <2>2, <2>3, Receiving
<1> QED
  BY <1>4, <1>5, <1>6, <1>7, <1>8, <1>9 DEF WInv

(* notify_klippy_shutdown, likewise.                                         *)
LEMMA ShutdownKeeps ==
    ASSUME IInv, WInv, OnKlippyShutdown
    PROVE  WInv'
<1>1. /\ wire # << >> /\ Head(wire).kind = "notify" /\ Head(wire).state = "shutdown"
      /\ wire' = Tail(wire) /\ live' = TRUE
      /\ updates' = Append(updates, Item("set", "shutdown"))
      /\ asked' = asked \/ asked' = asked \cup {Ask("gate", seq + 1)}
      /\ UNCHANGED <<klippy, link, poll, epoch, notes, applying, shown>>
  BY DEF OnKlippyShutdown, Receive, SetKlippyState, Queue, Discover, moonraker, socket
<1>2. /\ updates \in Seq(Updates) /\ Item("set", "shutdown") \in Updates
      /\ Item("set", "shutdown") \in Known(epoch) /\ Item("set", "shutdown") \in Sets("shutdown")
  BY Queued DEF KlippyStates, IInv, TypeOK, QueuesOK
<1>4. NotesShape'
  BY <1>1 DEF WInv, NotesShape
<1>5. FramesRead' /\ ClosedInv'
  <2>1. klippy = "ready" => AllIn(wire', NotFrame)
    BY <1>1, Receiving DEF WInv, FramesRead
  <2> QED
    BY <1>1, <2>1, Receiving DEF WInv, FramesRead, ClosedInv
<1>6. PollInv'
  BY <1>1, ReceivingPoll DEF PollInv
<1>7. EpochsInv'
  BY <1>1, <1>2, Appends DEF WInv, EpochsInv
<1>8. TagsInv'
  <2>1. AllIn(Tail(wire), Tagged(poll))
    BY <1>1, Receiving
  <2>2. TagFits(Ask("gate", seq + 1), poll)
    BY Asks DEF Discoveries
  <2> QED
    BY <1>1, <2>1, <2>2 DEF WInv, TagsInv
<1>9. LastWord'
  <2> SUFFICES ASSUME NEW k \in Serving, link, klippy = k PROVE Word(k)'
    BY <1>1 DEF LastWord
  <2>1. Closing(wire, Notified(k), NotNotify)
    BY <1>1, Receiving DEF WInv, LastWord, Word, Delivered, Discovering
  <2>2. CASE Closing(Tail(wire), Notified(k), NotNotify)
    BY <1>1, <2>2 DEF Word
  <2>3. CASE k = "shutdown" /\ AllIn(Tail(wire), NotNotify)
    <3>1. Closing(updates', Sets(k), Minor)
      BY <1>1, <1>2, <2>3, Appends
    <3> QED
      BY <1>1, <2>3, <3>1 DEF Word, Delivered
  <2> QED
    BY <1>1, <2>1, <2>2, <2>3, Receiving
<1> QED
  BY <1>4, <1>5, <1>6, <1>7, <1>8, <1>9 DEF WInv

(* Giving up the answers under way keeps what a wire ends with.               *)
LEMMA Abandoning ==
    ASSUME NEW s \in Seq(Messages), s # << >>,
           NEW t, t = [i \in 1..(Len(s) - 1) |-> Abandoned(s[i + 1])], NEW A, NEW B,
           \A m \in A : Abandoned(m) = m, \A m \in B : Abandoned(m) \in B
    PROVE  /\ AllIn(Tail(s), B) => AllIn(t, B)
           /\ Closing(Tail(s), A, B) => Closing(t, A, B)
<1>0. Len(s) - 1 \in Nat
  <2>1. Len(s) \in Nat \ {0}
    BY Taking
  <2> QED
    BY <2>1
<1>1. PICK n \in Nat : n = Len(s) - 1
  BY <1>0
<1>2. Len(Tail(s)) = n /\ \A i \in 1..n : Tail(s)[i] = s[i + 1]
  BY <1>1, Taking
<1>3. DOMAIN t = 1..n /\ \A i \in 1..n : t[i] = Abandoned(s[i + 1])
  BY <1>1
<1>4. t \in Seq({Abandoned(m) : m \in Messages})
  <2>1. \A i \in 1..n : s[i + 1] \in Messages
    BY <1>1, Taking
  <2> QED
    BY <1>1, <1>3, <2>1
<1>5. Len(t) = n
  BY <1>1, <1>3, <1>4
<1>6. \A i \in 1..n : t[i] = Abandoned(Tail(s)[i])
  BY <1>2, <1>3
<1>7. AllIn(Tail(s), B) => AllIn(t, B)
  BY <1>2, <1>5, <1>6 DEF AllIn
<1>8. ASSUME Closing(Tail(s), A, B)
      PROVE  Closing(t, A, B)
  <2>1. PICK i \in 1..n : /\ Tail(s)[i] \in A
                         /\ \A j \in 1..n : j > i => Tail(s)[j] \in B
    BY <1>2, <1>8 DEF Closing
  <2>2. t[i] \in A /\ \A j \in 1..n : j > i => t[j] \in B
    BY <1>6, <2>1
  <2> QED
    BY <1>5, <2>2 DEF Closing
<1> QED
  BY <1>7, <1>8

(* notify_klippy_disconnected: a Klipper that serves again has said so, and   *)
(* that is still on the wire.                                                *)
LEMMA DisconnectedKeeps ==
    ASSUME IInv, WInv, OnKlippyDisconnected
    PROVE  WInv'
<1>1. /\ wire # << >> /\ Head(wire).kind = "notify" /\ Head(wire).state = "disconnected"
      /\ wire' = [i \in 1..(Len(wire) - 1) |-> Abandoned(wire[i + 1])]
      /\ updates' = Append(updates, Item("set", "shutdown"))
      /\ asked' = {} /\ poll' = StartPoll
      /\ UNCHANGED <<klippy, link, epoch, notes, applying, shown>>
  BY DEF OnKlippyDisconnected, Receive, SetKlippyState, Queue, moonraker, socket
<1>2. /\ updates \in Seq(Updates) /\ wire \in Seq(Messages)
      /\ Item("set", "shutdown") \in Updates /\ Item("set", "shutdown") \in Known(epoch)
  BY Queued DEF KlippyStates, IInv, TypeOK, QueuesOK
<1>3. /\ \A m \in Messages : Abandoned(m) \in Messages /\ Abandoned(m).kind # "poll"
      /\ \A k : \A m \in Notified(k) : Abandoned(m) = m
      /\ \A m \in NotFrame : Abandoned(m) \in NotFrame
      /\ \A m \in NotNotify : Abandoned(m) \in NotNotify
      /\ \A m \in NotGone : Abandoned(m) \in NotGone
  <2>1. Unmatched \in Messages /\ Unmatched.kind = "unmatched"
    BY Entries DEF IInv, TypeOK, Unmatched
  <2> QED
    BY <2>1 DEF Abandoned, Messages, Requests, Notified, NotFrame, NotNotify, NotGone
<1>4. NotesShape'
  BY <1>1 DEF WInv, NotesShape
<1>5. FramesRead' /\ ClosedInv'
  <2>1. klippy = "ready" => AllIn(Tail(wire), NotFrame)
    BY <1>1, Receiving DEF WInv, FramesRead
  <2>2. AllIn(Tail(wire), NotFrame) => AllIn(wire', NotFrame)
    BY <1>1, <1>2, <1>3, Abandoning
  <2> QED
    BY <1>1, <2>1, <2>2, Receiving DEF WInv, FramesRead, ClosedInv
<1>6. PollInv'
  <2>1. klippy \in Serving => Closing(Tail(wire), Notified("ready"), NotGone)
    BY <1>1, ReceivingPoll
  <2>2. Closing(Tail(wire), Notified("ready"), NotGone) => Closing(wire', Notified("ready"), NotGone)
    BY <1>1, <1>2, <1>3, Abandoning
  <2> QED
    BY <1>1, <2>1, <2>2 DEF PollInv
<1>7. EpochsInv'
  BY <1>1, <1>2, Appends DEF WInv, EpochsInv
<1>8. TagsInv'
  <2>1. \A i \in 1..(Len(wire) - 1) : wire'[i] \in Tagged(poll')
    <3>1. \A i \in 1..(Len(wire) - 1) : wire[i + 1] \in Messages
      BY <1>2
    <3> QED
      BY <1>1, <1>3, <3>1 DEF Tagged, TagFits
  <2>2. AllIn(wire', Tagged(poll'))
    <3>1. PICK n \in Nat : n = Len(wire) - 1
      BY <1>1, <1>2, Taking
    <3>2. DOMAIN wire' = 1..n
      BY <1>1, <3>1
    <3>3. wire' \in Seq(Tagged(poll'))
      BY <1>1, <2>1, <3>1
    <3> QED
      BY <3>3 DEF AllIn
  <2> QED
    BY <1>1, <2>2 DEF TagsInv
<1>9. LastWord'
  <2> SUFFICES ASSUME NEW k \in Serving, link, klippy = k PROVE Word(k)'
    BY <1>1 DEF LastWord
  <2>1. Closing(wire, Notified(k), NotNotify)
    BY <1>1, Receiving DEF WInv, LastWord, Word, Delivered, Discovering
  <2>2. Closing(Tail(wire), Notified(k), NotNotify)
    BY <1>1, <2>1, Receiving DEF Serving
  <2>3. Closing(wire', Notified(k), NotNotify)
    BY <1>1, <1>2, <1>3, <2>2, Abandoning
  <2> QED
    BY <2>3 DEF Word
<1> QED
  BY <1>4, <1>5, <1>6, <1>7, <1>8, <1>9 DEF WInv

(* An answer nobody waits for.                                               *)
LEMMA UnmatchedKeeps ==
    ASSUME IInv, WInv, OnUnmatched
    PROVE  WInv'
<1>1. /\ wire # << >> /\ Head(wire).kind = "unmatched" /\ wire' = Tail(wire)
      /\ UNCHANGED <<klippy, link, asked, seq, poll, live, epoch, notes, updates, applying, shown>>
  BY DEF OnUnmatched, Receive, moonraker, socket, client, guard, screen
<1>2. FramesRead' /\ ClosedInv' /\ PollInv'
  BY <1>1, ReceivedKeeps DEF WInv, FramesRead
<1>3. NotesShape' /\ EpochsInv' /\ TagsInv'
  BY <1>1, Receiving DEF WInv, NotesShape, EpochsInv, TagsInv
<1>4. LastWord'
  <2> SUFFICES ASSUME NEW k \in Serving, link, klippy = k PROVE Word(k)'
    BY <1>1 DEF LastWord
  <2>1. Word(k)
    BY DEF WInv, LastWord
  <2>2. CASE Closing(wire, Notified(k), NotNotify)
    BY <1>1, <2>2, Receiving DEF Word
  <2>3. CASE Delivered(k)
    BY <1>1, <2>3, Receiving DEF Word, Delivered
  <2>4. CASE Discovering(k)
    <3>1. Unmarked' /\ Matched(k)'
      BY <1>1, <2>4, Receiving DEF Discovering, Unmarked, Matched
    <3>2. Head(wire) \notin Own(seq)
      BY <1>1 DEF Own, Discoveries
    <3>3. Stage(k)'
      BY <1>1, <2>4, <3>2, Receiving DEF Discovering, Stage
    <3> QED
      BY <1>1, <2>4, <3>1, <3>3, Receiving DEF Word, Discovering
  <2> QED
    BY <2>1, <2>2, <2>3, <2>4 DEF Word
<1> QED
  BY <1>2, <1>3, <1>4 DEF WInv

(* The gate lets a Klipper that serves through to printer.info.               *)
LEMMA GateKeeps ==
    ASSUME IInv, WInv, OnGate
    PROVE  WInv'
<1>1. /\ wire # << >> /\ Head(wire).kind = "gate" /\ wire' = Tail(wire)
      /\ \/ asked' = asked \cup {Ask("info", seq)}
         \/ /\ asked' = asked
            /\ Head(wire).tag # seq \/ Head(wire).state \notin Serving
      /\ UNCHANGED <<klippy, link, seq, poll, live, epoch, notes, updates, applying, shown>>
  BY DEF OnGate, Receive, moonraker, socket, client, guard, screen, Serving
<1>2. FramesRead' /\ ClosedInv' /\ PollInv'
  BY <1>1, ReceivedKeeps DEF WInv, FramesRead
<1>3. NotesShape' /\ EpochsInv'
  BY <1>1 DEF WInv, NotesShape, EpochsInv
<1>4. /\ TagFits(Ask("info", seq), poll) /\ Ask("info", seq).state = Unanswered
      /\ Ask("info", seq).tag = seq /\ Ask("info", seq).kind \in Discoveries
  BY Asks DEF Discoveries
<1>5. TagsInv'
  BY <1>1, <1>4, Receiving DEF WInv, TagsInv
<1>6. LastWord'
  <2> SUFFICES ASSUME NEW k \in Serving, link, klippy = k PROVE Word(k)'
    BY <1>1 DEF LastWord
  <2>1. Word(k)
    BY DEF WInv, LastWord
  <2>2. CASE Closing(wire, Notified(k), NotNotify)
    BY <1>1, <2>2, Receiving DEF Word
  <2>3. CASE Delivered(k)
    BY <1>1, <2>3, Receiving DEF Word, Delivered
  <2>4. CASE Discovering(k)
    <3>1. Unmarked' /\ Matched(k)'
      BY <1>1, <1>4, <2>4, Receiving DEF Discovering, Unmarked, Matched
    <3>2. Head(wire) \in Own(seq) => asked' = asked \cup {Ask("info", seq)}
      BY <1>1, <2>4, Receiving DEF Discovering, Own
    <3>3. Stage(k)'
      BY <1>1, <1>4, <2>4, <3>2, Receiving DEF Discovering, Stage
    <3> QED
      BY <1>1, <2>4, <3>1, <3>3, Receiving DEF Word, Discovering
  <2> QED
    BY <2>1, <2>2, <2>3, <2>4 DEF Word
<1> QED
  BY <1>2, <1>3, <1>5, <1>6 DEF WInv

(* printer.info seeds what it was answered, and the subscription is asked.    *)
LEMMA InfoKeeps ==
    ASSUME IInv, WInv, OnInfo
    PROVE  WInv'
<1> DEFINE s == SeedOf(Head(wire).state)
<1>1. /\ wire # << >> /\ Head(wire).kind = "info" /\ wire' = Tail(wire)
      /\ \/ /\ updates' = Append(updates, Item("seed", s))
            /\ asked' = asked \cup {Ask("subscribe", seq)}
            /\ Head(wire).tag = seq
         \/ updates' = updates /\ asked' = asked /\ Head(wire).tag # seq
      /\ UNCHANGED <<klippy, link, seq, poll, live, epoch, notes, applying, shown>>
  BY DEF OnInfo, Receive, Queue, moonraker, socket, client, guard
<1>2. s \in KlippyStates /\ updates \in Seq(Updates)
  BY <1>1, Heads, Entries DEF IInv, TypeOK, QueuesOK
<1>3. /\ Item("seed", s) \in Updates /\ Item("seed", s) \in Known(epoch)
      /\ Item("seed", s) \in Minor /\ Item("seed", s) \in Says(s)
      /\ Item("seed", s) \in OtherPolls(epoch)
  BY <1>2, Queued
<1>4. Head(wire).state \in Serving => s = Head(wire).state
  BY DEF SeedOf, Serving
<1> HIDE DEF s
<1>5. /\ TagFits(Ask("subscribe", seq), poll) /\ Ask("subscribe", seq).state = Unanswered
      /\ Ask("subscribe", seq).tag = seq /\ Ask("subscribe", seq).kind \in Discoveries
  BY Asks DEF Discoveries
<1>6. FramesRead' /\ ClosedInv' /\ PollInv'
  BY <1>1, ReceivedKeeps DEF WInv, FramesRead
<1>7. NotesShape' /\ EpochsInv'
  <2>1. AllIn(updates', Known(epoch))
    BY <1>1, <1>2, <1>3, Appends DEF WInv, EpochsInv
  <2> QED
    BY <1>1, <2>1 DEF WInv, NotesShape, EpochsInv
<1>8. TagsInv'
  BY <1>1, <1>5, Receiving DEF WInv, TagsInv
<1>9. LastWord'
  <2> SUFFICES ASSUME NEW k \in Serving, link, klippy = k PROVE Word(k)'
    BY <1>1 DEF LastWord
  <2>1. Word(k)
    BY DEF WInv, LastWord
  <2>2. CASE Closing(wire, Notified(k), NotNotify)
    BY <1>1, <2>2, Receiving DEF Word
  <2>3. CASE Delivered(k)
    <3>1. /\ AllIn(updates, Minor) => AllIn(updates', Minor)
          /\ Closing(updates, Sets(k), Minor) => Closing(updates', Sets(k), Minor)
      BY <1>1, <1>2, <1>3, Appends
    <3> QED
      BY <1>1, <2>3, <3>1, Receiving DEF Word, Delivered
  <2>4. CASE Discovering(k)
    <3>1. Head(wire) \in Own(seq) => Head(wire).state = k /\ s = k /\ Item("seed", s) \in Says(k)
      BY <1>3, <1>4, <2>4, <1>1, Receiving DEF Discovering
    <3>2. Head(wire).tag = seq => Head(wire) \in Own(seq)
      BY <1>1, Receiving DEF Own, Discoveries
    <3>3. Unmarked'
      <4>0. AllIn(updates, OtherPolls(epoch))
        BY <2>4 DEF Discovering, Unmarked
      <4>1. AllIn(updates', OtherPolls(epoch))
        BY <1>1, <1>2, <1>3, <4>0, Appends
      <4> QED
        BY <1>1, <2>4, <4>1, Receiving DEF Discovering, Unmarked
    <3>4. Matched(k)'
      BY <1>1, <1>5, <2>4, Receiving DEF Discovering, Matched
    <3>5. Stage(k)'
      <4>1. CASE Head(wire).tag = seq
        BY <1>1, <1>5, <4>1 DEF Stage
      <4>2. CASE Head(wire).tag # seq
        <5>1. Head(wire) \notin Own(seq)
          BY <4>2 DEF Own
        <5> QED
          BY <1>1, <2>4, <4>2, <5>1, Receiving DEF Discovering, Stage
      <4> QED
        BY <4>1, <4>2
    <3> QED
      BY <1>1, <2>4, <3>3, <3>4, <3>5, Receiving DEF Word, Discovering
  <2> QED
    BY <2>1, <2>2, <2>3, <2>4 DEF Word
<1> QED
  BY <1>6, <1>7, <1>8, <1>9 DEF WInv

(* The snapshot of a Klipper that serves is queued.                          *)
LEMMA SubscribedKeeps ==
    ASSUME IInv, WInv, OnSubscribed
    PROVE  WInv'
<1> DEFINE s == Head(wire).state
<1>1. /\ wire # << >> /\ Head(wire).kind = "subscribe" /\ wire' = Tail(wire)
      /\ \/ /\ updates' = Append(updates, Item("discovered", s)) /\ s \in Serving
            /\ Head(wire).tag = seq
         \/ updates' = updates /\ (Head(wire).tag # seq \/ s \notin Serving)
      /\ UNCHANGED <<klippy, link, asked, seq, poll, live, epoch, notes, applying, shown>>
  BY DEF OnSubscribed, Receive, Queue, moonraker, socket, client, guard, Serving
<1>2. updates \in Seq(Updates)
  BY DEF IInv, TypeOK, QueuesOK
<1> HIDE DEF s
<1>3. s \in Serving =>
      /\ Item("discovered", s) \in Updates /\ Item("discovered", s) \in Known(epoch)
      /\ Item("discovered", s) \in Minor /\ Item("discovered", s) \in Snapshot(s)
      /\ Item("discovered", s) \in Says(s) /\ Item("discovered", s) \in OtherPolls(epoch)
  BY Queued DEF Serving, KlippyStates
<1>6. FramesRead' /\ ClosedInv' /\ PollInv'
  BY <1>1, ReceivedKeeps DEF WInv, FramesRead
<1>7. NotesShape' /\ EpochsInv'
  <2>1. AllIn(updates', Known(epoch))
    BY <1>1, <1>2, <1>3, Appends DEF WInv, EpochsInv
  <2> QED
    BY <1>1, <2>1 DEF WInv, NotesShape, EpochsInv
<1>8. TagsInv'
  BY <1>1, Receiving DEF WInv, TagsInv
<1>9. LastWord'
  <2> SUFFICES ASSUME NEW k \in Serving, link, klippy = k PROVE Word(k)'
    BY <1>1 DEF LastWord
  <2>1. Word(k)
    BY DEF WInv, LastWord
  <2>2. CASE Closing(wire, Notified(k), NotNotify)
    BY <1>1, <2>2, Receiving DEF Word
  <2>3. CASE Delivered(k)
    <3>1. /\ AllIn(updates, Minor) => AllIn(updates', Minor)
          /\ Closing(updates, Sets(k), Minor) => Closing(updates', Sets(k), Minor)
      BY <1>1, <1>2, <1>3, Appends
    <3> QED
      BY <1>1, <2>3, <3>1, Receiving DEF Word, Delivered
  <2>4. CASE Discovering(k)
    <3>0. Matched(k)
      BY <2>4 DEF Discovering
    <3>1. Head(wire) \in Own(seq) => s = k
      BY <1>1, <3>0, Receiving DEF s
    <3>2. Head(wire) \in Own(seq) => Closing(updates', Snapshot(k), Says(k))
      <4>1. Head(wire) \in Own(seq) => updates' = Append(updates, Item("discovered", k))
        BY <1>1, <3>1 DEF Own
      <4> QED
        BY <1>2, <1>3, <3>1, <4>1, Appends
    <3>3. Unmarked'
      <4>0. AllIn(updates, OtherPolls(epoch))
        BY <2>4 DEF Discovering, Unmarked
      <4>1. AllIn(updates', OtherPolls(epoch))
        BY <1>1, <1>2, <1>3, <4>0, Appends
      <4> QED
        BY <1>1, <2>4, <4>1, Receiving DEF Discovering, Unmarked
    <3>4. Matched(k)'
      BY <1>1, <2>4, Receiving DEF Discovering, Matched
    <3>5. CASE Head(wire).tag # seq
      <4>1. Head(wire) \notin Own(seq)
        BY <3>5 DEF Own
      <4>2. wire' = Tail(wire) /\ UNCHANGED <<asked, seq, notes, updates, applying, shown>>
        BY <1>1, <3>5
      <4>3. Closing(wire, Own(seq), Messages) => Closing(Tail(wire), Own(seq), Messages)
        BY <1>1, <4>1, Receiving
      <4>4. Stage(k)
        BY <2>4 DEF Discovering
      <4>5. Stage(k)'
        BY <4>2, <4>3, <4>4 DEF Stage
      <4> QED
        BY <1>1, <2>4, <3>3, <3>4, <4>5, Receiving DEF Word, Discovering
    <3>6. CASE Head(wire).tag = seq
      <4>1. Head(wire) \in Own(seq)
        BY <1>1, <3>6, Receiving DEF Own, Discoveries
      <4>2. Stage(k)'
        BY <3>2, <4>1 DEF Stage
      <4> QED
        BY <1>1, <2>4, <3>3, <3>4, <4>2, Receiving DEF Word, Discovering
    <3> QED
      BY <3>5, <3>6
  <2> QED
    BY <2>1, <2>2, <2>3, <2>4 DEF Word
<1> QED
  BY <1>6, <1>7, <1>8, <1>9 DEF WInv

(* The poll's answer is taken only while its own poll is on, and then the     *)
(* notification of whatever Klipper serves now is still to come.              *)
LEMMA PolledKeeps ==
    ASSUME IInv, WInv, OnPolled
    PROVE  WInv'
<1> DEFINE s == Head(wire).state
<1>1. /\ wire # << >> /\ Head(wire).kind = "poll" /\ wire' = Tail(wire)
      /\ \/ /\ updates' = Append(updates, Item("poll", s)) /\ s \in KlippyStates
            /\ Head(wire).tag = poll.generation /\ poll' = Settle
         \/ updates' = updates /\ poll' = [poll EXCEPT !.in_flight = FALSE]
      /\ UNCHANGED <<klippy, link, asked, seq, live, epoch, notes, applying, shown>>
  BY DEF OnPolled, Receive, Queue, moonraker, socket, client, guard, KlippyStates
<1>2. updates \in Seq(Updates) /\ poll \in Polls
  BY DEF IInv, TypeOK, ScalarsOK, QueuesOK
<1> HIDE DEF s
<1>3. s \in KlippyStates => Item("poll", s) \in Updates /\ Item("poll", s) \in Known(epoch)
  BY Queued
<1>4. /\ poll'.on => poll.on
      /\ \/ poll'.generation = poll.generation /\ poll'.on = poll.on
         \/ poll'.generation \in Nat /\ poll'.generation > poll.generation
  <2>1. poll.on \in BOOLEAN /\ poll.generation \in Nat
    BY <1>2 DEF Polls
  <2>2. CASE poll' = Settle
    <3>1. poll'.on = FALSE /\ poll'.generation = poll.generation + 1
      BY <2>2 DEF Settle
    <3> QED
      BY <2>1, <3>1
  <2>3. CASE poll' = [poll EXCEPT !.in_flight = FALSE]
    BY <1>2, <2>3 DEF Polls
  <2> QED
    BY <1>1, <2>2, <2>3
<1>5. FramesRead' /\ ClosedInv' /\ PollInv'
  BY <1>1, <1>4, ReceivedKeeps DEF WInv, FramesRead
<1>6. NotesShape' /\ EpochsInv'
  <2>1. AllIn(updates', Known(epoch))
    BY <1>1, <1>2, <1>3, Appends DEF WInv, EpochsInv
  <2> QED
    BY <1>1, <2>1 DEF WInv, NotesShape, EpochsInv
<1>7. TagsInv'
  BY <1>1, <1>4, TagsStep DEF TagsInv
<1>8. LastWord'
  <2> SUFFICES ASSUME NEW k \in Serving, link, klippy = k PROVE Word(k)'
    BY <1>1 DEF LastWord
  <2>1. Word(k)
    BY DEF WInv, LastWord
  <2>2. CASE Closing(wire, Notified(k), NotNotify)
    BY <1>1, <2>2, Receiving DEF Word
  <2>3. CASE AllIn(wire, NotNotify)
    <3>1. ~poll.on
      BY <2>3, PollIsOff DEF WInv
    <3>2. Head(wire).tag # poll.generation
      BY <1>1, <3>1, Receiving DEF TagFits
    <3>3. /\ wire' = Tail(wire)
          /\ UNCHANGED <<asked, seq, live, epoch, notes, updates, applying, shown>>
      BY <1>1, <3>2
    <3>4. CASE Delivered(k)
      BY <1>1, <2>3, <3>3, <3>4, Receiving DEF Word, Delivered
    <3>5. CASE Discovering(k)
      <4>1. Unmarked' /\ Matched(k)'
        BY <1>1, <3>3, <3>5, Receiving DEF Discovering, Unmarked, Matched
      <4>2. Head(wire) \notin Own(seq)
        BY <1>1 DEF Own, Discoveries
      <4>3. Closing(wire, Own(seq), Messages) => Closing(Tail(wire), Own(seq), Messages)
        BY <1>1, <4>2, Receiving
      <4>4. Stage(k)
        BY <3>5 DEF Discovering
      <4>5. Stage(k)'
        BY <3>3, <4>3, <4>4 DEF Stage
      <4> QED
        BY <1>1, <2>3, <3>3, <4>1, <4>5, Receiving DEF Word, Discovering
    <3> QED
      BY <2>1, <2>2, <3>4, <3>5 DEF Word
  <2> QED
    BY <2>1, <2>2, <2>3 DEF Word, Delivered, Discovering
<1> QED
  BY <1>5, <1>6, <1>7, <1>8 DEF WInv

-----------------------------------------------------------------------------
(* The main thread.                                                          *)

(* What the main thread leaves alone keeps what WInv says of the event loop.  *)
LEMMA MainLeaves ==
    ASSUME WInv, UNCHANGED <<klippy, link, asked, wire, seq, poll, epoch>>
    PROVE  TagsInv' /\ PollInv' /\ \A k : Matched(k) => Matched(k)'
<1>1. TagsInv' /\ PollInv'
  BY DEF WInv, TagsInv, PollInv
<1>2. ASSUME NEW k, Matched(k) PROVE Matched(k)'
  BY <1>2 DEF Matched
<1> QED
  BY <1>1, <1>2

(* process_notifications() takes the first frame: behind a live session's    *)
(* last word it throws a snapshot away, before discovery's it keeps it.       *)
LEMMA TakeKeeps ==
    ASSUME IInv, WInv, TakeNote
    PROVE  WInv'
<1>1. /\ applying = Nothing /\ notes # << >> /\ notes' = Tail(notes)
      /\ applying' = IF Stale(Head(notes)) THEN Nothing ELSE Head(notes)
      /\ UNCHANGED <<klippy, link, asked, wire, seq, poll, live, epoch, updates, shown>>
  BY DEF TakeNote, moonraker, socket, client, guard
<1>2. notes \in Seq(Notes) /\ Head(notes) \in Notes
  BY <1>1, Heads DEF IInv, TypeOK, QueuesOK
<1>3. Head(notes) \in Plain /\ AllIn(Tail(notes), Plain)
  BY <1>1, <1>2, Tails DEF WInv, NotesShape
<1>4. TagsInv' /\ PollInv' /\ \A k : Matched(k) => Matched(k)'
  BY <1>1, MainLeaves
<1>5. NotesShape' /\ EpochsInv'
  BY <1>1, <1>3 DEF WInv, NotesShape, EpochsInv, Plain
<1>6. FramesRead'
  <2> SUFFICES ASSUME klippy = "ready" PROVE FramesRead'
    BY <1>1 DEF FramesRead
  <2>1. Head(notes) \in Cached /\ AllIn(Tail(notes), Cached)
    BY <1>1, <1>2, Tails DEF WInv, FramesRead
  <2> QED
    BY <1>1, <2>1 DEF WInv, FramesRead, Cached
<1>7. Unmarked => Unmarked'
  <2> SUFFICES ASSUME Unmarked PROVE Unmarked'
    OBVIOUS
  <2>1. Head(notes) \in OtherNotes(epoch) /\ AllIn(Tail(notes), OtherNotes(epoch))
    BY <1>1, <1>2, Tails DEF Unmarked
  <2> QED
    BY <1>1, <2>1 DEF Unmarked, OtherNotes
<1>8. ClosedInv'
  BY <1>1, <1>7 DEF WInv, ClosedInv
<1>9. LastWord'
  <2> SUFFICES ASSUME NEW k \in Serving, link, klippy = k PROVE Word(k)'
    BY <1>1 DEF LastWord
  <2>1. Word(k)
    BY DEF WInv, LastWord
  <2>2. CASE Closing(wire, Notified(k), NotNotify)
    BY <1>1, <2>2 DEF Word
  <2>3. CASE Delivered(k)
    <3>1. applying' # Nothing => applying'.state = k
      <4> SUFFICES ASSUME applying' # Nothing PROVE applying'.state = k
        OBVIOUS
      <4>1. applying' = Head(notes) /\ ~Stale(Head(notes))
        BY <1>1
      <4>2. ~Head(notes).cached
        BY <2>3, <4>1 DEF Stale, Delivered
      <4>3. Head(notes).state = "shutdown"
        BY <1>3, <4>2 DEF Plain
      <4>4. klippy # "ready"
        <5>1. klippy = "ready" => Head(notes) \in Cached
          BY <1>1, <1>2, Tails DEF WInv, FramesRead
        <5> QED
          BY <4>2, <5>1 DEF Cached
      <4> QED
        BY <4>1, <4>3, <4>4 DEF Serving
    <3> QED
      BY <1>1, <2>3, <3>1 DEF Word, Delivered
  <2>4. CASE Discovering(k)
    <3>1. Unmarked' /\ Matched(k)' /\ AllIn(wire', NotNotify)
      BY <1>1, <1>4, <1>7, <2>4 DEF Discovering
    <3>2. Stage(k)
      BY <2>4 DEF Discovering
    <3>3. Head(notes) \in CachedAs(k) => applying' = Head(notes) /\ applying' # Nothing /\ applying'.state = k
      <4> SUFFICES ASSUME Head(notes) \in CachedAs(k)
                   PROVE  ~Stale(Head(notes)) /\ Head(notes) # Nothing /\ Head(notes).state = k
        BY <1>1
      <4>1. Head(notes).cached /\ Head(notes).time = 0 /\ Head(notes).state = k
        BY <1>3 DEF CachedAs, Cached, Plain
      <4>2. ~live
        BY <2>4 DEF Discovering, Unmarked
      <4> QED
        BY <4>1, <4>2 DEF Stale, Nothing, Serving
    <3>4. /\ Closing(notes, CachedAs(k), CachedAs(k)) =>
                \/ Closing(Tail(notes), CachedAs(k), CachedAs(k))
                \/ Head(notes) \in CachedAs(k) /\ AllIn(Tail(notes), CachedAs(k))
          /\ AllIn(notes, CachedAs(k)) =>
                Head(notes) \in CachedAs(k) /\ AllIn(Tail(notes), CachedAs(k))
      BY <1>1, <1>2, Tails
    <3>5. Stage(k)'
      BY <1>1, <3>2, <3>3, <3>4 DEF Stage
    <3> QED
      BY <3>1, <3>5 DEF Word, Discovering
  <2> QED
    BY <2>1, <2>2, <2>3, <2>4 DEF Word
<1> QED
  BY <1>4, <1>5, <1>6, <1>8, <1>9 DEF WInv

(* The frame is shown, and makes the session live if it is one of it.         *)
LEMMA CommitKeeps ==
    ASSUME IInv, WInv, Commit
    PROVE  WInv'
<1>1. /\ applying # Nothing /\ applying' = Nothing /\ shown' = applying.state
      /\ \/ live' = live
         \/ applying.epoch = epoch /\ live' = (live \/ ~applying.cached)
      /\ UNCHANGED <<klippy, link, asked, wire, seq, poll, epoch, notes, updates>>
  BY DEF Commit, moonraker, socket, client
<1>2. TagsInv' /\ PollInv' /\ \A k : Matched(k) => Matched(k)'
  BY <1>1, MainLeaves
<1>3. FramesRead' /\ NotesShape' /\ EpochsInv'
  BY <1>1 DEF WInv, FramesRead, NotesShape, EpochsInv
<1>4. Unmarked => Unmarked'
  BY <1>1 DEF Unmarked
<1>5. ClosedInv'
  BY <1>1, <1>4 DEF WInv, ClosedInv
<1>6. live => live'
  BY <1>1
<1>7. LastWord'
  <2> SUFFICES ASSUME NEW k \in Serving, link, klippy = k PROVE Word(k)'
    BY <1>1 DEF LastWord
  <2>1. Word(k)
    BY DEF WInv, LastWord
  <2>2. CASE Closing(wire, Notified(k), NotNotify)
    BY <1>1, <2>2 DEF Word
  <2>3. CASE Delivered(k)
    BY <1>1, <1>6, <2>3 DEF Word, Delivered
  <2>4. CASE Discovering(k)
    <3>1. Unmarked' /\ Matched(k)' /\ AllIn(wire', NotNotify)
      BY <1>1, <1>2, <1>4, <2>4 DEF Discovering
    <3>2. Stage(k)
      BY <2>4 DEF Discovering
    <3>3. Stage(k)'
      BY <1>1, <3>2 DEF Stage
    <3> QED
      BY <3>1, <3>3 DEF Word, Discovering
  <2> QED
    BY <2>1, <2>2, <2>3, <2>4 DEF Word
<1> QED
  BY <1>2, <1>3, <1>5, <1>7 DEF WInv

(* What the update queue becomes when its first item is taken.                *)
LEMMA Popping ==
    ASSUME IInv, WInv, updates # << >>, NEW k
    PROVE  /\ Head(updates) \in Updates
           /\ AllIn(Tail(updates), Known(epoch))
           /\ AllIn(updates, OtherPolls(epoch)) =>
                 AllIn(Tail(updates), OtherPolls(epoch)) /\ Head(updates) \in OtherPolls(epoch)
           /\ AllIn(updates, Minor) => AllIn(Tail(updates), Minor) /\ Head(updates) \in Minor
           /\ AllIn(updates, Says(k)) => AllIn(Tail(updates), Says(k)) /\ Head(updates) \in Says(k)
           /\ Closing(updates, Sets(k), Minor) =>
                 \/ Closing(Tail(updates), Sets(k), Minor)
                 \/ Head(updates) \in Sets(k) /\ AllIn(Tail(updates), Minor)
           /\ Closing(updates, Snapshot(k), Says(k)) =>
                 \/ Closing(Tail(updates), Snapshot(k), Says(k))
                 \/ Head(updates) \in Snapshot(k) /\ AllIn(Tail(updates), Says(k))
<1>1. updates \in Seq(Updates) /\ Head(updates) \in Updates
  BY Heads DEF IInv, TypeOK, QueuesOK
<1>2. AllIn(Tail(updates), Known(epoch))
  BY <1>1, Tails DEF WInv, EpochsInv
<1> QED
  BY <1>1, <1>2, Tails

(* What every item of the update queue leaves alone.                         *)
LEMMA PoppedKeeps ==
    ASSUME IInv, WInv, updates # << >>, updates' = Tail(updates), applying = Nothing,
           UNCHANGED <<klippy, link, asked, wire, seq, poll, live, epoch>>
    PROVE  /\ TagsInv' /\ PollInv' /\ EpochsInv' /\ \A k : Matched(k) => Matched(k)'
           /\ UNCHANGED <<notes, applying>> =>
                 /\ FramesRead' /\ NotesShape' /\ ClosedInv'
                 /\ Unmarked => Unmarked'
<1>1. TagsInv' /\ PollInv' /\ \A k : Matched(k) => Matched(k)'
  BY MainLeaves
<1>2. EpochsInv'
  BY Popping DEF EpochsInv
<1>3. ASSUME UNCHANGED <<notes, applying>>
      PROVE  /\ FramesRead' /\ NotesShape' /\ ClosedInv'
             /\ Unmarked => Unmarked'
  <2>1. FramesRead' /\ NotesShape'
    BY <1>3 DEF WInv, FramesRead, NotesShape
  <2>2. Unmarked => Unmarked'
    BY <1>3, Popping DEF Unmarked
  <2>3. ClosedInv'
    BY <2>2 DEF WInv, ClosedInv
  <2> QED
    BY <2>1, <2>2, <2>3
<1> QED
  BY <1>1, <1>2, <1>3

(* A notification's state is shown.                                          *)
LEMMA SetKeeps ==
    ASSUME IInv, WInv, RunSet
    PROVE  WInv'
<1>1. /\ applying = Nothing /\ updates # << >> /\ Head(updates).kind = "set"
      /\ updates' = Tail(updates) /\ shown' = Head(updates).state
      /\ UNCHANGED <<klippy, link, asked, wire, seq, poll, live, epoch, notes, applying>>
  BY DEF RunSet, NextUpdate, moonraker, socket, client, guard
<1>2. /\ TagsInv' /\ PollInv' /\ EpochsInv' /\ \A k : Matched(k) => Matched(k)'
      /\ FramesRead' /\ NotesShape' /\ ClosedInv'
      /\ Unmarked => Unmarked'
  BY <1>1, PoppedKeeps
<1>3. /\ Head(updates) \notin Minor
      /\ \A k : Head(updates) \notin Says(k) /\ Head(updates) \notin Snapshot(k)
      /\ \A k : Head(updates) \in Sets(k) => shown' = k
  BY <1>1 DEF Minor, Says, Snapshot, Sets
<1>4. LastWord'
  <2> SUFFICES ASSUME NEW k \in Serving, link, klippy = k PROVE Word(k)'
    BY <1>1 DEF LastWord
  <2>1. Word(k)
    BY DEF WInv, LastWord
  <2>2. CASE Closing(wire, Notified(k), NotNotify)
    BY <1>1, <2>2 DEF Word
  <2>3. CASE Delivered(k)
    BY <1>1, <1>3, <2>3, Popping DEF Word, Delivered
  <2>4. CASE Discovering(k)
    <3>1. Unmarked' /\ Matched(k)' /\ AllIn(wire', NotNotify)
      BY <1>1, <1>2, <2>4 DEF Discovering
    <3>2. Stage(k)
      BY <2>4 DEF Discovering
    <3>3. Stage(k)'
      BY <1>1, <1>3, <3>2, Popping DEF Stage
    <3> QED
      BY <3>1, <3>3 DEF Word, Discovering
  <2> QED
    BY <2>1, <2>2, <2>3, <2>4 DEF Word
<1> QED
  BY <1>2, <1>4 DEF WInv

(* printer.info's seed is shown unless the session is live.                  *)
LEMMA SeedKeeps ==
    ASSUME IInv, WInv, RunSeed
    PROVE  WInv'
<1>1. /\ applying = Nothing /\ updates # << >> /\ Head(updates).kind = "seed"
      /\ updates' = Tail(updates) /\ shown' = IF live THEN shown ELSE Head(updates).state
      /\ UNCHANGED <<klippy, link, asked, wire, seq, poll, live, epoch, notes, applying>>
  BY DEF RunSeed, NextUpdate, moonraker, socket, client, guard
<1>2. /\ TagsInv' /\ PollInv' /\ EpochsInv' /\ \A k : Matched(k) => Matched(k)'
      /\ FramesRead' /\ NotesShape' /\ ClosedInv'
      /\ Unmarked => Unmarked'
  BY <1>1, PoppedKeeps
<1>3. \A k : /\ Head(updates) \notin Sets(k) /\ Head(updates) \notin Snapshot(k)
             /\ Head(updates) \in Says(k) => Head(updates).state = k
  BY <1>1 DEF Says, Snapshot, Sets
<1>4. LastWord'
  <2> SUFFICES ASSUME NEW k \in Serving, link, klippy = k PROVE Word(k)'
    BY <1>1 DEF LastWord
  <2>1. Word(k)
    BY DEF WInv, LastWord
  <2>2. CASE Closing(wire, Notified(k), NotNotify)
    BY <1>1, <2>2 DEF Word
  <2>3. CASE Delivered(k)
    BY <1>1, <1>3, <2>3, Popping DEF Word, Delivered
  <2>4. CASE Discovering(k)
    <3>1. Unmarked' /\ Matched(k)' /\ AllIn(wire', NotNotify)
      BY <1>1, <1>2, <2>4 DEF Discovering
    <3>2. Stage(k)
      BY <2>4 DEF Discovering
    <3>3. Stage(k)'
      BY <1>1, <1>3, <3>2, Popping DEF Stage
    <3> QED
      BY <3>1, <3>3 DEF Word, Discovering
  <2> QED
    BY <2>1, <2>2, <2>3, <2>4 DEF Word
<1> QED
  BY <1>2, <1>4 DEF WInv

(* The snapshot goes to the end of the other queue, as one of this session.   *)
LEMMA DiscoveredKeeps ==
    ASSUME IInv, WInv, RunDiscovered
    PROVE  WInv'
<1>1. /\ applying = Nothing /\ updates # << >> /\ Head(updates).kind = "discovered"
      /\ updates' = Tail(updates)
      /\ UNCHANGED <<klippy, link, asked, wire, seq, poll, live, epoch, applying, shown>>
  BY DEF RunDiscovered, NextUpdate, moonraker, socket, client, guard
<1>2. PICK n : /\ n = [state |-> Head(updates).state, time |-> 0, cached |-> TRUE,
                        epoch |-> epoch, polled |-> FALSE]
               /\ notes' = Append(notes, n)
  BY DEF RunDiscovered
<1>3. /\ n \in Notes /\ n \in Plain /\ n \in Cached /\ n \in OtherNotes(epoch)
      /\ \A k : Head(updates).state = k => n \in CachedAs(k)
  <2>1. Head(updates).state \in KlippyStates /\ epoch \in Nat
    BY <1>1, Heads DEF IInv, TypeOK, ScalarsOK
  <2> QED
    BY <1>2, <2>1 DEF Notes, Plain, Cached, OtherNotes, CachedAs
<1>4. notes \in Seq(Notes)
  BY DEF IInv, TypeOK, QueuesOK
<1>5. TagsInv' /\ PollInv' /\ EpochsInv' /\ \A k : Matched(k) => Matched(k)'
  BY <1>1, PoppedKeeps
<1>6. FramesRead'
  <2>1. AllIn(notes, Cached) => AllIn(notes', Cached)
    BY <1>2, <1>3, <1>4, Appends
  <2> QED
    BY <1>1, <2>1 DEF WInv, FramesRead
<1>7. NotesShape'
  <2>1. AllIn(notes', Plain)
    BY <1>2, <1>3, <1>4, Appends DEF WInv, NotesShape
  <2> QED
    BY <1>1, <2>1 DEF WInv, NotesShape
<1>8. Unmarked => Unmarked'
  <2> SUFFICES ASSUME Unmarked PROVE Unmarked'
    OBVIOUS
  <2>1. AllIn(notes', OtherNotes(epoch))
    BY <1>2, <1>3, <1>4, Appends DEF Unmarked
  <2>2. AllIn(updates', OtherPolls(epoch))
    BY <1>1, Popping DEF Unmarked
  <2> QED
    BY <1>1, <2>1, <2>2 DEF Unmarked
<1>9. ClosedInv'
  BY <1>1, <1>8 DEF WInv, ClosedInv
<1>10. \A k : /\ Head(updates) \notin Sets(k)
              /\ Head(updates) \in Says(k) => Head(updates).state = k
              /\ Head(updates) \in Snapshot(k) => Head(updates).state = k
  BY <1>1 DEF Says, Snapshot, Sets
<1>11. LastWord'
  <2> SUFFICES ASSUME NEW k \in Serving, link, klippy = k PROVE Word(k)'
    BY <1>1 DEF LastWord
  <2>1. Word(k)
    BY DEF WInv, LastWord
  <2>2. CASE Closing(wire, Notified(k), NotNotify)
    BY <1>1, <2>2 DEF Word
  <2>3. CASE Delivered(k)
    BY <1>1, <1>10, <2>3, Popping DEF Word, Delivered
  <2>4. CASE Discovering(k)
    <3>1. Unmarked' /\ Matched(k)' /\ AllIn(wire', NotNotify)
      BY <1>1, <1>5, <1>8, <2>4 DEF Discovering
    <3>2. Stage(k)
      BY <2>4 DEF Discovering
    <3>3. n \in CachedAs(k) =>
             /\ Closing(notes', CachedAs(k), CachedAs(k))
             /\ AllIn(notes, CachedAs(k)) => AllIn(notes', CachedAs(k))
      BY <1>2, <1>3, <1>4, Appends
    <3>4. Stage(k)'
      BY <1>1, <1>3, <1>10, <3>2, <3>3, Popping DEF Stage
    <3> QED
      BY <3>1, <3>4 DEF Word, Discovering
  <2> QED
    BY <2>1, <2>2, <2>3, <2>4 DEF Word
<1> QED
  BY <1>5, <1>6, <1>7, <1>9, <1>11 DEF WInv

(* The poll's answer is applied like a frame of its session.                 *)
LEMMA RunPolledKeeps ==
    ASSUME IInv, WInv, RunPolled
    PROVE  WInv'
<1>1. /\ applying = Nothing /\ updates # << >> /\ Head(updates).kind = "poll"
      /\ updates' = Tail(updates)
      /\ \/ applying' = Nothing
         \/ /\ Head(updates).epoch = epoch
            /\ applying' = [state |-> Head(updates).state, time |-> 0, cached |-> FALSE,
                            epoch |-> epoch, polled |-> TRUE]
      /\ UNCHANGED <<klippy, link, asked, wire, seq, poll, live, epoch, notes, shown>>
  BY DEF RunPolled, NextUpdate, moonraker, socket, client, guard
<1>2. TagsInv' /\ PollInv' /\ EpochsInv' /\ \A k : Matched(k) => Matched(k)'
  BY <1>1, PoppedKeeps
<1>3. FramesRead' /\ NotesShape'
  <2>1. applying' # Nothing => applying'.polled
    BY <1>1
  <2> QED
    BY <1>1, <2>1 DEF WInv, FramesRead, NotesShape
<1>4. Unmarked => Unmarked' /\ applying' = Nothing
  <2> SUFFICES ASSUME Unmarked PROVE Unmarked' /\ applying' = Nothing
    OBVIOUS
  <2>1. AllIn(Tail(updates), OtherPolls(epoch)) /\ Head(updates) \in OtherPolls(epoch)
    BY <1>1, Popping DEF Unmarked
  <2>2. applying' = Nothing
    BY <1>1, <2>1 DEF OtherPolls
  <2> QED
    BY <1>1, <2>1, <2>2 DEF Unmarked
<1>5. ClosedInv'
  BY <1>1, <1>4 DEF WInv, ClosedInv
<1>6. /\ Head(updates) \notin Minor
      /\ \A k : /\ Head(updates) \notin Says(k) /\ Head(updates) \notin Snapshot(k)
                /\ Head(updates) \notin Sets(k)
  BY <1>1 DEF Minor, Says, Snapshot, Sets
<1>7. LastWord'
  <2> SUFFICES ASSUME NEW k \in Serving, link, klippy = k PROVE Word(k)'
    BY <1>1 DEF LastWord
  <2>1. Word(k)
    BY DEF WInv, LastWord
  <2>2. CASE Closing(wire, Notified(k), NotNotify)
    BY <1>1, <2>2 DEF Word
  <2>3. CASE Delivered(k)
    BY <1>1, <1>6, <2>3, Popping DEF Word, Delivered
  <2>4. CASE Discovering(k)
    <3>1. Unmarked' /\ Matched(k)' /\ AllIn(wire', NotNotify)
      BY <1>1, <1>2, <1>4, <2>4 DEF Discovering
    <3>2. Stage(k)
      BY <2>4 DEF Discovering
    <3>3. Stage(k)'
      BY <1>1, <1>6, <3>2, Popping DEF Stage
    <3> QED
      BY <3>1, <3>3 DEF Word, Discovering
  <2> QED
    BY <2>1, <2>2, <2>3, <2>4 DEF Word
<1> QED
  BY <1>2, <1>3, <1>5, <1>7 DEF WInv

-----------------------------------------------------------------------------
(* The socket and the health timer.                                          *)

(* A new session is unmarked, and its discovery has the last word.            *)
LEMMA OpenKeeps ==
    ASSUME IInv, WInv, Open
    PROVE  WInv'
<1>1. /\ ~link /\ seq' = seq + 1 /\ asked' = asked \cup {Ask("gate", seq + 1)}
      /\ UNCHANGED <<klippy, wire, poll, live, epoch, notes, updates, applying, shown>>
  BY DEF Open, Discover, moonraker, guard, screen
<1>2. asked = {} /\ wire = << >> /\ Unmarked
  BY <1>1 DEF IInv, WireInv, WInv, ClosedInv
<1>3. /\ TagFits(Ask("gate", seq + 1), poll) /\ Ask("gate", seq + 1).state = Unanswered
      /\ Ask("gate", seq + 1).tag = seq + 1 /\ Ask("gate", seq + 1).kind \in Discoveries
  BY Asks DEF Discoveries
<1>4. FramesRead' /\ NotesShape' /\ EpochsInv' /\ PollInv'
  BY <1>1 DEF WInv, FramesRead, NotesShape, EpochsInv, PollInv
<1>5. TagsInv'
  BY <1>1, <1>3 DEF WInv, TagsInv
<1>6. Unmarked'
  BY <1>1, <1>2 DEF Unmarked
<1>7. ClosedInv'
  BY DEF Open, ClosedInv
<1>8. LastWord'
  <2> SUFFICES ASSUME NEW k \in Serving PROVE Discovering(k)'
    BY DEF LastWord, Word
  <2>1. AllIn(wire', NotNotify)
    BY <1>1, <1>2, Empties
  <2>2. Len(wire') = 0
    BY <1>1, <1>2
  <2>3. Matched(k)'
    BY <1>1, <1>2, <1>3, <2>2 DEF Matched
  <2>4. Stage(k)'
    BY <1>1, <1>3 DEF Stage
  <2> QED
    BY <1>6, <2>1, <2>3, <2>4 DEF Discovering
<1> QED
  BY <1>4, <1>5, <1>7, <1>8 DEF WInv

(* A close takes the marks with it: what waits is of an earlier session.      *)
LEMMA CloseKeeps ==
    ASSUME IInv, WInv, Close
    PROVE  WInv'
<1>1. /\ link' = FALSE /\ asked' = {} /\ wire' = << >> /\ live' = FALSE /\ epoch' = epoch + 1
      /\ ~poll'.on
      /\ UNCHANGED <<klippy, notes, updates, applying, shown>>
  <2>1. /\ link' = FALSE /\ asked' = {} /\ wire' = << >> /\ live' = FALSE /\ epoch' = epoch + 1
        /\ poll' = [StopPoll EXCEPT !.in_flight = FALSE]
        /\ UNCHANGED <<klippy, notes, updates, applying, shown>>
    BY DEF Close, screen
  <2>2. StopPoll \in Polls /\ ~StopPoll.on
    BY PollValues DEF StopPoll, Polls, IInv, TypeOK, ScalarsOK
  <2> QED
    BY <2>1, <2>2 DEF Polls
<1>2. /\ epoch \in Nat /\ notes \in Seq(Notes) /\ updates \in Seq(Updates)
      /\ AllFit(notes, epoch, link, now)
      /\ applying # Nothing => applying.epoch \in Nat /\ applying.epoch <= epoch
  BY Heads DEF IInv, TypeOK, ScalarsOK, QueuesOK, NotesInv, Fits
<1>3. AllIn(notes, OtherNotes(epoch + 1))
  <2> SUFFICES ASSUME NEW i \in 1..Len(notes) PROVE notes[i] \in OtherNotes(epoch + 1)
    BY DEF AllIn
  <2>1. notes[i] \in Notes
    BY <1>2
  <2>2. notes[i].epoch \in Nat /\ notes[i].epoch <= epoch
    BY <1>2, <2>1 DEF AllFit, Fits, Notes
  <2> QED
    BY <1>2, <2>1, <2>2 DEF OtherNotes
<1>4. /\ Known(epoch) \subseteq Known(epoch + 1)
      /\ Known(epoch) \subseteq OtherPolls(epoch + 1)
  BY <1>2 DEF Known, OtherPolls, Updates
<1>5. AllIn(updates, Known(epoch + 1)) /\ AllIn(updates, OtherPolls(epoch + 1))
  BY <1>4, Widens DEF WInv, EpochsInv
<1>6. /\ AllIn(wire', NotFrame) /\ AllIn(wire', NotGone) /\ AllIn(wire', Tagged(poll'))
  BY <1>1, Empties
<1>7. FramesRead' /\ NotesShape' /\ EpochsInv'
  BY <1>1, <1>5, <1>6 DEF WInv, FramesRead, NotesShape, EpochsInv
<1>8. ClosedInv'
  BY <1>1, <1>2, <1>3, <1>5, <1>6 DEF ClosedInv, Unmarked
<1>9. TagsInv' /\ PollInv' /\ LastWord'
  BY <1>1, <1>6 DEF TagsInv, PollInv, LastWord
<1> QED
  BY <1>7, <1>8, <1>9 DEF WInv

(* The poll asks under its own generation, ...                               *)
LEMMA TickKeeps ==
    ASSUME IInv, WInv, HealthTick
    PROVE  WInv'
<1>1. /\ link /\ poll.on /\ poll \in Polls
      /\ poll' = [poll EXCEPT !.in_flight = TRUE]
      /\ asked' = asked \cup {Ask("poll", poll.generation)}
      /\ UNCHANGED <<klippy, link, wire, seq, live, epoch, notes, updates, applying, shown>>
  BY DEF HealthTick, moonraker, socket, guard, screen, IInv, TypeOK, ScalarsOK
<1>2. poll'.on = poll.on /\ poll'.generation = poll.generation /\ poll.generation \in Nat
  BY <1>1 DEF Polls
<1>3. FramesRead' /\ NotesShape' /\ EpochsInv' /\ ClosedInv'
  BY <1>1 DEF WInv, FramesRead, NotesShape, EpochsInv, ClosedInv
<1>4. PollInv'
  BY <1>1, <1>2 DEF WInv, PollInv
<1>5. Ask("poll", poll.generation).kind = "poll" /\ Ask("poll", poll.generation).tag = poll.generation
  BY DEF Ask
<1>6. TagsInv'
  <2>1. (\A r \in asked : TagFits(r, poll')) /\ Tagged(poll) \subseteq Tagged(poll')
    BY <1>2, TagsStep
  <2>2. TagFits(Ask("poll", poll.generation), poll')
    BY <1>1, <1>2, <1>5 DEF TagFits
  <2>3. AllIn(wire', Tagged(poll'))
    BY <1>1, <2>1, Widens DEF WInv, TagsInv
  <2> QED
    BY <1>1, <2>1, <2>2, <2>3 DEF TagsInv
<1>7. LastWord'
  <2> SUFFICES ASSUME NEW k \in Serving, link, klippy = k PROVE Word(k)'
    BY <1>1 DEF LastWord
  <2>1. Closing(wire, Notified(k), NotNotify)
    BY <1>1, PollIsOff DEF WInv, LastWord, Word, Delivered, Discovering
  <2> QED
    BY <1>1, <2>1 DEF Word
<1> QED
  BY <1>3, <1>4, <1>6, <1>7 DEF WInv

(* ... and leaves it when it gives up.                                       *)
LEMMA GiveUpKeeps ==
    ASSUME IInv, WInv, PollGivesUp
    PROVE  WInv'
<1>1. /\ link /\ poll.on /\ poll \in Polls /\ poll' = StopPoll
      /\ UNCHANGED <<klippy, link, asked, wire, seq, live, epoch, notes, updates, applying, shown>>
  BY DEF PollGivesUp, moonraker, socket, guard, screen, IInv, TypeOK, ScalarsOK
<1>2. ~poll'.on /\ poll'.generation \in Nat /\ poll'.generation > poll.generation
  BY <1>1 DEF Polls, StopPoll
<1>3. FramesRead' /\ NotesShape' /\ EpochsInv' /\ ClosedInv'
  BY <1>1 DEF WInv, FramesRead, NotesShape, EpochsInv, ClosedInv
<1>4. PollInv'
  BY <1>1, <1>2 DEF WInv, PollInv
<1>5. TagsInv'
  <2>1. (\A r \in asked : TagFits(r, poll')) /\ Tagged(poll) \subseteq Tagged(poll')
    BY <1>2, TagsStep
  <2>2. AllIn(wire', Tagged(poll'))
    BY <1>1, <2>1, Widens DEF WInv, TagsInv
  <2> QED
    BY <1>1, <2>1, <2>2 DEF TagsInv
<1>6. LastWord'
  BY <1>1 DEF WInv, LastWord, Word, Delivered, Discovering, Unmarked, Matched, Stage
<1> QED
  BY <1>3, <1>4, <1>5, <1>6 DEF WInv

(* Nothing has been said of a Klipper no socket was opened to.                *)
LEMMA WInit == ASSUME Init PROVE WInv
<1>1. /\ asked = {} /\ wire = << >> /\ notes = << >> /\ updates = << >> /\ applying = Nothing
      /\ ~link /\ ~live /\ ~poll.on
  BY DEF Init
<1>2. \A B : AllIn(wire, B) /\ AllIn(notes, B) /\ AllIn(updates, B)
  BY <1>1, Empties
<1>3. FramesRead /\ NotesShape /\ EpochsInv /\ TagsInv /\ PollInv /\ LastWord
  BY <1>1, <1>2 DEF FramesRead, NotesShape, EpochsInv, TagsInv, PollInv, LastWord
<1>4. ClosedInv
  BY <1>1, <1>2 DEF ClosedInv, Unmarked
<1> QED
  BY <1>3, <1>4 DEF WInv

(* Whenever nothing is on its way, a Klipper that is ready or shut down is    *)
(* shown as what it is: no snapshot, seed, late poll answer or frame of an    *)
(* earlier session is ever the last to write, for any number of changes and   *)
(* closes.                                                                   *)
THEOREM ServingIsShown == Spec => []QuietIsTrue
<1>1. IInv /\ WInv /\ [Next]_vars => WInv'
  <2> SUFFICES ASSUME IInv, WInv, [Next]_vars PROVE WInv'
    OBVIOUS
  <2>1. CASE Deliver
    BY <2>1, FrameKeeps, ReadyKeeps, ShutdownKeeps, DisconnectedKeeps, GateKeeps, InfoKeeps,
       SubscribedKeeps, PolledKeeps, UnmatchedKeeps DEF Deliver
  <2>2. CASE Main
    BY <2>2, TakeKeeps, CommitKeeps, SetKeeps, SeedKeeps, DiscoveredKeeps, RunPolledKeeps DEF Main
  <2>3. CASE Klipper \/ Answer
    BY <2>3, KlipperKeeps, AnswerKeeps DEF Answer
  <2>4. CASE Open \/ Close \/ HealthTick \/ PollGivesUp
    BY <2>4, OpenKeeps, CloseKeeps, TickKeeps, GiveUpKeeps
  <2>5. CASE UNCHANGED vars
    BY <2>5, WStutter DEF vars, moonraker, socket, client, guard, screen
  <2> QED
    BY <2>1, <2>2, <2>3, <2>4, <2>5 DEF Next
<1>2. WInv => QuietIsTrue
  <2> SUFFICES ASSUME WInv, Quiet, klippy \in Serving PROVE shown = klippy
    BY DEF QuietIsTrue, Serving
  <2>1. /\ link /\ wire = << >> /\ asked = {} /\ notes = << >> /\ updates = << >>
        /\ applying = Nothing
    BY DEF Quiet
  <2>2. Word(klippy)
    BY <2>1 DEF WInv, LastWord
  <2>3. \A A, B : ~Closing(wire, A, B) /\ ~Closing(notes, A, B) /\ ~Closing(updates, A, B)
    BY <2>1, Empties
  <2> QED
    BY <2>1, <2>2, <2>3 DEF Word, Delivered, Discovering, Stage
<1> QED
  BY <1>1, <1>2, WInit, Invariance, PTL DEF Spec
=============================================================================
