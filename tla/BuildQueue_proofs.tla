-------------------------- MODULE BuildQueue_proofs --------------------------
(***************************************************************************)
(* Theorems about BuildQueue, for any projects and number of requests, and *)
(* every order of timers and callbacks: types are kept, the queue never    *)
(* waits for nothing, preview files have an owner, and a failed build that *)
(* the queue was told of holds it.                                         *)
(***************************************************************************)
EXTENDS BuildQueue, TLAPS, SequenceTheorems

-----------------------------------------------------------------------------
(* Sequences.                                                              *)

\* A sequence without one of its items: those behind it move up.
LEMMA RemoveAtItems ==
  ASSUME NEW S, NEW s \in Seq(S), NEW i \in DOMAIN s
  PROVE  /\ RemoveAt(s, i) \in Seq(S) /\ Len(RemoveAt(s, i)) = Len(s) - 1
         /\ \A j \in 1 .. Len(s) - 1 : RemoveAt(s, i)[j] = s[IF j < i THEN j ELSE j + 1]
<1>1. i \in 1 .. Len(s) /\ Len(s) \in Nat /\ \A j \in 1 .. Len(s) : s[j] \in S
  BY LenProperties, ElementOfSeq
<1> DEFINE a == SubSeq(s, 1, i - 1)
           b == SubSeq(s, i + 1, Len(s))
<1>2. a \in Seq(S) /\ Len(a) = i - 1 /\ \A j \in 1 .. i - 1 : a[j] = s[j]
  <2>1. 1 \in Int /\ i - 1 \in Int /\ \A j \in 1 .. i - 1 : s[j] \in S
    BY <1>1
  <2>2. /\ a \in Seq(S) /\ Len(a) = (IF 1 <= i - 1 THEN (i - 1) - 1 + 1 ELSE 0)
        /\ \A j \in 1 .. (i - 1) - 1 + 1 : a[j] = s[1 + j - 1]
    BY <2>1, SubSeqProperties
  <2> HIDE DEF a
  <2> QED BY <2>2, <1>1
<1>3. b \in Seq(S) /\ Len(b) = Len(s) - i /\ \A j \in 1 .. Len(s) - i : b[j] = s[i + j]
  <2>1. i + 1 \in Int /\ Len(s) \in Int /\ \A j \in i + 1 .. Len(s) : s[j] \in S
    BY <1>1
  <2>2. /\ b \in Seq(S) /\ Len(b) = (IF i + 1 <= Len(s) THEN Len(s) - (i + 1) + 1 ELSE 0)
        /\ \A j \in 1 .. Len(s) - (i + 1) + 1 : b[j] = s[(i + 1) + j - 1]
    BY <2>1, SubSeqProperties
  <2> HIDE DEF b
  <2> QED BY <2>2, <1>1
<1>4. RemoveAt(s, i) = a \o b
  BY DEF RemoveAt
<1> HIDE DEF a, b
<1>5. /\ a \o b \in Seq(S) /\ Len(a \o b) = Len(a) + Len(b)
      /\ \A j \in 1 .. Len(a) + Len(b) : (a \o b)[j] = IF j <= Len(a) THEN a[j] ELSE b[j - Len(a)]
  BY <1>2, <1>3, ConcatProperties
<1>sum. Len(a) + Len(b) = Len(s) - 1 /\ Len(a) = i - 1 /\ i \in Int
  BY <1>1, <1>2, <1>3
<1>6. ASSUME NEW j \in 1 .. Len(s) - 1 PROVE (a \o b)[j] = s[IF j < i THEN j ELSE j + 1]
  <2>1. CASE j < i
    BY <2>1, <1>1, <1>2, <1>sum, <1>5
  <2>2. CASE ~(j < i)
    <3>1. j - (i - 1) \in 1 .. Len(s) - i /\ i + (j - (i - 1)) = j + 1 /\ ~(j <= Len(a))
      BY <2>2, <1>1, <1>2
    <3>2. (a \o b)[j] = b[j - (i - 1)]
      BY <3>1, <1>1, <1>sum, <1>5
    <3>3. b[j - (i - 1)] = s[j + 1]
      BY <3>1, <1>3
    <3> QED BY <2>2, <3>2, <3>3
  <2> QED BY <2>1, <2>2
<1> QED BY <1>4, <1>5, <1>6, <1>sum

\* Items of a sequence exchanged with other items of the type.
LEMMA MapType ==
  ASSUME NEW S, NEW s \in Seq(S), NEW t, t = [i \in DOMAIN s |-> t[i]],
         \A i \in DOMAIN s : t[i] \in S
  PROVE  t \in Seq(S)
<1>1. Len(s) \in Nat /\ DOMAIN s = 1 .. Len(s)
  BY LenProperties
<1>2. t = [i \in 1 .. Len(s) |-> t[i]]
  BY <1>1
<1>3. \A i \in 1 .. Len(s) : t[i] \in S
  BY <1>1
<1> QED BY <1>1, <1>2, <1>3, IsASeq

-----------------------------------------------------------------------------
(* Callbacks.                                                              *)

\* The callbacks that the actions queue are callbacks of the type.
LEMMA CallbackTypes ==
  /\ Callback("processes") \in Callbacks /\ Callback("state") \in Callbacks
  /\ \A r \in Requests : Queued("start", r) \in Callbacks /\ Queued("declined", r) \in Callbacks
  /\ \A n \in 1 .. MaxRequests, status \in {"COMPLETED", "FAILED"} :
       [call |-> "end", id |-> n, status |-> status] \in Callbacks
BY DEF Callbacks, Callback, Queued

\* What a queued callback carries.
LEMMA CallbackFields ==
  ASSUME NEW c \in Callbacks
  PROVE  /\ c.call \in {"start", "declined"} => c.request \in Requests
         /\ c.call = "end" => c.id \in 1 .. MaxRequests /\ c.status \in {"COMPLETED", "FAILED"}
BY DEF Callbacks, Callback

\* Sequences of one or two items.
LEMMA Pairs ==
  ASSUME NEW S, NEW a \in S, NEW b \in S
  PROVE  /\ <<a>> \in Seq(S) /\ Len(<<a>>) = 1 /\ <<a>>[1] = a
         /\ <<a, b>> \in Seq(S) /\ Len(<<a, b>>) = 2 /\ <<a, b>>[2] = b
OBVIOUS

\* The callbacks of a change of a build, the last of which is the list's.
LEMMA AnnounceType ==
  ASSUME NEW i
  PROVE  /\ Announce(i) \in Seq(Callbacks)
         /\ Len(Announce(i)) \in Nat /\ Len(Announce(i)) > 0
         /\ Announce(i)[Len(Announce(i))] = Callback("processes")
<1> DEFINE p == Callback("processes")
           q == Callback("state")
<1>1. p \in Callbacks /\ q \in Callbacks
  BY CallbackTypes
<1>2. Announce(i) = <<q, p>> \/ Announce(i) = <<p>>
  BY DEF Announce
<1> HIDE DEF p, q
<1>3. /\ <<p>> \in Seq(Callbacks) /\ Len(<<p>>) = 1 /\ <<p>>[1] = p
      /\ <<q, p>> \in Seq(Callbacks) /\ Len(<<q, p>>) = 2 /\ <<q, p>>[2] = p
  BY <1>1, Pairs
<1>4. /\ Announce(i) \in Seq(Callbacks)
      /\ Len(Announce(i)) \in Nat /\ Len(Announce(i)) > 0
      /\ Announce(i)[Len(Announce(i))] = p
  <2>1. CASE Announce(i) = <<q, p>>
    BY <2>1, <1>3
  <2>2. CASE Announce(i) = <<p>>
    BY <2>2, <1>3
  <2> QED BY <1>2, <2>1, <2>2
<1> QED BY <1>4 DEF p

-----------------------------------------------------------------------------

-----------------------------------------------------------------------------
(* Types.                                                                  *)

QueueOK ==
  /\ entries \in Seq(Requests) /\ pending \subseteq Requests
  /\ made \in 0 .. MaxRequests /\ previews \subseteq 1 .. MaxRequests
FlagsOK ==
  /\ paused \in BOOLEAN /\ checking \in BOOLEAN /\ retrying \in BOOLEAN
  /\ taken \in BOOLEAN /\ held \in BOOLEAN
IdleOK == idle \in Seq(Callbacks)
StartedOK == started \in Seq(Builds)

\* The type invariant by what its parts are about.
LEMMA TypeParts == TypeOK <=> QueueOK /\ FlagsOK /\ IdleOK /\ StartedOK
BY DEF TypeOK, QueueOK, FlagsOK, IdleOK, StartedOK

\* A request made within the bound.
LEMMA RequestType ==
  ASSUME NEW p \in Projects, NEW queued \in BOOLEAN, made \in Nat, made < MaxRequests
  PROVE  Request(p, queued) \in Requests
BY QueueAssumption DEF Request, Requests

\* A build that is started now or waits for authorization.
LEMMA StartType ==
  ASSUME NEW r \in Requests, StartProjectBuild(r), pending \subseteq Requests, IdleOK
  PROVE  pending' \subseteq Requests /\ IdleOK'
<1>1. Queued("start", r) \in Callbacks
  BY CallbackTypes
<1> QED BY <1>1, AppendProperties DEF StartProjectBuild, IdleOK

LEMMA InitTyped == Init => TypeOK
<1>1. \A S : <<>> \in Seq(S)
  BY EmptySeq
<1> SUFFICES ASSUME Init PROVE TypeOK
  OBVIOUS
<1>2. entries \in Seq(Requests) /\ idle \in Seq(Callbacks) /\ started \in Seq(Builds)
  BY <1>1 DEF Init
<1>3. made \in 0 .. MaxRequests /\ pending \subseteq Requests /\ previews \subseteq 1 .. MaxRequests
  BY QueueAssumption DEF Init
<1>4. FlagsOK
  BY DEF Init, FlagsOK
<1> QED BY <1>2, <1>3, <1>4 DEF TypeOK, FlagsOK

LEMMA TypeStep == TypeOK /\ [Next]_vars => TypeOK'
<1> SUFFICES ASSUME TypeOK, [Next]_vars PROVE TypeOK'
  OBVIOUS
<1>ok. QueueOK /\ FlagsOK /\ IdleOK /\ StartedOK
  BY TypeParts
<1>goal. SUFFICES QueueOK' /\ FlagsOK' /\ IdleOK' /\ StartedOK'
  BY DEF TypeOK, QueueOK, FlagsOK, IdleOK, StartedOK
<1> USE <1>ok
<1>1. ASSUME NEW p \in Projects, Add(p) PROVE QueueOK' /\ FlagsOK' /\ IdleOK' /\ StartedOK'
  <2> USE <1>1
  <2>q. QueueOK'
    <3>0. made \in Nat /\ made < MaxRequests /\ made + 1 \in 1 .. MaxRequests
          /\ made + 1 \in 0 .. MaxRequests
      BY QueueAssumption DEF Add, QueueOK
    <3>1. Request(p, TRUE) \in Requests
      BY <3>0, RequestType
    <3>2. Append(entries, Request(p, TRUE)) \in Seq(Requests)
      BY <3>1, AppendProperties DEF QueueOK
    <3>3. entries' \in Seq(Requests) /\ pending' \subseteq Requests /\ made' \in 0 .. MaxRequests
      BY <3>0, <3>2 DEF Add, QueueOK
    <3>4. previews' \subseteq 1 .. MaxRequests
      BY <3>0, QueueAssumption DEF Add, QueueOK
    <3> QED BY <3>3, <3>4 DEF QueueOK
  <2>f. FlagsOK'
    BY DEF Add, FlagsOK
  <2>i. IdleOK'
    BY DEF Add, IdleOK
  <2>s. StartedOK'
    BY DEF Add, StartedOK
  <2> QED BY <2>q, <2>f, <2>i, <2>s
<1>2. ASSUME NEW p \in Projects, Build(p) PROVE QueueOK' /\ FlagsOK' /\ IdleOK' /\ StartedOK'
  <2> USE <1>2
  <2>0. made \in Nat /\ made < MaxRequests /\ made + 1 \in 0 .. MaxRequests
    BY QueueAssumption DEF Build, QueueOK
  <2>1. Request(p, FALSE) \in Requests
    BY <2>0, RequestType
  <2>2. pending' \subseteq Requests /\ IdleOK'
    BY <2>1, StartType DEF Build, QueueOK
  <2>q. QueueOK'
    BY <2>0, <2>2 DEF Build, QueueOK
  <2>f. FlagsOK'
    BY DEF Build, FlagsOK
  <2>i. IdleOK'
    BY <2>2
  <2>s. StartedOK'
    BY DEF Build, StartedOK
  <2> QED BY <2>q, <2>f, <2>i, <2>s
<1>3. ASSUME NEW i \in DOMAIN entries, RemoveEntry(i) PROVE QueueOK' /\ FlagsOK' /\ IdleOK' /\ StartedOK'
  <2> USE <1>3
  <2>1. RemoveAt(entries, i) \in Seq(Requests)
    BY RemoveAtItems DEF QueueOK
  <2>q. QueueOK'
    BY <2>1 DEF RemoveEntry, QueueOK
  <2>f. FlagsOK'
    BY DEF RemoveEntry, FlagsOK
  <2>i. IdleOK'
    BY DEF RemoveEntry, IdleOK
  <2>s. StartedOK'
    BY DEF RemoveEntry, StartedOK
  <2> QED BY <2>q, <2>f, <2>i, <2>s
<1>4. ASSUME NEW i \in DOMAIN entries, Move(i) PROVE QueueOK' /\ FlagsOK' /\ IdleOK' /\ StartedOK'
  <2> USE <1>4
  <2>q. QueueOK'
    <3>1. i \in 1 .. Len(entries) /\ i + 1 \in 1 .. Len(entries)
      BY LenProperties DEF Move, QueueOK
    <3>2. entries[i] \in Requests /\ entries[i + 1] \in Requests
      BY <3>1, ElementOfSeq DEF QueueOK
    <3>3. [entries EXCEPT ![i] = entries[i + 1]] \in Seq(Requests)
      BY <3>1, <3>2, ExceptSeq DEF QueueOK
    <3>4. [entries EXCEPT ![i] = entries[i + 1], ![i + 1] = entries[i]] \in Seq(Requests)
      BY <3>1, <3>2 DEF QueueOK
    <3> QED BY <3>4 DEF Move, QueueOK
  <2>f. FlagsOK'
    BY DEF Move, FlagsOK
  <2>i. IdleOK'
    BY DEF Move, IdleOK
  <2>s. StartedOK'
    BY DEF Move, StartedOK
  <2> QED BY <2>q, <2>f, <2>i, <2>s
<1>5. CASE Clear
  <2> USE <1>5
  <2>q. QueueOK'
    BY EmptySeq DEF Clear, QueueOK
  <2>f. FlagsOK'
    BY DEF Clear, FlagsOK
  <2>i. IdleOK'
    BY DEF Clear, IdleOK
  <2>s. StartedOK'
    BY DEF Clear, StartedOK
  <2> QED BY <2>q, <2>f, <2>i, <2>s
<1>6. CASE Start
  <2> USE <1>6
  <2>q. QueueOK'
    BY DEF Start, QueueOK
  <2>f. FlagsOK'
    BY DEF Start, FlagsOK
  <2>i. IdleOK'
    BY DEF Start, IdleOK
  <2>s. StartedOK'
    BY DEF Start, StartedOK
  <2> QED BY <2>q, <2>f, <2>i, <2>s
<1>7. CASE Pause
  <2> USE <1>7
  <2>q. QueueOK'
    BY DEF Pause, QueueOK
  <2>f. FlagsOK'
    BY DEF Pause, FlagsOK
  <2>i. IdleOK'
    BY DEF Pause, IdleOK
  <2>s. StartedOK'
    BY DEF Pause, StartedOK
  <2> QED BY <2>q, <2>f, <2>i, <2>s
<1>8. ASSUME NEW i \in DOMAIN started, CancelBuild(i) PROVE QueueOK' /\ FlagsOK' /\ IdleOK' /\ StartedOK'
  <2> USE <1>8
  <2>q. QueueOK'
    BY DEF CancelBuild, QueueOK
  <2>f. FlagsOK'
    BY DEF CancelBuild, FlagsOK
  <2>i. IdleOK'
    <3>1. idle \o Announce(i) \in Seq(Callbacks)
      BY AnnounceType, ConcatProperties DEF IdleOK
    <3> QED BY <3>1 DEF CancelBuild, IdleOK
  <2>s. StartedOK'
    <3>1. RemoveAt(started, i) \in Seq(Builds)
      BY RemoveAtItems DEF StartedOK
    <3> QED BY <3>1 DEF CancelBuild, StartedOK
  <2> QED BY <2>q, <2>f, <2>i, <2>s
<1>9. ASSUME NEW i \in DOMAIN started, Dismiss(i) PROVE QueueOK' /\ FlagsOK' /\ IdleOK' /\ StartedOK'
  <2> USE <1>9
  <2>q. QueueOK'
    BY DEF Dismiss, QueueOK
  <2>f. FlagsOK'
    BY DEF Dismiss, FlagsOK
  <2>i. IdleOK'
    <3>1. Append(idle, Callback("processes")) \in Seq(Callbacks)
      BY CallbackTypes, AppendProperties DEF IdleOK
    <3> QED BY <3>1 DEF Dismiss, IdleOK
  <2>s. StartedOK'
    <3>1. RemoveAt(started, i) \in Seq(Builds)
      BY RemoveAtItems DEF StartedOK
    <3> QED BY <3>1 DEF Dismiss, StartedOK
  <2> QED BY <2>q, <2>f, <2>i, <2>s
<1>10. CASE CheckNothing
  <2> USE <1>10
  <2>q. QueueOK'
    BY DEF CheckNothing, QueueOK
  <2>f. FlagsOK'
    BY DEF CheckNothing, FlagsOK
  <2>i. IdleOK'
    BY DEF CheckNothing, IdleOK
  <2>s. StartedOK'
    BY DEF CheckNothing, StartedOK
  <2> QED BY <2>q, <2>f, <2>i, <2>s
<1>11. CASE CheckSkips
  <2> USE <1>11
  <2>1. Head(entries) \in Requests /\ Tail(entries) \in Seq(Requests)
    BY HeadTailProperties DEF CheckSkips, CanContinue, QueueOK
  <2>q. QueueOK'
    BY <2>1 DEF CheckSkips, QueueOK
  <2>f. FlagsOK'
    BY DEF CheckSkips, FlagsOK
  <2>i. IdleOK'
    BY DEF CheckSkips, IdleOK
  <2>s. StartedOK'
    BY DEF CheckSkips, StartedOK
  <2> QED BY <2>q, <2>f, <2>i, <2>s
<1>12. CASE CheckPauses
  <2> USE <1>12
  <2>q. QueueOK'
    BY DEF CheckPauses, QueueOK
  <2>f. FlagsOK'
    BY DEF CheckPauses, FlagsOK
  <2>i. IdleOK'
    BY DEF CheckPauses, IdleOK
  <2>s. StartedOK'
    BY DEF CheckPauses, StartedOK
  <2> QED BY <2>q, <2>f, <2>i, <2>s
<1>13. CASE CheckWaits
  <2> USE <1>13
  <2>q. QueueOK'
    BY DEF CheckWaits, QueueOK
  <2>f. FlagsOK'
    BY DEF CheckWaits, FlagsOK
  <2>i. IdleOK'
    BY DEF CheckWaits, IdleOK
  <2>s. StartedOK'
    BY DEF CheckWaits, StartedOK
  <2> QED BY <2>q, <2>f, <2>i, <2>s
<1>14. CASE CheckStarts
  <2> USE <1>14
  <2>1. Head(entries) \in Requests /\ Tail(entries) \in Seq(Requests)
    BY HeadTailProperties DEF CheckStarts, CanContinue, QueueOK
  <2>2. pending' \subseteq Requests /\ IdleOK'
    BY <2>1, StartType DEF CheckStarts, QueueOK
  <2>q. QueueOK'
    BY <2>1, <2>2 DEF CheckStarts, QueueOK
  <2>f. FlagsOK'
    BY DEF CheckStarts, FlagsOK
  <2>i. IdleOK'
    BY <2>2
  <2>s. StartedOK'
    BY DEF CheckStarts, StartedOK
  <2> QED BY <2>q, <2>f, <2>i, <2>s
<1>15. CASE Retry
  <2> USE <1>15
  <2>q. QueueOK'
    BY DEF Retry, QueueOK
  <2>f. FlagsOK'
    BY DEF Retry, FlagsOK
  <2>i. IdleOK'
    BY DEF Retry, IdleOK
  <2>s. StartedOK'
    BY DEF Retry, StartedOK
  <2> QED BY <2>q, <2>f, <2>i, <2>s
<1>16. CASE OnProcessesChanged
  <2> USE <1>16
  <2>1. Head(idle) \in Callbacks /\ Tail(idle) \in Seq(Callbacks)
    BY HeadTailProperties DEF OnProcessesChanged, IsNext, IdleOK
  <2>q. QueueOK'
    BY DEF OnProcessesChanged, QueueOK
  <2>f. FlagsOK'
    BY DEF OnProcessesChanged, FlagsOK
  <2>i. IdleOK'
    BY <2>1 DEF OnProcessesChanged, IdleOK
  <2>s. StartedOK'
    <3> DEFINE t == [j \in DOMAIN started |->
                       IF IsRunningBuild(j) THEN [started[j] EXCEPT !.observed = TRUE] ELSE started[j]]
    <3>1. \A j \in DOMAIN started : started[j] \in Builds
      BY LenProperties, ElementOfSeq DEF StartedOK
    <3>2. \A b \in Builds : [b EXCEPT !.observed = TRUE] \in Builds
      BY DEF Builds
    <3>3. \A j \in DOMAIN started : t[j] \in Builds
      BY <3>1, <3>2
    <3>4. t = [j \in DOMAIN started |-> t[j]]
      OBVIOUS
    <3> HIDE DEF t
    <3>5. t \in Seq(Builds)
      BY <3>3, <3>4, MapType DEF StartedOK
    <3>6. started' = t
      BY DEF OnProcessesChanged, t
    <3> QED BY <3>5, <3>6 DEF StartedOK
  <2> QED BY <2>q, <2>f, <2>i, <2>s
<1>17. CASE OnBuildStateChanged
  <2> USE <1>17
  <2>1. Head(idle) \in Callbacks /\ Tail(idle) \in Seq(Callbacks)
    BY HeadTailProperties DEF OnBuildStateChanged, IsNext, IdleOK
  <2>q. QueueOK'
    BY DEF OnBuildStateChanged, QueueOK
  <2>f. FlagsOK'
    BY DEF OnBuildStateChanged, FlagsOK
  <2>i. IdleOK'
    BY <2>1 DEF OnBuildStateChanged, IdleOK
  <2>s. StartedOK'
    <3> DEFINE t == [j \in DOMAIN started |->
                       IF HasFailure(j) THEN [started[j] EXCEPT !.handled = TRUE] ELSE started[j]]
    <3>1. \A j \in DOMAIN started : started[j] \in Builds
      BY LenProperties, ElementOfSeq DEF StartedOK
    <3>2. \A b \in Builds : [b EXCEPT !.handled = TRUE] \in Builds
      BY DEF Builds
    <3>3. \A j \in DOMAIN started : t[j] \in Builds
      BY <3>1, <3>2
    <3>4. t = [j \in DOMAIN started |-> t[j]]
      OBVIOUS
    <3> HIDE DEF t
    <3>5. t \in Seq(Builds)
      BY <3>3, <3>4, MapType DEF StartedOK
    <3>6. started' = t
      BY DEF OnBuildStateChanged, t
    <3> QED BY <3>5, <3>6 DEF StartedOK
  <2> QED BY <2>q, <2>f, <2>i, <2>s
<1>18. CASE BuildStarts
  <2> USE <1>18
  <2>1. Head(idle) \in Callbacks /\ Tail(idle) \in Seq(Callbacks)
    BY HeadTailProperties DEF BuildStarts, IsNext, IdleOK
  <2>q. QueueOK'
    BY DEF BuildStarts, QueueOK
  <2>f. FlagsOK'
    BY DEF BuildStarts, FlagsOK
  <2>i. IdleOK'
    <3>1. Append(Tail(idle), Callback("processes")) \in Seq(Callbacks)
      BY <2>1, CallbackTypes, AppendProperties
    <3> QED BY <3>1 DEF BuildStarts, IdleOK
  <2>s. StartedOK'
    <3> DEFINE r == Head(idle).request
               b == [id |-> r.id, project |-> r.project, queued |-> r.queued,
                     status |-> "IN_PROGRESS", observed |-> FALSE, handled |-> FALSE]
    <3>1. r \in Requests
      BY <2>1, CallbackFields DEF BuildStarts, IsNext
    <3>2. b \in Builds
      BY <3>1 DEF Requests, Builds
    <3>3. started' = Append(started, b)
      BY DEF BuildStarts
    <3> HIDE DEF b
    <3> QED BY <3>2, <3>3, AppendProperties DEF StartedOK
  <2> QED BY <2>q, <2>f, <2>i, <2>s
<1>19. CASE BuildDoesNotStart
  <2> USE <1>19
  <2>1. Head(idle) \in Callbacks /\ Tail(idle) \in Seq(Callbacks)
    BY HeadTailProperties DEF BuildDoesNotStart, IsNext, IdleOK
  <2>q. QueueOK'
    BY DEF BuildDoesNotStart, QueueOK
  <2>f. FlagsOK'
    BY DEF BuildDoesNotStart, FlagsOK
  <2>i. IdleOK'
    BY <2>1 DEF BuildDoesNotStart, IdleOK
  <2>s. StartedOK'
    BY DEF BuildDoesNotStart, StartedOK
  <2> QED BY <2>q, <2>f, <2>i, <2>s
<1>20. CASE BuildEnds
  <2> USE <1>20
  <2>1. Head(idle) \in Callbacks /\ Tail(idle) \in Seq(Callbacks)
    BY HeadTailProperties DEF BuildEnds, IsNext, IdleOK
  <2>q. QueueOK'
    BY DEF BuildEnds, QueueOK
  <2>f. FlagsOK'
    BY DEF BuildEnds, FlagsOK
  <2>i. IdleOK'
    <3>1. \A i \in DOMAIN started : Tail(idle) \o Announce(i) \in Seq(Callbacks)
      BY <2>1, AnnounceType, ConcatProperties
    <3> QED BY <2>1, <3>1 DEF BuildEnds, IdleOK
  <2>s. StartedOK'
    <3>1. \A i \in DOMAIN started : RemoveAt(started, i) \in Seq(Builds)
      BY RemoveAtItems DEF StartedOK
    <3>2. ASSUME NEW i \in DOMAIN started
          PROVE  [started EXCEPT ![i].status = "FAILED"] \in Seq(Builds)
      <4>1. i \in 1 .. Len(started) /\ started[i] \in Builds
        BY LenProperties, ElementOfSeq DEF StartedOK
      <4>2. [started[i] EXCEPT !.status = "FAILED"] \in Builds
        BY <4>1 DEF Builds
      <4>3. [started EXCEPT ![i] = [started[i] EXCEPT !.status = "FAILED"]] \in Seq(Builds)
        BY <4>1, <4>2, ExceptSeq DEF StartedOK
      <4> QED BY <4>3
    <3>3. started' = started \/ \E i \in DOMAIN started :
            started' = [started EXCEPT ![i].status = "FAILED"] \/ started' = RemoveAt(started, i)
      BY DEF BuildEnds
    <3> QED BY <3>1, <3>2, <3>3 DEF StartedOK
  <2> QED BY <2>q, <2>f, <2>i, <2>s
<1>21. ASSUME NEW r \in pending, Authorized(r) PROVE QueueOK' /\ FlagsOK' /\ IdleOK' /\ StartedOK'
  <2> USE <1>21
  <2>q. QueueOK'
    BY DEF Authorized, QueueOK
  <2>f. FlagsOK'
    BY DEF Authorized, FlagsOK
  <2>i. IdleOK'
    <3>1. Queued("start", r) \in Callbacks /\ Queued("declined", r) \in Callbacks
      BY CallbackTypes DEF QueueOK
    <3>2. \A answer \in {"start", "declined"} : Append(idle, Queued(answer, r)) \in Seq(Callbacks)
      BY <3>1, AppendProperties DEF IdleOK
    <3> QED BY <3>2 DEF Authorized, IdleOK
  <2>s. StartedOK'
    BY DEF Authorized, StartedOK
  <2> QED BY <2>q, <2>f, <2>i, <2>s
<1>22. ASSUME NEW i \in DOMAIN started, StepsEnd(i) PROVE QueueOK' /\ FlagsOK' /\ IdleOK' /\ StartedOK'
  <2> USE <1>22
  <2>q. QueueOK'
    BY DEF StepsEnd, QueueOK
  <2>f. FlagsOK'
    BY DEF StepsEnd, FlagsOK
  <2>i. IdleOK'
    <3> DEFINE c(status) == [call |-> "end", id |-> started[i].id, status |-> status]
    <3>0. started[i] \in Builds
      BY LenProperties, ElementOfSeq DEF StartedOK
    <3>1. started[i].id \in 1 .. MaxRequests
      BY <3>0 DEF Builds
    <3>2. \A status \in {"COMPLETED", "FAILED"} : c(status) \in Callbacks
      BY <3>1, CallbackTypes
    <3>3. \E status \in {"COMPLETED", "FAILED"} : idle' = Append(idle, c(status))
      BY DEF StepsEnd
    <3> HIDE DEF c
    <3> QED BY <3>2, <3>3, AppendProperties DEF IdleOK
  <2>s. StartedOK'
    BY DEF StepsEnd, StartedOK
  <2> QED BY <2>q, <2>f, <2>i, <2>s
<1>23. CASE OtherOperation
  <2> USE <1>23
  <2>q. QueueOK'
    BY DEF OtherOperation, QueueOK
  <2>f. FlagsOK'
    BY DEF OtherOperation, FlagsOK
  <2>i. IdleOK'
    BY DEF OtherOperation, IdleOK
  <2>s. StartedOK'
    BY DEF OtherOperation, StartedOK
  <2> QED BY <2>q, <2>f, <2>i, <2>s
<1>24. CASE UNCHANGED vars
  <2> USE <1>24
  <2>q. QueueOK'
    BY DEF vars, QueueOK
  <2>f. FlagsOK'
    BY DEF vars, FlagsOK
  <2>i. IdleOK'
    BY DEF vars, IdleOK
  <2>s. StartedOK'
    BY DEF vars, StartedOK
  <2> QED BY <2>q, <2>f, <2>i, <2>s
<1> QED
  BY <1>1, <1>2, <1>3, <1>4, <1>5, <1>6, <1>7, <1>8, <1>9, <1>10, <1>11, <1>12, <1>13, <1>14, <1>15, <1>16, <1>17, <1>18, <1>19, <1>20, <1>21, <1>22, <1>23, <1>24 DEF Next, User, Check, Dispatch

\* The queue, its timers and callbacks, and the builds keep their types
\* whatever is confirmed, canceled, moved or declined at any time.
THEOREM TypeCorrect == Spec => []TypeOK
<1>1. Init => TypeOK
  BY InitTyped
<1>2. TypeOK /\ [Next]_vars => TypeOK'
  BY TypeStep
<1> QED BY <1>1, <1>2, PTL DEF Spec

-----------------------------------------------------------------------------
(* The queue never waits for nothing.                                      *)

\* A callback behind the first is still there when the first was taken, or
\* others were added; Wakes is kept unless the first is the one.
LEMMA WakesAppended ==
  ASSUME IdleOK, NEW c \in Callbacks, idle' = Append(idle, c)
  PROVE  Wakes => Wakes'
<1>1. Len(idle) \in Nat /\ DOMAIN idle = 1 .. Len(idle)
  BY LenProperties DEF IdleOK
<1>2. Len(idle') = Len(idle) + 1 /\ \A n \in 1 .. Len(idle) : idle'[n] = idle[n]
  BY AppendProperties DEF IdleOK
<1>3. DOMAIN idle' = 1 .. Len(idle')
  BY AppendProperties, LenProperties DEF IdleOK
<1> QED BY <1>1, <1>2, <1>3 DEF Wakes

\* What is announced wakes the queue.
LEMMA WakesAnnounced ==
  ASSUME NEW q \in Seq(Callbacks), NEW i, idle' = q \o Announce(i)
  PROVE  Wakes'
<1> DEFINE a == Announce(i)
           n == Len(q) + Len(a)
<1>1. a \in Seq(Callbacks) /\ Len(a) \in Nat /\ Len(a) > 0 /\ a[Len(a)] = Callback("processes")
  BY AnnounceType
<1> HIDE DEF a
<1>2. Len(q) \in Nat
  BY LenProperties
<1>3. idle' \in Seq(Callbacks) /\ Len(idle') = n /\ n \in 1 .. n
  BY <1>1, <1>2, ConcatProperties DEF a
<1>4. idle'[n] = a[Len(a)]
  <2>1. \A k \in 1 .. n : (q \o a)[k] = IF k <= Len(q) THEN q[k] ELSE a[k - Len(q)]
    BY <1>1, ConcatProperties
  <2> QED BY <2>1, <1>1, <1>2, <1>3 DEF a
<1>5. n \in DOMAIN idle' /\ idle'[n].call = "processes"
  BY <1>1, <1>3, <1>4, LenProperties DEF Callback
<1> QED BY <1>5 DEF Wakes

\* A callback that is taken and does not wake leaves those that do.
LEMMA WakesTaken ==
  ASSUME IdleOK, idle # <<>>, idle' = Tail(idle), Head(idle).call \notin {"processes", "state"}
  PROVE  Wakes => Wakes'
<1>1. Len(idle) \in Nat /\ Len(idle) > 0 /\ DOMAIN idle = 1 .. Len(idle)
  BY LenProperties, EmptySeq DEF IdleOK
<1>2. Len(idle') = Len(idle) - 1 /\ \A n \in 1 .. Len(idle') : idle'[n] = idle[n + 1]
  BY HeadTailProperties DEF IdleOK
<1>3. DOMAIN idle' = 1 .. Len(idle')
  BY HeadTailProperties, LenProperties DEF IdleOK
<1>4. Head(idle) = idle[1]
  BY DEF IdleOK
<1>5. SUFFICES ASSUME NEW n \in DOMAIN idle, idle[n].call \in {"processes", "state"} PROVE Wakes'
  BY DEF Wakes
<1>6. n # 1
  BY <1>4, <1>5
<1>7. n - 1 \in DOMAIN idle' /\ idle'[n - 1] = idle[n]
  BY <1>1, <1>2, <1>3, <1>6
<1> QED BY <1>5, <1>7 DEF Wakes

LEMMA AppendWakes ==
  ASSUME NEW q \in Seq(Callbacks), idle' = Append(q, Callback("processes")),
         Callback("processes") \in Callbacks
  PROVE  Wakes'
<1>1. /\ idle' \in Seq(Callbacks) /\ Len(idle') = Len(q) + 1
      /\ idle'[Len(q) + 1] = Callback("processes")
  BY AppendProperties
<1>2. Len(q) \in Nat
  BY LenProperties
<1>3. Len(idle') \in DOMAIN idle' /\ idle'[Len(idle')].call = "processes"
  BY <1>1, <1>2, LenProperties DEF Callback
<1> QED BY <1>3 DEF Wakes

LEMMA NeverStuckStep == TypeOK /\ NeverStuck /\ [Next]_vars => NeverStuck'
<1> SUFFICES ASSUME TypeOK, NeverStuck, [Next]_vars PROVE NeverStuck'
  OBVIOUS
<1>ok. IdleOK
  BY TypeParts
<1> USE <1>ok
<1>1. ASSUME NEW p \in Projects, Add(p) PROVE NeverStuck'
  BY <1>1 DEF Add, NeverStuck, SomeRunning, Running, Wakes
<1>2. ASSUME NEW p \in Projects, Build(p) PROVE NeverStuck'
  <2> USE <1>2
  <2>0. made \in Nat /\ made < MaxRequests
    BY QueueAssumption DEF Build, TypeOK
  <2>1. Queued("start", Request(p, FALSE)) \in Callbacks
    BY <2>0, RequestType, CallbackTypes
  <2>2. Wakes => Wakes'
    <3>1. CASE Authorizes
      BY <3>1 DEF Build, StartProjectBuild, Wakes
    <3>2. CASE ~Authorizes
      BY <3>2, <2>1, WakesAppended DEF Build, StartProjectBuild
    <3> QED BY <3>1, <3>2
  <2> QED BY <2>2 DEF Build, NeverStuck, SomeRunning, Running
<1>3. ASSUME NEW i \in DOMAIN entries, RemoveEntry(i) PROVE NeverStuck'
  BY <1>3 DEF RemoveEntry, NeverStuck, SomeRunning, Running, Wakes
<1>4. ASSUME NEW i \in DOMAIN entries, Move(i) PROVE NeverStuck'
  BY <1>4 DEF Move, NeverStuck, SomeRunning, Running, Wakes
<1>5. CASE Clear
  BY <1>5 DEF Clear, NeverStuck, SomeRunning, Running, Wakes
<1>6. CASE Start
  BY <1>6 DEF Start, NeverStuck, SomeRunning, Running, Wakes
<1>7. CASE Pause
  BY <1>7 DEF Pause, NeverStuck, SomeRunning, Running, Wakes
<1>8. ASSUME NEW i \in DOMAIN started, CancelBuild(i) PROVE NeverStuck'
  <2>1. Wakes'
    BY <1>8, WakesAnnounced DEF CancelBuild, IdleOK
  <2> QED BY <2>1 DEF NeverStuck
<1>9. ASSUME NEW i \in DOMAIN started, Dismiss(i) PROVE NeverStuck'
  <2>1. idle' = Append(idle, Callback("processes")) /\ Callback("processes") \in Callbacks
    BY <1>9, CallbackTypes DEF Dismiss
  <2>2. Wakes'
    BY <2>1, AppendWakes DEF IdleOK
  <2> QED BY <2>2 DEF NeverStuck
<1>10. CASE CheckNothing
  BY <1>10 DEF CheckNothing, NeverStuck, SomeRunning, Running, Wakes
<1>11. CASE CheckSkips
  BY <1>11 DEF CheckSkips, NeverStuck, SomeRunning, Running, Wakes
<1>12. CASE CheckPauses
  BY <1>12 DEF CheckPauses, NeverStuck, SomeRunning, Running, Wakes
<1>13. CASE CheckWaits
  BY <1>13 DEF CheckWaits, NeverStuck, SomeRunning, Running, Wakes
<1>14. CASE CheckStarts
  BY <1>14 DEF CheckStarts, NeverStuck, SomeRunning, Running, Wakes
<1>15. CASE Retry
  BY <1>15 DEF Retry, NeverStuck, SomeRunning, Running, Wakes
<1>16. CASE OnProcessesChanged
  BY <1>16 DEF OnProcessesChanged, NeverStuck, SomeRunning, Running, Wakes
<1>17. CASE OnBuildStateChanged
  BY <1>17 DEF OnBuildStateChanged, NeverStuck, SomeRunning, Running, Wakes
<1>18. CASE BuildStarts
  <2>1. Tail(idle) \in Seq(Callbacks) /\ Callback("processes") \in Callbacks
    BY <1>18, HeadTailProperties, CallbackTypes DEF BuildStarts, IsNext, IdleOK
  <2>2. idle' = Append(Tail(idle), Callback("processes"))
    BY <1>18 DEF BuildStarts
  <2>3. Wakes'
    BY <2>1, <2>2, AppendWakes
  <2> QED BY <2>3 DEF NeverStuck
<1>19. CASE BuildDoesNotStart
  <2>1. idle # <<>> /\ idle' = Tail(idle) /\ Head(idle).call \notin {"processes", "state"}
    BY <1>19 DEF BuildDoesNotStart, IsNext
  <2>2. Wakes => Wakes'
    BY <2>1, WakesTaken
  <2> QED BY <2>2, <1>19 DEF BuildDoesNotStart, NeverStuck, SomeRunning, Running
<1>20. CASE BuildEnds
  <2> USE <1>20
  <2>1. CASE idle' = Tail(idle) /\ started' = started
    <3>1. idle # <<>> /\ Head(idle).call \notin {"processes", "state"}
      BY DEF BuildEnds, IsNext
    <3>2. Wakes => Wakes'
      BY <2>1, <3>1, WakesTaken
    <3> QED BY <2>1, <3>2 DEF BuildEnds, NeverStuck, SomeRunning, Running
  <2>2. CASE \E i \in DOMAIN started : idle' = Tail(idle) \o Announce(i)
    <3>1. PICK i \in DOMAIN started : idle' = Tail(idle) \o Announce(i)
      BY <2>2
    <3>2. Tail(idle) \in Seq(Callbacks)
      BY HeadTailProperties DEF BuildEnds, IsNext, IdleOK
    <3>3. Wakes'
      BY <3>1, <3>2, WakesAnnounced
    <3> QED BY <3>3 DEF NeverStuck
  <2> QED BY <2>1, <2>2 DEF BuildEnds
<1>21. ASSUME NEW r \in pending, Authorized(r) PROVE NeverStuck'
  <2>1. Queued("start", r) \in Callbacks /\ Queued("declined", r) \in Callbacks
    BY CallbackTypes DEF TypeOK
  <2>2. \E c \in Callbacks : idle' = Append(idle, c)
    BY <1>21, <2>1 DEF Authorized
  <2>3. Wakes => Wakes'
    BY <2>2, WakesAppended
  <2> QED BY <1>21, <2>3 DEF Authorized, NeverStuck, SomeRunning, Running
<1>22. ASSUME NEW i \in DOMAIN started, StepsEnd(i) PROVE NeverStuck'
  <2>1. started[i].id \in 1 .. MaxRequests
    <3>1. started[i] \in Builds
      BY LenProperties, ElementOfSeq DEF TypeOK
    <3> QED BY <3>1 DEF Builds
  <2>2. \E c \in Callbacks : idle' = Append(idle, c)
    BY <1>22, <2>1, CallbackTypes DEF StepsEnd
  <2>3. Wakes => Wakes'
    BY <2>2, WakesAppended
  <2> QED BY <1>22, <2>3 DEF StepsEnd, NeverStuck, SomeRunning, Running
<1>23. CASE OtherOperation
  BY <1>23 DEF OtherOperation, NeverStuck, SomeRunning, Running, Wakes
<1>24. CASE UNCHANGED vars
  BY <1>24 DEF vars, NeverStuck, SomeRunning, Running, Wakes
<1> QED
  BY <1>1, <1>2, <1>3, <1>4, <1>5, <1>6, <1>7, <1>8, <1>9, <1>10, <1>11, <1>12, <1>13, <1>14, <1>15, <1>16, <1>17, <1>18, <1>19, <1>20, <1>21, <1>22, <1>23, <1>24 DEF Next, User, Check, Dispatch

\* A queue that is not paused, has a build to start and waits for none that
\* is in progress always has a timer or a callback that makes it look:
\* whatever the order of timers, callbacks, answers and clicks, it is never
\* left waiting for nothing.
THEOREM QueueNeverStuck == Spec => []NeverStuck
<1>1. Init => NeverStuck
  BY DEF Init, NeverStuck
<1>2. TypeOK /\ NeverStuck /\ [Next]_vars => NeverStuck'
  BY NeverStuckStep
<1> QED BY <1>1, <1>2, TypeCorrect, PTL DEF Spec

-----------------------------------------------------------------------------
(* Preview files belong to somebody.                                       *)

\* Requests among queued callbacks, ids of running builds of a list.
RequestsIn(q) == {q[n].request : n \in {m \in DOMAIN q : q[m].call \in {"start", "declined"}}}
RunningIn(s) == {s[i].id : i \in {j \in DOMAIN s : s[j].status = "IN_PROGRESS"}}
IdsIn(s) == {s[i].id : i \in DOMAIN s}
Waiting == pending \cup RequestsIn(idle)

\* An entry is in the queue once, and not asked for at the same time; files of
\* a build that was not queued are not the queue's.
QueuedOnce(s) ==
  /\ \A i \in DOMAIN s : s[i].queued
  /\ \A i, j \in DOMAIN s : s[i].id = s[j].id => i = j
OwnersOK ==
  /\ QueuedOnce(entries)
  /\ QueuedIds \cap Asked = {} /\ QueuedIds \cup Asked \subseteq 1 .. made
  /\ \A r \in Waiting : ~r.queued => r.id \notin previews
  /\ PreviewsOwned

\* The requests that were asked for wait or run.
LEMMA AskedParts == Asked = {r.id : r \in Waiting} \cup RunningIn(started)
BY DEF Asked, Waiting, RequestsIn, RunningIn, Running

\* Without one of its items a list has the other ids, once each.
LEMMA RemovedIds ==
  ASSUME NEW S, NEW s \in Seq(S), NEW i \in DOMAIN s, QueuedOnce(s)
  PROVE  IdsIn(RemoveAt(s, i)) = IdsIn(s) \ {s[i].id} /\ QueuedOnce(RemoveAt(s, i))
<1> DEFINE t == RemoveAt(s, i)
           k(j) == IF j < i THEN j ELSE j + 1
<1>1. DOMAIN s = 1 .. Len(s) /\ Len(s) \in Nat
  BY LenProperties
<1>2. DOMAIN t = 1 .. Len(s) - 1 /\ \A j \in 1 .. Len(s) - 1 : t[j] = s[k(j)]
  BY RemoveAtItems, LenProperties
<1> HIDE DEF t
<1>3. \A j \in DOMAIN t : k(j) \in DOMAIN s /\ k(j) # i
  BY <1>1, <1>2
<1>4. \A j \in DOMAIN s : j # i => \E n \in DOMAIN t : k(n) = j
  <2> SUFFICES ASSUME NEW j \in DOMAIN s, j # i PROVE \E n \in DOMAIN t : k(n) = j
    OBVIOUS
  <2>1. CASE j < i
    <3>1. j \in DOMAIN t /\ k(j) = j
      BY <2>1, <1>1, <1>2
    <3> QED BY <3>1
  <2>2. CASE ~(j < i)
    <3>1. j - 1 \in DOMAIN t /\ k(j - 1) = j
      BY <2>2, <1>1, <1>2
    <3> QED BY <3>1
  <2> QED BY <2>1, <2>2
<1>5. \A m, n \in DOMAIN t : k(m) = k(n) => m = n
  BY <1>1, <1>2
<1> HIDE DEF k
<1>6. IdsIn(t) = IdsIn(s) \ {s[i].id}
  <2>1. ASSUME NEW n \in DOMAIN t PROVE t[n].id \in IdsIn(s) /\ t[n].id # s[i].id
    <3>1. t[n] = s[k(n)] /\ k(n) \in DOMAIN s /\ k(n) # i
      BY <1>2, <1>3
    <3> QED BY <3>1 DEF IdsIn, QueuedOnce
  <2>2. ASSUME NEW j \in DOMAIN s, s[j].id # s[i].id PROVE s[j].id \in IdsIn(t)
    <3>1. PICK n \in DOMAIN t : k(n) = j
      BY <2>2, <1>4
    <3>2. t[n] = s[j]
      BY <3>1, <1>2
    <3> QED BY <3>2 DEF IdsIn
  <2> QED BY <2>1, <2>2 DEF IdsIn
<1>7. QueuedOnce(t)
  BY <1>2, <1>3, <1>5 DEF QueuedOnce
<1> QED BY <1>6, <1>7 DEF t

\* A build that leaves the list no longer runs, the others do as before.
LEMMA RunningRemoved ==
  ASSUME NEW s \in Seq(Builds), NEW i \in DOMAIN s
  PROVE  /\ RunningIn(RemoveAt(s, i)) \subseteq RunningIn(s)
         /\ RunningIn(s) \ {s[i].id} \subseteq RunningIn(RemoveAt(s, i))
         /\ s[i].status # "IN_PROGRESS" => RunningIn(RemoveAt(s, i)) = RunningIn(s)
<1> DEFINE t == RemoveAt(s, i)
           k(j) == IF j < i THEN j ELSE j + 1
<1>1. DOMAIN s = 1 .. Len(s) /\ Len(s) \in Nat
  BY LenProperties
<1>2. DOMAIN t = 1 .. Len(s) - 1 /\ \A j \in 1 .. Len(s) - 1 : t[j] = s[k(j)]
  BY RemoveAtItems, LenProperties
<1> HIDE DEF t
<1>3. \A j \in DOMAIN t : k(j) \in DOMAIN s /\ k(j) # i
  BY <1>1, <1>2
<1>4. \A j \in DOMAIN s : j # i => \E n \in DOMAIN t : k(n) = j
  <2> SUFFICES ASSUME NEW j \in DOMAIN s, j # i PROVE \E n \in DOMAIN t : k(n) = j
    OBVIOUS
  <2>1. CASE j < i
    <3>1. j \in DOMAIN t /\ k(j) = j
      BY <2>1, <1>1, <1>2
    <3> QED BY <3>1
  <2>2. CASE ~(j < i)
    <3>1. j - 1 \in DOMAIN t /\ k(j - 1) = j
      BY <2>2, <1>1, <1>2
    <3> QED BY <3>1
  <2> QED BY <2>1, <2>2
<1>5. \A j \in DOMAIN t : t[j] = s[k(j)]
  BY <1>2
<1> HIDE DEF k
<1>6. RunningIn(t) \subseteq RunningIn(s)
  BY <1>3, <1>5 DEF RunningIn
<1>7. ASSUME NEW j \in DOMAIN s, s[j].status = "IN_PROGRESS", j # i PROVE s[j].id \in RunningIn(t)
  BY <1>4, <1>5, <1>7 DEF RunningIn
<1>8. RunningIn(s) \ {s[i].id} \subseteq RunningIn(t)
  BY <1>7 DEF RunningIn
<1>9. s[i].status # "IN_PROGRESS" => RunningIn(s) \subseteq RunningIn(t)
  BY <1>7 DEF RunningIn
<1> QED BY <1>6, <1>8, <1>9 DEF t

\* What appending, taking and announcing do to the requests among callbacks.
IsRequest(c) == c.call \in {"start", "declined"}
LEMMA AppendRequests ==
  ASSUME NEW q \in Seq(Callbacks), NEW c \in Callbacks
  PROVE  RequestsIn(Append(q, c)) = RequestsIn(q) \cup (IF IsRequest(c) THEN {c.request} ELSE {})
<1> DEFINE t == Append(q, c)
<1>1. DOMAIN q = 1 .. Len(q) /\ Len(q) \in Nat
  BY LenProperties
<1>2. /\ DOMAIN t = 1 .. Len(q) + 1 /\ t[Len(q) + 1] = c
      /\ \A n \in 1 .. Len(q) : t[n] = q[n]
  BY AppendProperties, LenProperties
<1> HIDE DEF t
<1>3. DOMAIN t = DOMAIN q \cup {Len(q) + 1}
  BY <1>1, <1>2
<1> QED BY <1>1, <1>2, <1>3 DEF RequestsIn, IsRequest, t

LEMMA TakeRequests ==
  ASSUME NEW q \in Seq(Callbacks), q # <<>>
  PROVE  /\ RequestsIn(Tail(q)) \subseteq RequestsIn(q)
         /\ IsRequest(Head(q)) => RequestsIn(q) = RequestsIn(Tail(q)) \cup {Head(q).request}
         /\ ~IsRequest(Head(q)) => RequestsIn(Tail(q)) = RequestsIn(q)
<1> DEFINE t == Tail(q)
<1>1. DOMAIN q = 1 .. Len(q) /\ Len(q) \in Nat /\ Len(q) > 0 /\ Head(q) = q[1]
  BY LenProperties, EmptySeq
<1>2. DOMAIN t = 1 .. Len(q) - 1 /\ \A n \in 1 .. Len(q) - 1 : t[n] = q[n + 1]
  BY HeadTailProperties, LenProperties
<1> HIDE DEF t
<1>3. \A n \in DOMAIN t : n + 1 \in DOMAIN q /\ t[n] = q[n + 1]
  BY <1>1, <1>2
<1>4. ASSUME NEW n \in DOMAIN q, n # 1 PROVE n - 1 \in DOMAIN t /\ t[n - 1] = q[n]
  BY <1>1, <1>2, <1>4
<1>5. 1 \in DOMAIN q
  BY <1>1
<1>6. RequestsIn(t) \subseteq RequestsIn(q)
  BY <1>3 DEF RequestsIn
<1>7. ASSUME NEW n \in DOMAIN q, IsRequest(q[n])
      PROVE  q[n].request \in RequestsIn(t) \/ n = 1
  <2>1. n # 1 => n - 1 \in DOMAIN t /\ t[n - 1] = q[n]
    BY <1>4
  <2> QED BY <2>1, <1>7 DEF RequestsIn, IsRequest
<1>8. IsRequest(q[1]) => q[1].request \in RequestsIn(q)
  BY <1>5 DEF RequestsIn, IsRequest
<1>9. \A r \in RequestsIn(q) : r \in RequestsIn(t) \/ (IsRequest(q[1]) /\ r = q[1].request)
  BY <1>7 DEF RequestsIn, IsRequest
<1> QED BY <1>1, <1>6, <1>8, <1>9 DEF t

LEMMA AnnounceRequests ==
  ASSUME NEW q \in Seq(Callbacks), NEW i
  PROVE  RequestsIn(q \o Announce(i)) = RequestsIn(q)
<1> DEFINE a == Announce(i)
           t == q \o a
<1>1. a \in Seq(Callbacks) /\ \A n \in DOMAIN a : ~IsRequest(a[n])
  <2>1. a \in Seq(Callbacks)
    BY AnnounceType
  <2>2. \A n \in DOMAIN a : a[n] \in {Callback("state"), Callback("processes")}
    BY DEF Announce
  <2> QED BY <2>1, <2>2 DEF IsRequest, Callback
<1> HIDE DEF a
<1>2. DOMAIN q = 1 .. Len(q) /\ Len(q) \in Nat /\ DOMAIN a = 1 .. Len(a) /\ Len(a) \in Nat
  BY <1>1, LenProperties
<1>3. /\ DOMAIN t = 1 .. Len(q) + Len(a)
      /\ \A n \in 1 .. Len(q) + Len(a) : t[n] = IF n <= Len(q) THEN q[n] ELSE a[n - Len(q)]
  BY <1>1, ConcatProperties, LenProperties
<1> HIDE DEF t
<1>4. \A n \in DOMAIN q : n \in DOMAIN t /\ t[n] = q[n]
  BY <1>2, <1>3
<1>5. ASSUME NEW n \in DOMAIN t, n \notin DOMAIN q PROVE ~IsRequest(t[n])
  <2>1. n - Len(q) \in DOMAIN a /\ t[n] = a[n - Len(q)]
    BY <1>2, <1>3, <1>5
  <2> QED BY <1>1, <2>1
<1>6. RequestsIn(t) = RequestsIn(q)
  BY <1>4, <1>5 DEF RequestsIn, IsRequest
<1> QED BY <1>6 DEF t, a

\* Some of what is asked for may end, with its files.
LEMMA AskedShrinks ==
  ASSUME OwnersOK, NEW X, X \subseteq Asked, entries' = entries, made' = made,
         previews' = previews \ X, Waiting' \subseteq Waiting,
         Asked' \subseteq Asked, Asked \ X \subseteq Asked'
  PROVE  OwnersOK'
<1>1. QueuedIds' = QueuedIds
  BY DEF QueuedIds
<1> QED BY <1>1 DEF OwnersOK, PreviewsOwned, QueuedOnce

\* Entries may go, with their files.
LEMMA EntriesShrink ==
  ASSUME OwnersOK, NEW X, QueuedOnce(entries)', QueuedIds' = QueuedIds \ X, made' = made,
         previews' = previews \ X, Waiting' = Waiting, Asked' = Asked
  PROVE  OwnersOK'
<1>1. QueuedIds' \cap Asked' = {} /\ QueuedIds' \cup Asked' \subseteq 1 .. made'
  BY DEF OwnersOK
<1>2. \A r \in Waiting' : ~r.queued => r.id \notin previews'
  BY DEF OwnersOK
<1>3. PreviewsOwned'
  BY DEF OwnersOK, PreviewsOwned
<1> QED BY <1>1, <1>2, <1>3 DEF OwnersOK

\* Nothing changes that owners are about.
ownerVars == <<entries, made, pending, idle, started, previews>>
LEMMA OwnersStay ==
  ASSUME OwnersOK, UNCHANGED ownerVars
  PROVE  OwnersOK'
BY DEF OwnersOK, ownerVars, QueuedIds, Asked, Waiting, RequestsIn, PreviewsOwned, QueuedOnce, Running

\* Nobody else waits when the queued callbacks carry the same requests.
LEMMA WaitingStays ==
  ASSUME pending' = pending, RequestsIn(idle') = RequestsIn(idle), RunningIn(started') = RunningIn(started)
  PROVE  Waiting' = Waiting /\ Asked' = Asked
<1>1. Waiting' = Waiting
  BY DEF Waiting, RequestsIn
<1>2. Asked' = {r.id : r \in Waiting'} \cup RunningIn(started')
  BY DEF Asked, Waiting, RequestsIn, RunningIn, Running
<1> QED BY <1>1, <1>2, AskedParts

\* Who is asked for stays asked for.
LEMMA NobodyGoes ==
  ASSUME OwnersOK, entries' = entries, made' = made, previews' = previews,
         Waiting' \subseteq Waiting, Asked' = Asked
  PROVE  OwnersOK'
<1>1. QueuedIds' = QueuedIds
  BY DEF QueuedIds
<1>2. \A r \in Waiting' : ~r.queued => r.id \notin previews'
  BY DEF OwnersOK
<1> QED BY <1>1, <1>2 DEF OwnersOK, PreviewsOwned, QueuedOnce

\* A request that is to be started waits.
LEMMA StartWaits ==
  ASSUME IdleOK, NEW r \in Requests, StartProjectBuild(r)
  PROVE  Waiting' = Waiting \cup {r}
<1>1. Queued("start", r) \in Callbacks /\ IsRequest(Queued("start", r)) /\ Queued("start", r).request = r
  BY CallbackTypes DEF IsRequest, Queued
<1>2. CASE Authorizes
  BY <1>2 DEF StartProjectBuild, Waiting, RequestsIn
<1>3. CASE ~Authorizes
  <2>1. idle' = Append(idle, Queued("start", r)) /\ pending' = pending
    BY <1>3 DEF StartProjectBuild
  <2>2. RequestsIn(idle') = RequestsIn(idle) \cup {r}
    BY <1>1, <2>1, AppendRequests DEF IdleOK
  <2> QED BY <2>1, <2>2 DEF Waiting
<1> QED BY <1>2, <1>3

\* The first item of a list is taken, two items are exchanged.
LEMMA TakenIds ==
  ASSUME NEW S, NEW s \in Seq(S), s # <<>>, QueuedOnce(s)
  PROVE  IdsIn(Tail(s)) = IdsIn(s) \ {Head(s).id} /\ QueuedOnce(Tail(s))
<1> DEFINE t == Tail(s)
<1>1. DOMAIN s = 1 .. Len(s) /\ Len(s) \in Nat /\ Len(s) > 0 /\ Head(s) = s[1]
  BY LenProperties, EmptySeq
<1>2. DOMAIN t = 1 .. Len(s) - 1 /\ \A n \in 1 .. Len(s) - 1 : t[n] = s[n + 1]
  BY HeadTailProperties, LenProperties
<1> HIDE DEF t
<1>3. \A n \in DOMAIN t : n + 1 \in DOMAIN s /\ n + 1 # 1 /\ t[n] = s[n + 1]
  BY <1>1, <1>2
<1>4. ASSUME NEW n \in DOMAIN s, n # 1 PROVE n - 1 \in DOMAIN t /\ t[n - 1] = s[n]
  BY <1>1, <1>2, <1>4
<1>5. 1 \in DOMAIN s
  BY <1>1
<1>6. ASSUME NEW n \in DOMAIN t PROVE t[n].id \in IdsIn(s) /\ t[n].id # s[1].id
  BY <1>3, <1>5, <1>6 DEF IdsIn, QueuedOnce
<1>7. ASSUME NEW n \in DOMAIN s, s[n].id # s[1].id PROVE s[n].id \in IdsIn(t)
  <2>1. n - 1 \in DOMAIN t /\ t[n - 1] = s[n]
    BY <1>4, <1>7
  <2> QED BY <2>1 DEF IdsIn
<1>8. IdsIn(t) = IdsIn(s) \ {s[1].id}
  BY <1>6, <1>7 DEF IdsIn
<1>9. \A m, n \in DOMAIN t : m + 1 = n + 1 => m = n
  BY <1>2
<1>10. QueuedOnce(t)
  BY <1>3, <1>9 DEF QueuedOnce
<1> QED BY <1>1, <1>8, <1>10 DEF t

LEMMA SwappedIds ==
  ASSUME NEW S, NEW s \in Seq(S), NEW i \in DOMAIN s, i < Len(s), QueuedOnce(s), NEW t,
         t = [s EXCEPT ![i] = s[i + 1], ![i + 1] = s[i]]
  PROVE  IdsIn(t) = IdsIn(s) /\ QueuedOnce(t)
<1> DEFINE k(j) == IF j = i THEN i + 1 ELSE IF j = i + 1 THEN i ELSE j
<1>1. DOMAIN s = 1 .. Len(s) /\ Len(s) \in Nat
  BY LenProperties
<1>2. i \in DOMAIN s /\ i + 1 \in DOMAIN s /\ i # i + 1
  BY <1>1
<1>3. DOMAIN t = DOMAIN s /\ \A j \in DOMAIN s : k(j) \in DOMAIN s /\ k(k(j)) = j /\ t[j] = s[k(j)]
  BY <1>2
<1> HIDE DEF k
<1>4. IdsIn(t) = IdsIn(s)
  <2>1. \A j \in DOMAIN s : t[j].id = s[k(j)].id /\ t[k(j)].id = s[j].id
    BY <1>3
  <2> QED BY <1>3, <2>1 DEF IdsIn
<1>5. QueuedOnce(t)
  <2>1. \A m, n \in DOMAIN s : k(m) = k(n) => m = n
    BY <1>3
  <2> QED BY <1>3, <2>1 DEF QueuedOnce
<1> QED BY <1>4, <1>5

\* Each step keeps an owner for every file, whichever of the two halves it changes.
LEMMA OwnersStep == TypeOK /\ OwnersOK /\ [Next]_vars => OwnersOK'
<1> SUFFICES ASSUME TypeOK, OwnersOK, [Next]_vars PROVE OwnersOK'
  OBVIOUS
<1>ok. QueueOK /\ IdleOK /\ StartedOK
  BY TypeParts
<1> USE <1>ok
<1>ids. QueuedIds = IdsIn(entries) /\ QueuedIds' = IdsIn(entries')
  BY DEF QueuedIds, IdsIn
<1>asked. Asked = {r.id : r \in Waiting} \cup RunningIn(started)
          /\ Asked' = {r.id : r \in Waiting'} \cup RunningIn(started')
  BY DEF Asked, Waiting, RequestsIn, RunningIn, Running
<1>fresh. ASSUME made < MaxRequests
          PROVE  /\ made \in Nat /\ made + 1 \notin QueuedIds \cup Asked \cup previews
                 /\ 1 .. made + 1 = (1 .. made) \cup {made + 1}
  BY <1>fresh, QueueAssumption DEF QueueOK, OwnersOK, PreviewsOwned
<1>1. ASSUME NEW p \in Projects, Add(p) PROVE OwnersOK'
  <2> DEFINE r == Request(p, TRUE)
  <2>1. made < MaxRequests /\ entries' = Append(entries, r) /\ made' = made + 1
        /\ previews' = previews \cup {made + 1} /\ UNCHANGED <<pending, idle, started>>
    BY <1>1 DEF Add
  <2>2. r \in Requests /\ r.id = made + 1 /\ r.queued
    BY <2>1, <1>fresh, RequestType DEF Request
  <2> HIDE DEF r
  <2>3. DOMAIN entries = 1 .. Len(entries) /\ Len(entries) \in Nat
        /\ DOMAIN entries' = 1 .. Len(entries) + 1
        /\ entries'[Len(entries) + 1] = r /\ \A i \in 1 .. Len(entries) : entries'[i] = entries[i]
    BY <2>1, <2>2, AppendProperties, LenProperties DEF QueueOK
  <2>4. DOMAIN entries' = DOMAIN entries \cup {Len(entries) + 1}
    BY <2>3
  <2>5. QueuedIds' = QueuedIds \cup {made + 1}
    BY <2>2, <2>3, <2>4, <1>ids DEF IdsIn
  <2>6. \A i \in DOMAIN entries : entries[i].id # made + 1
    BY <2>1, <1>fresh, <1>ids DEF IdsIn
  <2>7. QueuedOnce(entries)'
    BY <2>2, <2>3, <2>4, <2>6 DEF OwnersOK, QueuedOnce
  <2>8. Waiting' = Waiting /\ Asked' = Asked
    BY <2>1, WaitingStays
  <2>9. \A q \in Waiting : q.id # made + 1
    BY <2>1, <1>fresh, AskedParts
  <2> QED BY <2>1, <2>5, <2>7, <2>8, <2>9, <1>fresh DEF OwnersOK, PreviewsOwned
<1>2. ASSUME NEW p \in Projects, Build(p) PROVE OwnersOK'
  <2> DEFINE r == Request(p, FALSE)
  <2>1. made < MaxRequests /\ StartProjectBuild(r) /\ made' = made + 1
        /\ UNCHANGED <<entries, previews, started>>
    BY <1>2 DEF Build
  <2>2. r \in Requests /\ r.id = made + 1 /\ ~r.queued
    BY <2>1, <1>fresh, RequestType DEF Request
  <2> HIDE DEF r
  <2>3. Waiting' = Waiting \cup {r}
    BY <2>1, <2>2, StartWaits
  <2>4. Asked' = Asked \cup {made + 1}
    BY <2>1, <2>2, <2>3, <1>asked
  <2>5. QueuedIds' = QueuedIds /\ QueuedOnce(entries)'
    BY <2>1, <1>ids DEF OwnersOK, QueuedOnce
  <2> QED BY <2>1, <2>2, <2>3, <2>4, <2>5, <1>fresh DEF OwnersOK, PreviewsOwned
<1>3. ASSUME NEW i \in DOMAIN entries, RemoveEntry(i) PROVE OwnersOK'
  <2>1. QueuedOnce(entries)' /\ QueuedIds' = QueuedIds \ {entries[i].id}
    BY <1>3, <1>ids, RemovedIds DEF RemoveEntry, QueueOK, OwnersOK
  <2>2. Waiting' = Waiting /\ Asked' = Asked
    BY <1>3, WaitingStays DEF RemoveEntry
  <2> QED BY <1>3, <2>1, <2>2, EntriesShrink DEF RemoveEntry
<1>4. ASSUME NEW i \in DOMAIN entries, Move(i) PROVE OwnersOK'
  <2>1. QueuedOnce(entries') /\ IdsIn(entries') = IdsIn(entries)
    <3>1. i < Len(entries) /\ entries' = [entries EXCEPT ![i] = entries[i + 1], ![i + 1] = entries[i]]
      BY <1>4 DEF Move
    <3> QED BY <3>1, SwappedIds DEF QueueOK, OwnersOK
  <2>2. Waiting' = Waiting /\ Asked' = Asked /\ previews' = previews \ {} /\ made' = made
    BY <1>4, WaitingStays DEF Move
  <2>3. QueuedOnce(entries)' /\ QueuedIds' = QueuedIds \ {}
    BY <2>1, <1>ids DEF QueuedOnce
  <2> QED BY <2>2, <2>3, EntriesShrink
<1>5. CASE Clear
  <2>1. QueuedOnce(entries)' /\ QueuedIds' = QueuedIds \ QueuedIds
    BY <1>5 DEF Clear, QueuedOnce, QueuedIds
  <2>2. Waiting' = Waiting /\ Asked' = Asked
    BY <1>5, WaitingStays DEF Clear
  <2> QED BY <1>5, <2>1, <2>2, EntriesShrink DEF Clear
<1>6. CASE Start
  BY <1>6, OwnersStay DEF Start, ownerVars
<1>7. CASE Pause
  BY <1>7, OwnersStay DEF Pause, ownerVars
<1>8. ASSUME NEW i \in DOMAIN started, CancelBuild(i) PROVE OwnersOK'
  <2>1. RunningIn(started') \subseteq RunningIn(started)
        /\ RunningIn(started) \ {started[i].id} \subseteq RunningIn(started')
    BY <1>8, RunningRemoved DEF CancelBuild, StartedOK
  <2>2. Waiting' = Waiting
    BY <1>8, AnnounceRequests DEF CancelBuild, Waiting, IdleOK
  <2>3. {started[i].id} \subseteq Asked
    BY <1>8, <1>asked DEF CancelBuild, Running, RunningIn
  <2>4. Asked' \subseteq Asked /\ Asked \ {started[i].id} \subseteq Asked'
    BY <2>1, <2>2, <1>asked
  <2> QED BY <1>8, <2>2, <2>3, <2>4, AskedShrinks DEF CancelBuild
<1>9. ASSUME NEW i \in DOMAIN started, Dismiss(i) PROVE OwnersOK'
  <2>1. RunningIn(started') = RunningIn(started)
    BY <1>9, RunningRemoved DEF Dismiss, StartedOK
  <2>2. RequestsIn(idle') = RequestsIn(idle)
    BY <1>9, CallbackTypes, AppendRequests DEF Dismiss, IdleOK, IsRequest, Callback
  <2>3. Waiting' = Waiting /\ Asked' = Asked
    BY <1>9, <2>1, <2>2, WaitingStays DEF Dismiss
  <2> QED BY <1>9, <2>3, NobodyGoes DEF Dismiss
<1>10. CASE CheckNothing
  BY <1>10, OwnersStay DEF CheckNothing, ownerVars
<1>11. CASE CheckSkips
  <2>1. entries # <<>> /\ entries' = Tail(entries) /\ previews' = previews \ {Head(entries).id}
        /\ UNCHANGED <<made, pending, idle, started>>
    BY <1>11 DEF CheckSkips, CanContinue
  <2>2. QueuedOnce(entries)' /\ QueuedIds' = QueuedIds \ {Head(entries).id}
    BY <2>1, <1>ids, TakenIds DEF QueueOK, OwnersOK
  <2>3. Waiting' = Waiting /\ Asked' = Asked
    BY <2>1, WaitingStays
  <2> QED BY <2>1, <2>2, <2>3, EntriesShrink
<1>12. CASE CheckPauses
  BY <1>12, OwnersStay DEF CheckPauses, ownerVars
<1>13. CASE CheckWaits
  BY <1>13, OwnersStay DEF CheckWaits, ownerVars
<1>14. CASE CheckStarts
  <2> DEFINE r == Head(entries)
  <2>1. entries # <<>> /\ entries' = Tail(entries) /\ StartProjectBuild(r)
        /\ UNCHANGED <<made, started, previews>>
    BY <1>14 DEF CheckStarts, CanContinue
  <2>2. r \in Requests /\ r.queued /\ r.id \in QueuedIds
    <3>1. 1 \in DOMAIN entries /\ r = entries[1]
      BY <2>1, LenProperties, EmptySeq DEF QueueOK
    <3>2. r \in Requests
      BY <2>1, HeadTailProperties DEF QueueOK
    <3> QED BY <3>1, <3>2 DEF OwnersOK, QueuedOnce, QueuedIds
  <2>3. QueuedOnce(entries)' /\ QueuedIds' = QueuedIds \ {r.id}
    BY <2>1, <1>ids, TakenIds DEF QueueOK, OwnersOK
  <2> HIDE DEF r
  <2>4. Waiting' = Waiting \cup {r}
    BY <2>1, <2>2, StartWaits
  <2>5. Asked' = Asked \cup {r.id}
    BY <2>1, <2>4, <1>asked
  <2> QED BY <2>1, <2>2, <2>3, <2>4, <2>5 DEF OwnersOK, PreviewsOwned
<1>15. CASE Retry
  BY <1>15, OwnersStay DEF Retry, ownerVars
<1>16. CASE OnProcessesChanged
  <2>1. RunningIn(started') = RunningIn(started)
    <3>1. DOMAIN started' = DOMAIN started /\ \A i \in DOMAIN started :
            started'[i].id = started[i].id /\ started'[i].status = started[i].status
      <4>1. \A b \in Builds : [b EXCEPT !.observed = TRUE].id = b.id /\ [b EXCEPT !.observed = TRUE].status = b.status
        BY DEF Builds
      <4>2. \A i \in DOMAIN started : started[i] \in Builds
        BY LenProperties, ElementOfSeq DEF StartedOK
      <4> QED BY <1>16, <4>1, <4>2 DEF OnProcessesChanged
    <3> QED BY <3>1 DEF RunningIn
  <2>2. RequestsIn(idle') = RequestsIn(idle)
    BY <1>16, TakeRequests DEF OnProcessesChanged, IsNext, IsRequest, IdleOK
  <2>3. Waiting' = Waiting /\ Asked' = Asked
    BY <1>16, <2>1, <2>2, WaitingStays DEF OnProcessesChanged
  <2> QED BY <1>16, <2>3, NobodyGoes DEF OnProcessesChanged
<1>17. CASE OnBuildStateChanged
  <2>1. RunningIn(started') = RunningIn(started)
    <3>1. DOMAIN started' = DOMAIN started /\ \A i \in DOMAIN started :
            started'[i].id = started[i].id /\ started'[i].status = started[i].status
      <4>1. \A b \in Builds : [b EXCEPT !.handled = TRUE].id = b.id /\ [b EXCEPT !.handled = TRUE].status = b.status
        BY DEF Builds
      <4>2. \A i \in DOMAIN started : started[i] \in Builds
        BY LenProperties, ElementOfSeq DEF StartedOK
      <4> QED BY <1>17, <4>1, <4>2 DEF OnBuildStateChanged
    <3> QED BY <3>1 DEF RunningIn
  <2>2. RequestsIn(idle') = RequestsIn(idle)
    BY <1>17, TakeRequests DEF OnBuildStateChanged, IsNext, IsRequest, IdleOK
  <2>3. Waiting' = Waiting /\ Asked' = Asked
    BY <1>17, <2>1, <2>2, WaitingStays DEF OnBuildStateChanged
  <2> QED BY <1>17, <2>3, NobodyGoes DEF OnBuildStateChanged
<1>18. CASE BuildStarts
  <2> DEFINE r == Head(idle).request
             b == [id |-> r.id, project |-> r.project, queued |-> r.queued,
                   status |-> "IN_PROGRESS", observed |-> FALSE, handled |-> FALSE]
  <2>1. idle # <<>> /\ IsRequest(Head(idle)) /\ Head(idle) \in Callbacks /\ Tail(idle) \in Seq(Callbacks)
    BY <1>18, HeadTailProperties DEF BuildStarts, IsNext, IsRequest, IdleOK
  <2>2. r \in Requests
    BY <2>1, CallbackFields DEF IsRequest
  <2>3. b \in Builds /\ b.id = r.id /\ b.status = "IN_PROGRESS"
    BY <2>2 DEF Requests, Builds
  <2>4. started' = Append(started, b) /\ idle' = Append(Tail(idle), Callback("processes"))
        /\ UNCHANGED <<entries, made, pending, previews>>
    BY <1>18 DEF BuildStarts
  <2> HIDE DEF b
  <2>5. RunningIn(started') = RunningIn(started) \cup {r.id}
    <3>1. /\ DOMAIN started = 1 .. Len(started) /\ Len(started) \in Nat
          /\ DOMAIN started' = 1 .. Len(started) + 1
          /\ started'[Len(started) + 1] = b /\ \A i \in 1 .. Len(started) : started'[i] = started[i]
      BY <2>3, <2>4, AppendProperties, LenProperties DEF StartedOK
    <3>2. DOMAIN started' = DOMAIN started \cup {Len(started) + 1}
      BY <3>1
    <3> QED BY <2>3, <3>1, <3>2 DEF RunningIn
  <2>6. RequestsIn(idle') = RequestsIn(Tail(idle))
    BY <2>1, <2>4, CallbackTypes, AppendRequests DEF IsRequest, Callback
  <2>7. RequestsIn(idle) = RequestsIn(idle') \cup {r}
    BY <2>1, <2>6, TakeRequests DEF IdleOK
  <2>8. Waiting' \subseteq Waiting /\ Waiting = Waiting' \cup {r}
    BY <2>4, <2>7 DEF Waiting
  <2>9. Asked' = Asked
    BY <2>5, <2>8, <1>asked
  <2> QED BY <2>4, <2>8, <2>9, NobodyGoes
<1>19. CASE BuildDoesNotStart
  <2> DEFINE r == Head(idle).request
  <2>1. idle # <<>> /\ IsRequest(Head(idle)) /\ Head(idle) \in Callbacks
    BY <1>19, HeadTailProperties DEF BuildDoesNotStart, IsNext, IsRequest, IdleOK
  <2>2. idle' = Tail(idle) /\ UNCHANGED <<entries, made, pending, started>>
        /\ previews' = IF r.queued THEN previews \ {r.id} ELSE previews
    BY <1>19 DEF BuildDoesNotStart
  <2>3. RequestsIn(idle) = RequestsIn(idle') \cup {r}
    BY <2>1, <2>2, TakeRequests DEF IdleOK
  <2>4. Waiting' \subseteq Waiting /\ Waiting = Waiting' \cup {r}
    BY <2>2, <2>3 DEF Waiting
  <2>5. Asked' \subseteq Asked /\ Asked \ {r.id} \subseteq Asked' /\ {r.id} \subseteq Asked
    BY <2>2, <2>4, <1>asked
  <2>6. previews' = previews \ {r.id}
    BY <2>2, <2>4 DEF OwnersOK
  <2> QED BY <2>2, <2>4, <2>5, <2>6, AskedShrinks
<1>20. CASE BuildEnds
  <2> DEFINE id == Head(idle).id
  <2>1. idle # <<>> /\ ~IsRequest(Head(idle)) /\ Tail(idle) \in Seq(Callbacks)
    BY <1>20, HeadTailProperties DEF BuildEnds, IsNext, IsRequest, IdleOK
  <2>2. RequestsIn(Tail(idle)) = RequestsIn(idle)
    BY <2>1, TakeRequests DEF IdleOK
  <2>3. CASE idle' = Tail(idle) /\ started' = started /\ previews' = previews
    <3>1. Waiting' = Waiting /\ Asked' = Asked
      BY <1>20, <2>2, <2>3, WaitingStays DEF BuildEnds
    <3> QED BY <1>20, <2>3, <3>1, NobodyGoes DEF BuildEnds
  <2>4. ASSUME NEW i \in DOMAIN started, started[i].id = id, Running(i),
               started' = [started EXCEPT ![i].status = "FAILED"] \/ started' = RemoveAt(started, i),
               idle' = Tail(idle) \o Announce(i), previews' = previews \ {id}
        PROVE  OwnersOK'
    <3>1. RunningIn(started') \subseteq RunningIn(started) /\ RunningIn(started) \ {id} \subseteq RunningIn(started')
      <4>1. CASE started' = RemoveAt(started, i)
        BY <2>4, <4>1, RunningRemoved DEF StartedOK
      <4>2. CASE started' = [started EXCEPT ![i].status = "FAILED"]
        <5>1. DOMAIN started' = DOMAIN started /\ \A j \in DOMAIN started : j # i => started'[j] = started[j]
          BY <4>2
        <5>2. started'[i].status = "FAILED"
          <6>1. started[i] \in Builds
            BY LenProperties, ElementOfSeq DEF StartedOK
          <6> QED BY <4>2, <6>1 DEF Builds
        <5> QED BY <2>4, <5>1, <5>2 DEF RunningIn
      <4> QED BY <2>4, <4>1, <4>2
    <3>2. RequestsIn(idle') = RequestsIn(idle)
      BY <2>1, <2>2, <2>4, AnnounceRequests
    <3>3. UNCHANGED <<entries, made, pending>>
      BY <1>20 DEF BuildEnds
    <3>4. Waiting' = Waiting
      BY <3>2, <3>3 DEF Waiting
    <3>5. Asked' \subseteq Asked /\ Asked \ {id} \subseteq Asked' /\ {id} \subseteq Asked
      BY <2>4, <3>1, <3>4, <1>asked DEF RunningIn, Running
    <3> QED BY <2>4, <3>3, <3>4, <3>5, AskedShrinks
  <2> QED BY <1>20, <2>3, <2>4 DEF BuildEnds
<1>21. ASSUME NEW r \in pending, Authorized(r) PROVE OwnersOK'
  <2>1. PICK answer \in {"start", "declined"} : idle' = Append(idle, Queued(answer, r))
    BY <1>21 DEF Authorized
  <2>2. Queued(answer, r) \in Callbacks /\ IsRequest(Queued(answer, r)) /\ Queued(answer, r).request = r
    BY CallbackTypes DEF QueueOK, IsRequest, Queued
  <2>3. RequestsIn(idle') = RequestsIn(idle) \cup {r}
    BY <2>1, <2>2, AppendRequests DEF IdleOK
  <2>4. Waiting' = Waiting
    BY <1>21, <2>3 DEF Authorized, Waiting
  <2>5. Asked' = Asked
    BY <1>21, <2>4, <1>asked DEF Authorized
  <2> QED BY <1>21, <2>4, <2>5, NobodyGoes DEF Authorized
<1>22. ASSUME NEW i \in DOMAIN started, StepsEnd(i) PROVE OwnersOK'
  <2>1. started[i].id \in 1 .. MaxRequests
    <3>1. started[i] \in Builds
      BY LenProperties, ElementOfSeq DEF StartedOK
    <3> QED BY <3>1 DEF Builds
  <2>2. PICK status \in {"COMPLETED", "FAILED"} :
          idle' = Append(idle, [call |-> "end", id |-> started[i].id, status |-> status])
    BY <1>22 DEF StepsEnd
  <2>3. RequestsIn(idle') = RequestsIn(idle)
    BY <2>1, <2>2, CallbackTypes, AppendRequests DEF IdleOK, IsRequest
  <2>4. Waiting' = Waiting /\ Asked' = Asked
    BY <1>22, <2>3, WaitingStays DEF StepsEnd
  <2> QED BY <1>22, <2>4, NobodyGoes DEF StepsEnd
<1>23. CASE OtherOperation
  BY <1>23, OwnersStay DEF OtherOperation, ownerVars
<1>24. CASE UNCHANGED vars
  BY <1>24, OwnersStay DEF vars, ownerVars
<1> QED
  BY <1>1, <1>2, <1>3, <1>4, <1>5, <1>6, <1>7, <1>8, <1>9, <1>10, <1>11, <1>12, <1>13, <1>14, <1>15, <1>16, <1>17, <1>18, <1>19, <1>20, <1>21, <1>22, <1>23, <1>24 DEF Next, User, Check, Dispatch

\* There are no files at first.
LEMMA InitOwners == Init => OwnersOK
<1> SUFFICES ASSUME Init PROVE OwnersOK
  OBVIOUS
<1>1. QueuedIds = {} /\ Asked = {} /\ Waiting = {} /\ QueuedOnce(entries)
  BY DEF Init, QueuedIds, Asked, Waiting, RequestsIn, QueuedOnce, Running
<1> QED BY <1>1 DEF Init, OwnersOK, PreviewsOwned

\* Preview files belong to a build that is queued, about to start or in
\* progress, and a queued build has its files, whoever removed, canceled,
\* declined or failed what in the meantime.
THEOREM FilesHaveOwners == Spec => []PreviewsOwned
<1>1. OwnersOK => PreviewsOwned
  BY DEF OwnersOK
<1> QED BY <1>1, InitOwners, OwnersStep, TypeCorrect, PTL DEF Spec

-----------------------------------------------------------------------------
(* A failed build holds the queue.                                         *)

\* News of a build is among the callbacks.
News(q) == \E n \in DOMAIN q : q[n].call = "state"

\* News stays queued when callbacks are added, and when another one is taken;
\* the end of an observed build is news.
LEMMA AppendNews ==
  ASSUME NEW q \in Seq(Callbacks), NEW c \in Callbacks
  PROVE  News(q) => News(Append(q, c))
<1> DEFINE t == Append(q, c)
<1>1. DOMAIN q = 1 .. Len(q) /\ Len(q) \in Nat
  BY LenProperties
<1>2. /\ DOMAIN t = 1 .. Len(q) + 1
      /\ \A n \in 1 .. Len(q) : t[n] = q[n]
  BY AppendProperties, LenProperties
<1> HIDE DEF t
<1>3. \A n \in DOMAIN q : n \in DOMAIN t /\ t[n] = q[n]
  BY <1>1, <1>2
<1> QED BY <1>3 DEF News, t

LEMMA TakeNews ==
  ASSUME NEW q \in Seq(Callbacks), q # <<>>, Head(q).call # "state"
  PROVE  News(q) => News(Tail(q))
<1> DEFINE t == Tail(q)
<1>1. DOMAIN q = 1 .. Len(q) /\ Len(q) \in Nat /\ Len(q) > 0 /\ Head(q) = q[1]
  BY LenProperties, EmptySeq
<1>2. DOMAIN t = 1 .. Len(q) - 1 /\ \A n \in 1 .. Len(q) - 1 : t[n] = q[n + 1]
  BY HeadTailProperties, LenProperties
<1> HIDE DEF t
<1>3. \A n \in DOMAIN q : n = 1 \/ (n - 1 \in DOMAIN t /\ t[n - 1] = q[n])
  BY <1>1, <1>2
<1> QED BY <1>1, <1>3 DEF News, t

LEMMA AnnounceNews ==
  ASSUME NEW q \in Seq(Callbacks), NEW i
  PROVE  /\ News(q) => News(q \o Announce(i))
         /\ started[i].observed => News(q \o Announce(i))
<1> DEFINE a == Announce(i)
           t == q \o a
<1>1. a \in Seq(Callbacks) /\ Len(a) \in Nat /\ Len(a) > 0
  BY AnnounceType
<1>2. started[i].observed => a[1].call = "state"
  BY DEF Announce, Callback
<1> HIDE DEF a
<1>3. DOMAIN q = 1 .. Len(q) /\ Len(q) \in Nat /\ DOMAIN a = 1 .. Len(a)
  BY <1>1, LenProperties
<1>4. /\ DOMAIN t = 1 .. Len(q) + Len(a)
      /\ \A n \in 1 .. Len(q) + Len(a) : t[n] = IF n <= Len(q) THEN q[n] ELSE a[n - Len(q)]
  BY <1>1, ConcatProperties, LenProperties
<1> HIDE DEF t
<1>5. \A n \in DOMAIN q : n \in DOMAIN t /\ t[n] = q[n]
  BY <1>1, <1>3, <1>4
<1>6. Len(q) + 1 \in DOMAIN t /\ t[Len(q) + 1] = a[1]
  BY <1>1, <1>3, <1>4
<1> QED BY <1>2, <1>5, <1>6 DEF News, t, a

\* A listed build has failed and the queue has not handled that.
Unhandled == \E i \in DOMAIN started : started[i].status = "FAILED" /\ ~started[i].handled

\* While a failure holds the queue there is something to hold, and either the
\* queue is paused, or it was not told of the failure yet.
HeldOK ==
  /\ \A i \in DOMAIN started : Running(i) => ~started[i].handled
  /\ held => PauseOnFailure /\ entries # <<>> /\ (paused \/ (Unhandled /\ Untold))

\* Failed builds that stay in the list, in their order, stay what they are to
\* the queue.
LEMMA FailedStay ==
  ASSUME NEW k,
         \A i \in DOMAIN started : started[i].status = "FAILED" => k[i] \in DOMAIN started' /\ started'[k[i]] = started[i],
         \A i, j \in DOMAIN started :
           j < i /\ started[i].status = "FAILED" /\ started[j].status = "FAILED" => k[j] < k[i],
         News(idle) => News(idle')
  PROVE  (Unhandled => Unhandled') /\ (Untold => Untold')
<1>1. Unhandled => Unhandled'
  BY DEF Unhandled
<1>2. ASSUME NEW i \in DOMAIN started, started[i].status = "FAILED", ~started[i].observed PROVE Untold'
  BY <1>2 DEF Untold
<1>3. ASSUME NEW i \in DOMAIN started, NEW j \in DOMAIN started, j < i, Failed(j), Failed(i), ~started[i].handled
      PROVE  Untold'
  <2>1. /\ k[i] \in DOMAIN started' /\ k[j] \in DOMAIN started' /\ k[j] < k[i]
        /\ started'[k[i]] = started[i] /\ started'[k[j]] = started[j]
    BY <1>3 DEF Failed
  <2> QED BY <1>3, <2>1 DEF Untold, Failed
<1>4. News(idle') => Untold'
  BY DEF News, Untold
<1> QED BY <1>1, <1>2, <1>3, <1>4 DEF Untold, News

\* The list of builds does not change, and no news is taken.
LEMMA ListStays ==
  ASSUME StartedOK, started' = started, News(idle) => News(idle')
  PROVE  (Unhandled => Unhandled') /\ (Untold => Untold')
<1> DEFINE k == [i \in DOMAIN started |-> i]
<1>1. \A i \in DOMAIN started : k[i] = i
  OBVIOUS
<1> HIDE DEF k
<1> QED BY <1>1, FailedStay

\* A build that has not failed leaves the list, and no news is taken.
LEMMA ListWithout ==
  ASSUME StartedOK, NEW n \in DOMAIN started, Running(n), started' = RemoveAt(started, n), News(idle) => News(idle')
  PROVE  /\ (Unhandled => Unhandled') /\ (Untold => Untold')
         /\ (\A i \in DOMAIN started : Running(i) => ~started[i].handled)
              => (\A i \in DOMAIN started' : Running(i)' => ~started'[i].handled)
<1> DEFINE k == [i \in DOMAIN started |-> IF i < n THEN i ELSE i - 1]
<1>1. DOMAIN started = 1 .. Len(started) /\ Len(started) \in Nat
  BY LenProperties DEF StartedOK
<1>2. /\ DOMAIN started' = 1 .. Len(started) - 1
      /\ \A j \in 1 .. Len(started) - 1 : started'[j] = started[IF j < n THEN j ELSE j + 1]
  <2>1. /\ RemoveAt(started, n) \in Seq(Builds) /\ Len(RemoveAt(started, n)) = Len(started) - 1
        /\ \A j \in 1 .. Len(started) - 1 : RemoveAt(started, n)[j] = started[IF j < n THEN j ELSE j + 1]
    BY RemoveAtItems DEF StartedOK
  <2> QED BY <2>1, LenProperties
<1>3. \A i \in DOMAIN started : k[i] = IF i < n THEN i ELSE i - 1
  OBVIOUS
<1> HIDE DEF k
<1>4. ASSUME NEW i \in DOMAIN started, started[i].status = "FAILED"
      PROVE  k[i] \in DOMAIN started' /\ started'[k[i]] = started[i]
  <2>1. i # n
    BY <1>4 DEF Running
  <2>2. CASE i < n
    BY <2>2, <1>1, <1>2, <1>3
  <2>3. CASE ~(i < n)
    <3>1. i - 1 \in 1 .. Len(started) - 1 /\ ~(i - 1 < n) /\ k[i] = i - 1
      BY <2>1, <2>3, <1>1, <1>3
    <3> QED BY <3>1, <1>1, <1>2
  <2> QED BY <2>2, <2>3
<1>5. ASSUME NEW i \in DOMAIN started, NEW j \in DOMAIN started, j < i,
             started[i].status = "FAILED", started[j].status = "FAILED"
      PROVE  k[j] < k[i]
  <2>1. i # n /\ j # n
    BY <1>5 DEF Running
  <2> QED BY <2>1, <1>1, <1>3, <1>5
<1>6. (Unhandled => Unhandled') /\ (Untold => Untold')
  BY <1>4, <1>5, FailedStay
<1>7. \A j \in DOMAIN started' : \E i \in DOMAIN started : started'[j] = started[i]
  BY <1>1, <1>2
<1> QED BY <1>6, <1>7 DEF Running

\* Each step keeps it so: whoever takes news either pauses the queue, or finds
\* another failed build first.
LEMMA HeldStep == TypeOK /\ HeldOK /\ [Next]_vars => HeldOK'
<1> SUFFICES ASSUME TypeOK, HeldOK, [Next]_vars PROVE HeldOK'
  OBVIOUS
<1>ok. QueueOK /\ FlagsOK /\ IdleOK /\ StartedOK
  BY TypeParts
<1> USE <1>ok
\* Steps that leave callbacks and builds alone, or end what is held.
<1>still. ASSUME UNCHANGED <<idle, started>>, paused => paused', held' => held /\ entries' # <<>>
          PROVE  HeldOK'
  <2>1. Unhandled' = Unhandled /\ Untold' = Untold
    BY <1>still DEF Unhandled, Untold, Failed
  <2>2. \A i \in DOMAIN started' : Running(i)' => ~started'[i].handled
    BY <1>still DEF HeldOK, Running
  <2> QED BY <1>still, <2>1, <2>2 DEF HeldOK
\* Steps that add callbacks or take one that is no news, and leave builds alone.
<1>calls. ASSUME started' = started, News(idle) => News(idle'), paused => paused', held' => held /\ entries' # <<>>
          PROVE  HeldOK'
  <2>1. (Unhandled => Unhandled') /\ (Untold => Untold')
    BY <1>calls, ListStays
  <2>2. \A i \in DOMAIN started' : Running(i)' => ~started'[i].handled
    BY <1>calls DEF HeldOK, Running
  <2> QED BY <1>calls, <2>1, <2>2 DEF HeldOK
<1>some. held => entries # <<>>
  BY DEF HeldOK
<1>starts. ASSUME NEW r \in Requests, StartProjectBuild(r) PROVE News(idle) => News(idle')
  <2>1. Queued("start", r) \in Callbacks
    BY CallbackTypes
  <2>2. idle' = idle \/ idle' = Append(idle, Queued("start", r))
    BY <1>starts DEF StartProjectBuild
  <2>3. News(idle) => News(Append(idle, Queued("start", r)))
    BY <2>1, AppendNews DEF IdleOK
  <2> QED BY <2>2, <2>3
<1>left. Len(entries) > 1 => Tail(entries) # <<>> /\ \A i \in DOMAIN entries : RemoveAt(entries, i) # <<>>
  <2> SUFFICES ASSUME Len(entries) > 1 PROVE Tail(entries) # <<>> /\ \A i \in DOMAIN entries : RemoveAt(entries, i) # <<>>
    OBVIOUS
  <2>0. entries # <<>> /\ Len(entries) \in Nat
    BY EmptySeq, LenProperties DEF QueueOK
  <2>1. Len(Tail(entries)) = Len(entries) - 1 /\ Len(Tail(entries)) # 0
    <3>1. entries \in Seq(Requests)
      BY DEF QueueOK
    <3>2. Len(Tail(entries)) = Len(entries) - 1
      BY <2>0, <3>1, HeadTailProperties
    <3> QED BY <2>0, <3>2
  <2>2. \A i \in DOMAIN entries : Len(RemoveAt(entries, i)) = Len(entries) - 1
    BY RemoveAtItems DEF QueueOK
  <2>3. Len(<<>>) = 0
    BY EmptySeq
  <2> QED BY <2>0, <2>1, <2>2, <2>3
<1>1. ASSUME NEW p \in Projects, Add(p) PROVE HeldOK'
  <2>1. entries' # <<>>
    <3>1. Request(p, TRUE) \in Requests
      <4>1. made \in Nat /\ made < MaxRequests /\ TRUE \in BOOLEAN
        BY <1>1, QueueAssumption DEF Add, QueueOK
      <4> QED BY <4>1, RequestType
    <3>2. entries' = Append(entries, Request(p, TRUE)) /\ entries \in Seq(Requests)
      BY <1>1 DEF Add, QueueOK
    <3>3. Append(entries, Request(p, TRUE)) # <<>>
      BY <3>1, <3>2, AppendProperties
    <3> QED BY <3>2, <3>3
  <2> QED BY <1>1, <2>1, <1>still DEF Add
<1>2. ASSUME NEW p \in Projects, Build(p) PROVE HeldOK'
  <2>1. Request(p, FALSE) \in Requests
    <3>1. made \in Nat /\ made < MaxRequests /\ FALSE \in BOOLEAN
      BY <1>2, QueueAssumption DEF Build, QueueOK
    <3> QED BY <3>1, RequestType
  <2> QED BY <1>2, <2>1, <1>starts, <1>calls, <1>some DEF Build
<1>3. ASSUME NEW i \in DOMAIN entries, RemoveEntry(i) PROVE HeldOK'
  BY <1>3, <1>left, <1>still DEF RemoveEntry
<1>4. ASSUME NEW i \in DOMAIN entries, Move(i) PROVE HeldOK'
  <2>1. DOMAIN entries' = DOMAIN entries /\ i \in DOMAIN entries
    BY <1>4 DEF Move
  <2>2. entries' # <<>>
    BY <2>1
  <2> QED BY <1>4, <2>2, <1>still DEF Move
<1>5. CASE Clear
  BY <1>5, <1>still DEF Clear
<1>6. CASE Start
  <2>1. ~held' /\ UNCHANGED started
    BY <1>6 DEF Start
  <2> QED BY <2>1 DEF HeldOK, Running
<1>7. CASE Pause
  BY <1>7, <1>still, <1>some DEF Pause
<1>8. ASSUME NEW i \in DOMAIN started, CancelBuild(i) PROVE HeldOK'
  <2>1. Running(i) /\ started' = RemoveAt(started, i) /\ UNCHANGED <<entries, paused, held>>
    BY <1>8 DEF CancelBuild
  <2>2. News(idle) => News(idle')
    BY <1>8, AnnounceNews DEF CancelBuild, IdleOK
  <2> QED BY <2>1, <2>2, ListWithout DEF HeldOK
<1>9. ASSUME NEW i \in DOMAIN started, Dismiss(i) PROVE HeldOK'
  <2>1. started' = RemoveAt(started, i) /\ held' = (held /\ paused) /\ UNCHANGED <<entries, paused>>
    BY <1>9 DEF Dismiss
  <2>2. \A n \in DOMAIN started' : Running(n)' => ~started'[n].handled
    <3>1. /\ RemoveAt(started, i) \in Seq(Builds) /\ Len(RemoveAt(started, i)) = Len(started) - 1
          /\ \A j \in 1 .. Len(started) - 1 : RemoveAt(started, i)[j] = started[IF j < i THEN j ELSE j + 1]
      BY RemoveAtItems DEF StartedOK
    <3>2. DOMAIN started = 1 .. Len(started) /\ Len(started) \in Nat /\ DOMAIN started' = 1 .. Len(started) - 1
      BY <2>1, <3>1, LenProperties DEF StartedOK
    <3>3. \A n \in DOMAIN started' : \E j \in DOMAIN started : started'[n] = started[j]
      BY <2>1, <3>1, <3>2
    <3> QED BY <3>3 DEF HeldOK, Running
  <2> QED BY <2>1, <2>2 DEF HeldOK
<1>10. CASE CheckNothing
  BY <1>10, <1>still, <1>some DEF CheckNothing
<1>11. CASE CheckSkips
  BY <1>11, <1>left, <1>still DEF CheckSkips
<1>12. CASE CheckPauses
  BY <1>12, <1>still, <1>some DEF CheckPauses
<1>13. CASE CheckWaits
  BY <1>13, <1>still, <1>some DEF CheckWaits
<1>14. CASE CheckStarts
  <2>1. entries # <<>> /\ StartProjectBuild(Head(entries)) /\ entries' = Tail(entries)
        /\ held' = (held /\ Len(entries) > 1) /\ UNCHANGED <<paused, started>>
    BY <1>14 DEF CheckStarts, CanContinue
  <2>2. Head(entries) \in Requests
    BY <2>1, HeadTailProperties DEF QueueOK
  <2> QED BY <2>1, <2>2, <1>starts, <1>left, <1>calls
<1>15. CASE Retry
  BY <1>15, <1>still, <1>some DEF Retry
<1>16. CASE OnProcessesChanged
  <2>1. idle # <<>> /\ Head(idle).call = "processes" /\ idle' = Tail(idle) /\ UNCHANGED <<paused, entries, held>>
    BY <1>16 DEF OnProcessesChanged, IsNext
  <2>2. News(idle) => News(idle')
    BY <2>1, TakeNews DEF IdleOK
  <2>3. /\ DOMAIN started' = DOMAIN started
        /\ \A i \in DOMAIN started : started[i].status = "FAILED" => started'[i] = started[i]
        /\ \A i \in DOMAIN started : started'[i].status = started[i].status /\ started'[i].handled = started[i].handled
    <3>1. started' = [i \in DOMAIN started |->
                        IF IsRunningBuild(i) THEN [started[i] EXCEPT !.observed = TRUE] ELSE started[i]]
      BY <1>16 DEF OnProcessesChanged
    <3>2. \A i \in DOMAIN started : started[i] \in Builds
      BY LenProperties, ElementOfSeq DEF StartedOK
    <3>3. \A i \in DOMAIN started : IsRunningBuild(i) => started[i].status # "FAILED"
      BY DEF IsRunningBuild, Running
    <3>4. \A i \in DOMAIN started : /\ [started[i] EXCEPT !.observed = TRUE].status = started[i].status
                                    /\ [started[i] EXCEPT !.observed = TRUE].handled = started[i].handled
      BY <3>2 DEF Builds
    <3> QED BY <3>1, <3>3, <3>4
  <2> DEFINE k == [i \in DOMAIN started |-> i]
  <2>4. \A i \in DOMAIN started : k[i] = i
    OBVIOUS
  <2> HIDE DEF k
  <2>5. (Unhandled => Unhandled') /\ (Untold => Untold')
    BY <2>2, <2>3, <2>4, FailedStay
  <2> QED BY <2>1, <2>3, <2>5 DEF HeldOK, Running
<1>17. CASE OnBuildStateChanged
  <2>1. /\ started' = [i \in DOMAIN started |->
                        IF HasFailure(i) THEN [started[i] EXCEPT !.handled = TRUE] ELSE started[i]]
        /\ paused' = (paused \/ (PauseOnFailure /\ entries # <<>> /\ \E i \in DOMAIN started : HasFailure(i)))
        /\ UNCHANGED <<entries, held>>
    BY <1>17 DEF OnBuildStateChanged
  <2>2. \A i \in DOMAIN started' : Running(i)' => ~started'[i].handled
    <3>1. \A i \in DOMAIN started : HasFailure(i) => started[i].status = "FAILED"
      BY DEF HasFailure, Failed
    <3>2. \A i \in DOMAIN started : started[i] \in Builds
      BY LenProperties, ElementOfSeq DEF StartedOK
    <3>3. \A i \in DOMAIN started : [started[i] EXCEPT !.handled = TRUE].status = started[i].status
      BY <3>2 DEF Builds
    <3> QED BY <2>1, <3>1, <3>3 DEF HeldOK, Running
  <2>3. ASSUME held, ~paused' PROVE Unhandled' /\ Untold'
    <3>1. /\ \A i \in DOMAIN started : ~HasFailure(i)
          /\ Unhandled
      BY <2>1, <2>3 DEF HeldOK
    <3>2. DOMAIN started' = DOMAIN started /\ \A i \in DOMAIN started : started'[i] = started[i]
      BY <2>1, <3>1
    <3>3. PICK i \in DOMAIN started : started[i].status = "FAILED" /\ ~started[i].handled
      BY <3>1 DEF Unhandled
    <3>4. Unhandled'
      BY <3>2, <3>3 DEF Unhandled
    <3>5. CASE ~started[i].observed
      BY <3>2, <3>3, <3>4, <3>5 DEF Untold
    <3>6. CASE started[i].observed
      <4>1. Failed(i)
        BY <3>3, <3>6 DEF Failed
      <4>2. PICK j \in 1 .. i - 1 : Failed(j)
        BY <3>1, <3>3, <4>1 DEF HasFailure
      <4>3. DOMAIN started = 1 .. Len(started) /\ Len(started) \in Nat
        BY LenProperties DEF StartedOK
      <4>4. j \in DOMAIN started /\ j < i
        BY <4>3
      <4>5. Failed(i)' /\ Failed(j)' /\ ~started'[i].handled
        BY <3>2, <3>3, <4>1, <4>2, <4>4 DEF Failed
      <4>6. Untold'
        BY <3>2, <4>4, <4>5 DEF Untold
      <4> QED BY <3>4, <4>6
    <3> QED BY <3>5, <3>6
  <2> QED BY <2>1, <2>2, <2>3 DEF HeldOK
<1>18. CASE BuildStarts
  <2> DEFINE r == Head(idle).request
             b == [id |-> r.id, project |-> r.project, queued |-> r.queued,
                   status |-> "IN_PROGRESS", observed |-> FALSE, handled |-> FALSE]
  <2>1. idle # <<>> /\ Head(idle).call = "start" /\ idle' = Append(Tail(idle), Callback("processes"))
        /\ started' = Append(started, b) /\ UNCHANGED <<paused, entries, held>>
    BY <1>18 DEF BuildStarts, IsNext
  <2>2. ~b.handled
    OBVIOUS
  <2>3. News(idle) => News(idle')
    <3>1. Tail(idle) \in Seq(Callbacks)
      BY <2>1, HeadTailProperties DEF IdleOK
    <3>2. News(idle) => News(Tail(idle))
      BY <2>1, TakeNews DEF IdleOK
    <3> QED BY <2>1, <3>1, <3>2, CallbackTypes, AppendNews
  <2>4. StartedOK'
    BY TypeStep, TypeParts DEF TypeOK, StartedOK
  <2> HIDE DEF b
  <2>5. DOMAIN started = 1 .. Len(started) /\ Len(started) \in Nat
    BY LenProperties DEF StartedOK
  <2>6. /\ DOMAIN started' = 1 .. Len(started) + 1 /\ started'[Len(started) + 1] = b
        /\ \A i \in 1 .. Len(started) : started'[i] = started[i]
    BY <2>1, <2>5
  <2> DEFINE k == [i \in DOMAIN started |-> i]
  <2>7. \A i \in DOMAIN started : k[i] = i
    OBVIOUS
  <2> HIDE DEF k
  <2>8. (Unhandled => Unhandled') /\ (Untold => Untold')
    BY <2>3, <2>5, <2>6, <2>7, FailedStay
  <2>9. \A i \in DOMAIN started' : Running(i)' => ~started'[i].handled
    BY <2>2, <2>5, <2>6 DEF HeldOK, Running
  <2> QED BY <2>1, <2>8, <2>9 DEF HeldOK
<1>19. CASE BuildDoesNotStart
  <2>1. idle # <<>> /\ Head(idle).call # "state" /\ idle' = Tail(idle)
        /\ UNCHANGED <<started, entries, held>> /\ (paused => paused')
    BY <1>19 DEF BuildDoesNotStart, IsNext
  <2>2. News(idle) => News(idle')
    BY <2>1, TakeNews DEF IdleOK
  <2> QED BY <2>1, <2>2, <1>calls, <1>some
<1>20. CASE BuildEnds
  <2>1. idle # <<>> /\ Head(idle).call = "end" /\ UNCHANGED <<paused, entries>>
    BY <1>20 DEF BuildEnds, IsNext
  <2>2. News(idle) => News(Tail(idle))
    BY <2>1, TakeNews DEF IdleOK
  <2>3. Tail(idle) \in Seq(Callbacks)
    BY <2>1, HeadTailProperties DEF IdleOK
  <2>4. CASE idle' = Tail(idle) /\ UNCHANGED <<started, held>>
    BY <2>1, <2>2, <2>4, <1>calls, <1>some
  <2>5. ASSUME NEW i \in DOMAIN started, Running(i), idle' = Tail(idle) \o Announce(i),
               started' = RemoveAt(started, i), held' = held
        PROVE  HeldOK'
    <3>1. News(idle) => News(idle')
      BY <2>2, <2>3, <2>5, AnnounceNews
    <3> QED BY <2>1, <2>5, <3>1, ListWithout DEF HeldOK
  <2>6. ASSUME NEW i \in DOMAIN started, Running(i), idle' = Tail(idle) \o Announce(i),
               started' = [started EXCEPT ![i].status = "FAILED"],
               held' = (held \/ (PauseOnFailure /\ entries # <<>>))
        PROVE  HeldOK'
    <3>0. started[i] \in Builds /\ ~started[i].handled
      BY <2>6, LenProperties, ElementOfSeq DEF StartedOK, HeldOK
    <3>1. /\ DOMAIN started' = DOMAIN started
          /\ \A j \in DOMAIN started : j # i => started'[j] = started[j]
          /\ started'[i].status = "FAILED" /\ started'[i].observed = started[i].observed
          /\ started'[i].handled = started[i].handled
      BY <2>6, <3>0 DEF Builds
    <3>2. \A j \in DOMAIN started' : Running(j)' => ~started'[j].handled
      BY <3>1 DEF HeldOK, Running
    <3>3. Unhandled'
      BY <3>0, <3>1 DEF Unhandled
    <3>4. Untold'
      <4>1. CASE started[i].observed
        <5>1. News(idle')
          BY <2>3, <2>6, <4>1, AnnounceNews
        <5> QED BY <5>1 DEF News, Untold
      <4>2. CASE ~started[i].observed
        BY <3>1, <4>2 DEF Untold
      <4> QED BY <4>1, <4>2
    <3>5. held' => PauseOnFailure /\ entries # <<>>
      BY <2>6 DEF HeldOK
    <3> QED BY <2>1, <3>2, <3>3, <3>4, <3>5 DEF HeldOK
  <2>7. ASSUME NEW i \in DOMAIN started, Running(i), idle' = Tail(idle) \o Announce(i),
               started' = IF Head(idle).status = "FAILED" THEN [started EXCEPT ![i].status = "FAILED"] ELSE RemoveAt(started, i),
               held' = (held \/ (Head(idle).status = "FAILED" /\ PauseOnFailure /\ entries # <<>>))
        PROVE  HeldOK'
    <3>1. CASE Head(idle).status = "FAILED"
      BY <2>6, <2>7, <3>1
    <3>2. CASE Head(idle).status # "FAILED"
      <4>1. held' = held
        BY <2>7, <3>2 DEF FlagsOK
      <4> QED BY <2>5, <2>7, <3>2, <4>1
    <3> QED BY <3>1, <3>2
  <2> QED BY <1>20, <2>4, <2>7 DEF BuildEnds
<1>21. ASSUME NEW r \in pending, Authorized(r) PROVE HeldOK'
  <2>1. r \in Requests /\ UNCHANGED <<started, entries, paused, held>>
    BY <1>21 DEF Authorized, QueueOK
  <2>2. Queued("start", r) \in Callbacks /\ Queued("declined", r) \in Callbacks
    BY <2>1, CallbackTypes
  <2>3. News(idle) => News(idle')
    BY <1>21, <2>2, AppendNews DEF Authorized, IdleOK
  <2> QED BY <2>1, <2>3, <1>calls, <1>some
<1>22. ASSUME NEW i \in DOMAIN started, StepsEnd(i) PROVE HeldOK'
  <2>1. started[i].id \in 1 .. MaxRequests
    <3>1. started[i] \in Builds
      BY LenProperties, ElementOfSeq DEF StartedOK
    <3> QED BY <3>1 DEF Builds
  <2>2. PICK status \in {"COMPLETED", "FAILED"} :
          idle' = Append(idle, [call |-> "end", id |-> started[i].id, status |-> status])
    BY <1>22 DEF StepsEnd
  <2>3. News(idle) => News(idle')
    BY <2>1, <2>2, CallbackTypes, AppendNews DEF IdleOK
  <2>4. UNCHANGED <<started, paused, entries, held>>
    BY <1>22 DEF StepsEnd
  <2> QED BY <2>3, <2>4, <1>calls, <1>some
<1>23. CASE OtherOperation
  BY <1>23, <1>still, <1>some DEF OtherOperation
<1>24. CASE UNCHANGED vars
  BY <1>24, <1>still, <1>some DEF vars
<1> QED
  BY <1>1, <1>2, <1>3, <1>4, <1>5, <1>6, <1>7, <1>8, <1>9, <1>10, <1>11, <1>12, <1>13, <1>14, <1>15, <1>16, <1>17, <1>18, <1>19, <1>20, <1>21, <1>22, <1>23, <1>24 DEF Next, User, Check, Dispatch

\* A check that starts a build finds the queue not paused.
LEMMA HeldStarts ==
  ASSUME TypeOK, OwnersOK, HeldOK, [Next]_vars
  PROVE  held /\ ~Untold => QueuedIds \cap Asked' = {}
<1> SUFFICES ASSUME held, ~Untold PROVE QueuedIds \cap Asked' = {}
  OBVIOUS
<1>1. ~CheckStarts
  BY DEF CheckStarts, CanContinue, HeldOK
<1>2. UNCHANGED entries \/ UNCHANGED <<pending, idle, started>>
  BY <1>1 DEF Next, User, Check, Dispatch, vars, Add, Build, RemoveEntry, Move, Clear, Start, Pause, CancelBuild,
     Dismiss, CheckNothing, CheckSkips, CheckPauses, CheckWaits, Retry, OnProcessesChanged, OnBuildStateChanged,
     BuildStarts, BuildDoesNotStart, BuildEnds, Authorized, StepsEnd, OtherOperation
<1>3. CASE UNCHANGED entries
  <2>1. QueuedIds' \cap Asked' = {}
    BY OwnersStep DEF OwnersOK
  <2> QED BY <1>3, <2>1 DEF QueuedIds
<1>4. CASE UNCHANGED <<pending, idle, started>>
  <2>1. Asked' = Asked
    BY <1>4 DEF Asked, Running
  <2> QED BY <2>1 DEF OwnersOK
<1> QED BY <1>2, <1>3, <1>4

\* A failed build holds the queue (build_queue.py:160) until the user starts it
\* or dismisses the failure, in any order of timers, callbacks, threads and
\* user, but for the three cases in which the queue was not told of it.
THEOREM FailuresHoldQueue == Spec => FailureHoldsQueue
<1>1. Init => HeldOK
  BY DEF Init, HeldOK
<1>2. TypeOK /\ HeldOK /\ [Next]_vars => HeldOK'
  BY HeldStep
<1>3. TypeOK /\ OwnersOK /\ HeldOK /\ [Next]_vars => [held /\ ~Untold => QueuedIds \cap Asked' = {}]_vars
  BY HeldStarts
<1> QED BY <1>1, <1>2, <1>3, InitOwners, TypeCorrect, OwnersStep, PTL DEF Spec, FailureHoldsQueue
=============================================================================
