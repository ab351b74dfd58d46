---------------------------- MODULE HistoryProofs ----------------------------
(***************************************************************************)
(* HistoryWriter for every rotation and retention time: what a query       *)
(* returns, and how many files there can be.                               *)
(***************************************************************************)
EXTENDS History, FiniteSetTheorems, WellFoundedInduction, TLAPS

USE HistoryAssumption

(* The whole seconds of a time: not after it, and less than one before. *)
LEMMA StampFacts ==
    ASSUME NEW t \in Nat
    PROVE  /\ Stamp(t) \in Nat
           /\ Stamp(t) % Second = 0
           /\ Stamp(t) <= t /\ t < Stamp(t) + Second
<1>1. Second \in Nat \ {0}
  OBVIOUS
<1>2. t % Second \in 0..(Second - 1)
  BY <1>1
<1>3. t = Second * (t \div Second) + (t % Second) /\ t \div Second \in Nat
  BY <1>1
<1>4. (Second * (t \div Second)) % Second = 0 /\ Second * (t \div Second) \in Nat
  BY <1>1, <1>3
<1>5. Stamp(t) = Second * (t \div Second)
  BY <1>1, <1>2, <1>3 DEF Stamp
<1>6. Stamp(t) <= t /\ t < Stamp(t) + Second
  BY <1>1, <1>2 DEF Stamp
<1> QED
  BY <1>4, <1>5, <1>6

(* Rotating and sweeping leave every surviving file as it was. *)
LEMMA KeptFacts ==
    /\ DOMAIN Kept \subseteq DOMAIN files
    /\ \A s \in DOMAIN Kept : Kept[s] = files[s]
    /\ \A s \in DOMAIN files : s + RotateSec >= now - RetentionSec => s \in DOMAIN Kept
BY DEF Kept, Survivors

(* The directory after a write: the current file is there, with one event   *)
(* more, and the others are as they were kept.                             *)
LEMMA WrittenFiles ==
    ASSUME NEW owner, Write(owner)
    PROVE  /\ DOMAIN files' = DOMAIN Kept \cup {Current}
           /\ files'[Current] = InFile(Current) \cup {[ts |-> now, owner |-> owner]}
           /\ \A s \in DOMAIN Kept : s # Current => files'[s] = Kept[s]
BY DEF Write

(* The file that is written to was opened less than RotateSec ago. *)
LEMMA CurrentFacts ==
    ASSUME TypeOK, opened # Never => opened <= now
    PROVE  /\ Current \in Time /\ Current % Second = 0
           /\ Current <= now /\ now < Current + RotateSec + Second
<1> DEFINE o == IF Rotating THEN now ELSE opened
<1>1. o \in Nat /\ o <= now /\ now - o < RotateSec /\ now \in Nat /\ now <= Horizon
  BY DEF TypeOK, Time, Rotating
<1>2. Current = Stamp(o)
  BY DEF Current
<1> HIDE DEF o
<1>3. /\ Stamp(o) \in Nat /\ Stamp(o) % Second = 0
      /\ Stamp(o) <= o /\ o < Stamp(o) + Second
  BY <1>1, StampFacts
<1> QED
  BY <1>1, <1>2, <1>3 DEF Time
-----------------------------------------------------------------------------
(* The invariant behind the queries: a file holds events of its own time    *)
(* only, and an event is in some file for as long as the retention lasts.  *)
HInv ==
    /\ TypeOK
    /\ opened # Never => opened <= now
    /\ \A s \in DOMAIN files : \A e \in files[s] :
         /\ e \in written
         /\ s <= e.ts /\ e.ts < s + RotateSec + Second /\ e.ts <= now
    /\ \A e \in written : e.ts >= now - RetentionSec + Second =>
         \E s \in DOMAIN files : e \in files[s]

(* Sweeping drops no file with an event that is still retained. *)
LEMMA KeptKeeps ==
    ASSUME HInv
    PROVE  \A e \in written : e.ts >= now - RetentionSec + Second =>
              \E s \in DOMAIN Kept : e \in Kept[s]
<1> SUFFICES ASSUME NEW e \in written, e.ts >= now - RetentionSec + Second
             PROVE  \E s \in DOMAIN Kept : e \in Kept[s]
  OBVIOUS
<1>1. PICK s \in DOMAIN files : e \in files[s]
  BY DEF HInv
<1>2. e.ts < s + RotateSec + Second
  BY <1>1 DEF HInv
<1>3. e.ts \in Nat /\ s \in Nat /\ now \in Nat
  BY <1>1 DEF HInv, TypeOK, Event, Time
<1>4. s + RotateSec >= now - RetentionSec
  BY <1>2, <1>3
<1> QED
  BY <1>1, <1>4, KeptFacts

(* A new directory is empty, and nothing was written. *)
LEMMA HInit == Init => HInv
BY DEF Init, HInv, TypeOK, Time

(* write keeps the invariant. *)
LEMMA WriteKeeps ==
    ASSUME HInv, NEW owner \in Owner, Write(owner)
    PROVE  HInv'
<1> DEFINE event == [ts |-> now, owner |-> owner]
           o == IF Rotating THEN now ELSE opened
<1>1. /\ DOMAIN files' = DOMAIN Kept \cup {Current}
      /\ files'[Current] = InFile(Current) \cup {event}
      /\ \A s \in DOMAIN Kept : s # Current => files'[s] = Kept[s]
  BY WrittenFiles
<1>2. /\ opened' = o /\ written' = written \cup {event}
      /\ now' = now /\ restarts' = restarts
  BY DEF Write
<1>3. /\ TypeOK /\ now \in Time /\ now \in Nat
      /\ opened # Never => opened <= now
  BY DEF HInv, TypeOK, Time
<1>4. o \in Time /\ o <= now
  BY <1>3 DEF TypeOK, Rotating, Time
<1>5. /\ Current \in Time /\ Current % Second = 0
      /\ Current <= now /\ now < Current + RotateSec + Second
  BY <1>3, CurrentFacts
<1>6. event \in Event /\ event.ts = now
  BY <1>3 DEF Event
<1> HIDE DEF event, o
<1>7. /\ DOMAIN Kept \subseteq DOMAIN files
      /\ \A s \in DOMAIN Kept : Kept[s] = files[s]
  BY KeptFacts
<1>8. InFile(Current) \subseteq IF Current \in DOMAIN Kept THEN files[Current] ELSE {}
  BY <1>7 DEF InFile
<1>9. TypeOK'
  <2>1. \A s \in DOMAIN files' : s \in Time /\ s % Second = 0 /\ files'[s] \subseteq Event
    BY <1>1, <1>3, <1>5, <1>6, <1>7, <1>8 DEF TypeOK
  <2>2. written' \subseteq Event /\ opened' \in Time \cup {Never}
    BY <1>2, <1>3, <1>4, <1>6 DEF TypeOK
  <2> QED
    BY <1>2, <1>3, <2>1, <2>2 DEF TypeOK
<1>10. ASSUME NEW s \in DOMAIN files', NEW e \in files'[s]
       PROVE  /\ e \in written'
              /\ s <= e.ts /\ e.ts < s + RotateSec + Second /\ e.ts <= now'
  <2>1. CASE e = event /\ s = Current
    BY <1>2, <1>3, <1>5, <1>6, <2>1
  <2>2. CASE s \in DOMAIN files /\ e \in files[s]
    BY <1>2, <2>2 DEF HInv
  <2> QED
    BY <1>1, <1>7, <1>8, <1>10, <2>1, <2>2
<1>11. ASSUME NEW e \in written', e.ts >= now' - RetentionSec + Second
       PROVE  \E s \in DOMAIN files' : e \in files'[s]
  <2>1. CASE e = event
    BY <1>1, <2>1
  <2>2. CASE e \in written
    <3>1. PICK s \in DOMAIN Kept : e \in Kept[s]
      BY <1>2, <1>11, <2>2, KeptKeeps
    <3>2. e \in files'[s] /\ s \in DOMAIN files'
      BY <1>1, <3>1 DEF InFile
    <3> QED
      BY <3>2
  <2> QED
    BY <1>2, <2>1, <2>2
<1>12. opened' <= now'
  BY <1>2, <1>4
<1> QED
  BY <1>9, <1>10, <1>11, <1>12 DEF HInv

(* A write that fails keeps it too: rotation and sweep are harmless. *)
LEMMA WriteFailsKeeps ==
    ASSUME HInv, WriteFails
    PROVE  HInv'
<1> DEFINE o == IF Rotating THEN now ELSE opened
<1>1. /\ files' = Kept /\ opened' = o
      /\ now' = now /\ written' = written /\ restarts' = restarts
  BY DEF WriteFails
<1>2. /\ TypeOK /\ now \in Time /\ now \in Nat
      /\ opened # Never => opened <= now
  BY DEF HInv, TypeOK, Time
<1>3. o \in Time /\ o <= now
  BY <1>2 DEF TypeOK, Rotating, Time
<1> HIDE DEF o
<1>4. /\ DOMAIN Kept \subseteq DOMAIN files
      /\ \A s \in DOMAIN Kept : Kept[s] = files[s]
  BY KeptFacts
<1>5. TypeOK'
  BY <1>1, <1>2, <1>3, <1>4 DEF TypeOK
<1>6. \A s \in DOMAIN files' : \A e \in files'[s] :
         /\ e \in written'
         /\ s <= e.ts /\ e.ts < s + RotateSec + Second /\ e.ts <= now'
  BY <1>1, <1>4 DEF HInv
<1>7. \A e \in written' : e.ts >= now' - RetentionSec + Second =>
         \E s \in DOMAIN files' : e \in files'[s]
  BY <1>1, KeptKeeps
<1>8. opened' <= now'
  BY <1>1, <1>3
<1> QED
  BY <1>5, <1>6, <1>7, <1>8 DEF HInv

(* So do a restart and the clock. *)
LEMMA HNext == HInv /\ [Next]_vars => HInv'
<1> SUFFICES ASSUME HInv, [Next]_vars
             PROVE  HInv'
  OBVIOUS
<1>1. CASE Restart
  BY <1>1 DEF Restart, HInv, TypeOK
<1>2. CASE Tick
  <2>1. now \in Nat /\ now' = now + 1 /\ now' \in Time
    BY <1>2 DEF Tick, HInv, TypeOK, Time
  <2>2. UNCHANGED <<files, opened, written, restarts>>
    BY <1>2 DEF Tick
  <2>3. \A e \in written : e.ts \in Nat
    BY DEF HInv, TypeOK, Event, Time
  <2>4. TypeOK'
    BY <2>1, <2>2 DEF HInv, TypeOK
  <2>5. opened' # Never => opened' <= now'
    BY <2>1, <2>2 DEF HInv, TypeOK, Time
  <2>6. \A s \in DOMAIN files' : \A e \in files'[s] :
          /\ e \in written'
          /\ s <= e.ts /\ e.ts < s + RotateSec + Second /\ e.ts <= now'
    BY <2>1, <2>2, <2>3 DEF HInv
  <2>7. \A e \in written' : e.ts >= now' - RetentionSec + Second =>
          \E s \in DOMAIN files' : e \in files'[s]
    BY <2>1, <2>2, <2>3 DEF HInv
  <2> QED
    BY <2>4, <2>5, <2>6, <2>7 DEF HInv
<1>3. CASE UNCHANGED vars
  BY <1>3 DEF vars, HInv, TypeOK
<1> QED
  BY <1>1, <1>2, <1>3, WriteKeeps, WriteFailsKeeps DEF Next

(* The invariant of the log. *)
THEOREM HistoryInvariance == Spec => []HInv
BY HInit, HNext, PTL DEF Spec

(* Files are named by whole seconds and hold events. *)
THEOREM HistoryTypeCorrect == Spec => []TypeOK
<1>1. HInv => TypeOK
  BY DEF HInv
<1> QED
  BY <1>1, HistoryInvariance, PTL

(* A query finds what it asks for, a second at the edge of the window      *)
(* excepted, whatever was rotated, swept, restarted or failed.             *)
THEOREM QueriesFindEvents == Spec => []QueryFindsEvents
<1>1. HInv => QueryFindsEvents
  <2> SUFFICES ASSUME HInv, NEW window \in 0..RetentionSec, NEW excluded \in SUBSET Owner
               PROVE  /\ HistoryEndpoint(window, excluded) \subseteq Wanted(now - window, excluded)
                      /\ Wanted(now - window + Second, excluded)
                            \subseteq HistoryEndpoint(window, excluded)
    BY DEF QueryFindsEvents
  <2>1. now \in Nat /\ window \in Nat /\ window <= RetentionSec
    BY DEF HInv, TypeOK, Time
  <2>2. HistoryEndpoint(window, excluded) \subseteq Wanted(now - window, excluded)
    BY DEF HInv, HistoryEndpoint, Query, Overlapping, Wanted
  <2>3. ASSUME NEW e \in Wanted(now - window + Second, excluded)
        PROVE  e \in HistoryEndpoint(window, excluded)
    <3>1. e \in written /\ e.ts >= now - window + Second /\ e.owner \notin excluded
      BY DEF Wanted
    <3>2. e.ts \in Nat
      BY <3>1 DEF HInv, TypeOK, Event, Time
    <3>3. PICK s \in DOMAIN files : e \in files[s]
      BY <2>1, <3>1, <3>2 DEF HInv
    <3>4. s \in Nat /\ s <= e.ts /\ e.ts < s + RotateSec + Second /\ e.ts <= now
      BY <3>3 DEF HInv, TypeOK, Time
    <3>5. s + RotateSec >= now - window /\ s <= now /\ e.ts >= now - window
      BY <2>1, <3>1, <3>2, <3>4
    <3>6. s \in Overlapping(now - window, now)
      BY <3>5 DEF Overlapping
    <3> QED
      BY <3>1, <3>3, <3>4, <3>5, <3>6 DEF HistoryEndpoint, Query
  <2> QED
    BY <2>2, <2>3
<1> QED
  BY <1>1, HistoryInvariance, PTL
-----------------------------------------------------------------------------
(* Whole seconds, added. *)
LEMMA WholeSecondsAdd ==
    ASSUME NEW c \in Nat, c % Second = 0
    PROVE  (c + RotateSec) % Second = 0
<1>1. Second \in Nat \ {0} /\ RotateSec \in Nat /\ RotateSec % Second = 0
  OBVIOUS
<1>2. c = Second * (c \div Second) /\ c \div Second \in Nat
  BY <1>1
<1>3. RotateSec = Second * (RotateSec \div Second) /\ RotateSec \div Second \in Nat
  BY <1>1
<1> DEFINE q == c \div Second + RotateSec \div Second
<1>4. q \in Nat /\ c + RotateSec = Second * q
  BY <1>1, <1>2, <1>3
<1> HIDE DEF q
<1>5. \A k \in Nat : (Second * k) % Second = 0
  BY <1>1
<1> QED
  BY <1>4, <1>5

(* A stamp is the last whole second of its time. *)
LEMMA StampIsLast ==
    ASSUME NEW t \in Nat, NEW c \in Nat, c % Second = 0, c <= t
    PROVE  c <= Stamp(t)
<1>1. Second \in Nat \ {0}
  OBVIOUS
<1>2. /\ Stamp(t) \in Nat /\ Stamp(t) % Second = 0 /\ t < Stamp(t) + Second
  BY StampFacts
<1> DEFINE a == c \div Second
           b == Stamp(t) \div Second
<1>3. a \in Nat /\ c = Second * a
  BY <1>1
<1>4. b \in Nat /\ Stamp(t) = Second * b
  BY <1>1, <1>2
<1> HIDE DEF a, b
<1>5. ASSUME a >= b + 1
      PROVE  FALSE
  <2>1. Second * a >= Second * (b + 1)
    BY <1>1, <1>3, <1>4, <1>5
  <2>2. Second * (b + 1) = Second * b + Second
    BY <1>1, <1>4
  <2> QED
    BY <1>1, <1>2, <1>3, <1>4, <2>1, <2>2
<1>6. a <= b
  BY <1>3, <1>4, <1>5
<1>7. Second * a <= Second * b
  BY <1>1, <1>3, <1>4, <1>6
<1> QED
  BY <1>3, <1>4, <1>7

(* Rotation waits for a second at least. *)
LEMMA SecondIsShort == Second <= RotateSec
<1>1. Second \in Nat \ {0} /\ RotateSec \in Nat \ {0} /\ RotateSec % Second = 0
  OBVIOUS
<1>2. ASSUME RotateSec < Second
      PROVE  RotateSec % Second = RotateSec
  BY <1>1, <1>2
<1> QED
  BY <1>1, <1>2

(* The names a directory swept at the time n may hold. *)
Near(n) == {s \in Time : n - RetentionSec - RotateSec <= s /\ s <= n /\ s % Second = 0}

(* Names that lie RotateSec apart. *)
Spaced(A) == \A a, b \in A : a < b => a + RotateSec <= b

(* There are as many of them as fit in the retention window. *)
LEMMA SpacedAreFew ==
    ASSUME NEW n \in Time, NEW A \in SUBSET Near(n), Spaced(A)
    PROVE  /\ IsFiniteSet(A)
           /\ Cardinality(A) <= RetentionSec \div RotateSec + 2
<1> DEFINE R == RotateSec
           q == RetentionSec \div RotateSec
           f == [a \in A |-> (n - a) \div R]
<1>1. /\ R \in Nat \ {0} /\ RetentionSec \in Nat /\ n \in Nat
      /\ q \in Nat /\ RetentionSec < (q + 1) * R
  BY SMTT(30) DEF Time
<1>2. \A a \in A : a \in Nat /\ a <= n /\ n - a <= RetentionSec + R
  BY DEF Near, Time
<1> HIDE DEF R, q
<1>3. ASSUME NEW t \in Nat
      PROVE  /\ t \div R \in Nat
             /\ (t \div R) * R <= t /\ t < (t \div R + 1) * R
  BY <1>1, <1>3, SMTT(30)
<1>4. ASSUME NEW a \in A
      PROVE  (n - a) \div R \in 0..(q + 1)
  <2> DEFINE k == (n - a) \div R
  <2>1. n - a \in Nat /\ n - a <= RetentionSec + R
    BY <1>1, <1>2
  <2>2. k \in Nat /\ k * R <= n - a
    BY <1>3, <2>1
  <2> HIDE DEF k
  <2>3. ASSUME k >= q + 2
        PROVE  FALSE
    <3>1. k * R >= (q + 2) * R
      BY <1>1, <2>2, <2>3
    <3>2. (q + 2) * R = (q + 1) * R + R
      BY <1>1
    <3> QED
      BY <1>1, <2>1, <2>2, <3>1, <3>2
  <2>4. k \in 0..(q + 1)
    BY <1>1, <2>2, <2>3
  <2> QED
    BY <2>4 DEF k
<1>5. ASSUME NEW a \in A, NEW b \in A, a < b
      PROVE  (n - a) \div R # (n - b) \div R
  <2>1. n - a \in Nat /\ n - b \in Nat /\ a \in Nat /\ b \in Nat
    BY <1>1, <1>2
  <2>2. a + R <= b
    BY <1>5 DEF Spaced, R
  <2> DEFINE j == (n - a) \div R
             k == (n - b) \div R
  <2>3. j \in Nat /\ n - a < (j + 1) * R
    BY <1>3, <2>1
  <2>4. k \in Nat /\ k * R <= n - b
    BY <1>3, <2>1
  <2> HIDE DEF j, k
  <2>5. (j + 1) * R = j * R + R
    BY <1>1, <2>3
  <2>6. j # k
    BY <1>1, <2>1, <2>2, <2>3, <2>4, <2>5
  <2> QED
    BY <2>6 DEF j, k
<1>6. f \in [A -> 0..(q + 1)]
  BY <1>4
<1>7. \A a, b \in A : f[a] = f[b] => a = b
  <2> SUFFICES ASSUME NEW a \in A, NEW b \in A, a # b
               PROVE  f[a] # f[b]
    OBVIOUS
  <2>1. a < b \/ b < a
    BY <1>2
  <2> QED
    BY <1>5, <2>1
<1> HIDE DEF f
<1>8. f \in Injection(A, 0..(q + 1))
  BY <1>6, <1>7 DEF Injection, IsInjective
<1>9. IsFiniteSet(0..(q + 1)) /\ Cardinality(0..(q + 1)) = q + 2
  <2>1. 0 \in Int /\ q + 1 \in Int /\ ~(0 > q + 1) /\ q + 1 - 0 + 1 = q + 2
    BY <1>1
  <2> QED
    BY <2>1, FS_Interval
<1>10. IsFiniteSet(A) /\ Cardinality(A) <= q + 2
  BY <1>8, <1>9, FS_Injection
<1> QED
  BY <1>10 DEF q

(* The invariant behind the bound: besides one file per restart, at most,   *)
(* the names (and the one a failed write has reserved) lie RotateSec apart, *)
(* within a retention window of the last time a file was opened.           *)
Named == DOMAIN files \cup (IF opened = Never THEN {} ELSE {Stamp(opened)})

Split(A, B, n) ==
    /\ Named \subseteq A \cup B
    /\ A \subseteq Near(n) /\ Spaced(A)
    /\ IsFiniteSet(B) /\ Cardinality(B) <= restarts
    /\ n <= now
    /\ opened = Never => A = {} \/ Cardinality(B) < restarts
    /\ opened # Never => opened = n

Spread ==
    /\ HInv
    /\ \E n \in Time, A, B \in SUBSET Time : Split(A, B, n)

(* The name a file would have now is near. *)
LEMMA StampIsNear ==
    ASSUME now \in Time
    PROVE  Stamp(now) \in Near(now)
<1>1. now \in Nat /\ now <= Horizon /\ RotateSec \in Nat /\ RetentionSec \in Nat
  BY DEF Time
<1>2. /\ Stamp(now) \in Nat /\ Stamp(now) % Second = 0
      /\ Stamp(now) <= now /\ now < Stamp(now) + Second
  BY <1>1, StampFacts
<1> QED
  BY <1>1, <1>2, SecondIsShort DEF Near, Time

(* A new name lies RotateSec after the others, if the process opened one. *)
LEMMA NewNameIsLater ==
    ASSUME NEW n \in Time, NEW A \in SUBSET Near(n), Spaced(A), now \in Time,
           now - n >= RotateSec \/ A = {}
    PROVE  Spaced(A \cup {Stamp(now)})
<1>1. now \in Nat /\ n \in Nat /\ now <= Horizon /\ RotateSec \in Nat /\ RetentionSec \in Nat
  BY DEF Time
<1>2. /\ Stamp(now) \in Nat /\ Stamp(now) % Second = 0
      /\ Stamp(now) <= now /\ now < Stamp(now) + Second
  BY <1>1, StampFacts
<1>3. ASSUME NEW a \in A
      PROVE  a \in Nat /\ a + RotateSec <= Stamp(now)
  <2>1. a \in Nat /\ a <= n /\ a % Second = 0
    BY DEF Near, Time
  <2>2. (a + RotateSec) % Second = 0
    BY <2>1, WholeSecondsAdd
  <2>3. a + RotateSec \in Nat /\ a + RotateSec <= now
    BY <1>1, <1>3, <2>1
  <2> QED
    BY <1>1, <2>1, <2>2, <2>3, StampIsLast
<1> QED
  BY <1>1, <1>2, <1>3 DEF Spaced

(* Opening a file, and sweeping, keeps the names spread. *)
LEMMA OpeningSpreads ==
    ASSUME Spread, HInv', DOMAIN files' \subseteq DOMAIN Kept \cup {Current},
           opened' = (IF Rotating THEN now ELSE opened),
           now' = now, restarts' = restarts
    PROVE  Spread'
<1>1. PICK n \in Time, A \in SUBSET Time, B \in SUBSET Time : Split(A, B, n)
  BY DEF Spread
<1>2. /\ now \in Time /\ now \in Nat /\ n \in Nat /\ n <= now /\ restarts \in Nat
      /\ opened \in Time \cup {Never} /\ RotateSec \in Nat /\ RetentionSec \in Nat
      /\ Cardinality(B) \in Nat
  BY <1>1, FS_CardinalityType DEF Spread, HInv, TypeOK, Time, Split
<1>3. CASE ~Rotating
  <2>1. opened # Never /\ opened' = opened /\ Current = Stamp(opened) /\ Kept = files
    BY <1>3 DEF Rotating, Current, Kept
  <2>2. Named' \subseteq A \cup B
    BY <1>1, <2>1 DEF Named, Split
  <2>3. Split(A, B, n)'
    BY <1>1, <2>1, <2>2 DEF Split
  <2> QED
    BY <1>1, <2>3 DEF Spread
<1>4. CASE Rotating
  <2> DEFINE p == Stamp(now)
             C == {a \in A : a + RotateSec >= now - RetentionSec}
  <2>1. opened' = now /\ Current = p /\ opened' # Never
    BY <1>2, <1>4 DEF Current
  <2>2. \A s \in DOMAIN Kept : s \in DOMAIN files /\ s + RotateSec >= now - RetentionSec
    BY <1>4 DEF Kept, Survivors
  <2>3. DOMAIN Kept \subseteq C \cup B
    BY <1>1, <2>2 DEF Split, Named
  <2>4. Named' \subseteq C \cup B \cup {p}
    BY <2>1, <2>3 DEF Named
  <2>5. C \in SUBSET Near(now) /\ Spaced(C) /\ C \subseteq A
    <3>1. A \subseteq Near(n) /\ Spaced(A)
      BY <1>1 DEF Split
    <3>2. ASSUME NEW a \in C
          PROVE  a \in Near(now)
      <4>1. a \in Near(n) /\ a + RotateSec >= now - RetentionSec
        BY <3>1
      <4> QED
        BY <1>2, <4>1 DEF Near, Time
    <3> QED
      BY <3>1, <3>2 DEF Spaced
  <2> HIDE DEF C
  <2>6. p \in Near(now) /\ p \in Time
    BY <1>2, StampIsNear DEF Near
  <2> HIDE DEF p
  <2>7. ASSUME NEW D \in SUBSET Near(now), NEW E \in SUBSET Time, IsFiniteSet(E),
               Spaced(D), Cardinality(E) <= restarts, C \cup B \cup {p} \subseteq D \cup E
        PROVE  Spread'
    <3>1. Split(D, E, now)'
      BY <1>2, <2>1, <2>4, <2>7 DEF Split
    <3>2. D \in SUBSET Time
      BY <2>7 DEF Near
    <3> QED
      BY <1>2, <2>7, <3>1, <3>2 DEF Spread
  <2>8. CASE opened # Never \/ A = {}
    <3>1. now - n >= RotateSec \/ A = {}
      BY <1>1, <1>4, <2>8 DEF Rotating, Split
    <3>2. Spaced(A \cup {p})
      BY <1>1, <1>2, <3>1, NewNameIsLater DEF Split, p
    <3>3. Spaced(C \cup {p}) /\ C \cup {p} \in SUBSET Near(now)
      BY <2>5, <2>6, <3>2 DEF Spaced
    <3> QED
      BY <1>1, <2>7, <3>3 DEF Split
  <2>9. CASE opened = Never /\ A # {}
    <3>1. Cardinality(B) < restarts
      BY <1>1, <2>9 DEF Split
    <3>2. IsFiniteSet(B \cup {p}) /\ Cardinality(B \cup {p}) <= Cardinality(B) + 1
      <4>1. IsFiniteSet(B)
        BY <1>1 DEF Split
      <4>2. /\ IsFiniteSet(B \cup {p})
            /\ Cardinality(B \cup {p}) =
                 IF p \in B THEN Cardinality(B) ELSE Cardinality(B) + 1
        BY <4>1, FS_AddElement
      <4> QED
        BY <1>2, <4>2
    <3>3. Cardinality(B \cup {p}) \in Nat
      BY <3>2, FS_CardinalityType
    <3>4. Cardinality(B \cup {p}) <= restarts /\ B \cup {p} \in SUBSET Time
      BY <1>1, <1>2, <2>6, <3>1, <3>2, <3>3
    <3> QED
      BY <2>5, <2>7, <3>2, <3>4
  <2> QED
    BY <2>8, <2>9
<1> QED
  BY <1>3, <1>4

(* No step of the program breaks it. *)
LEMMA SpreadNext == Spread /\ [Next]_vars => Spread'
<1> SUFFICES ASSUME Spread, [Next]_vars
             PROVE  Spread'
  OBVIOUS
<1>1. HInv'
  BY HNext DEF Spread
<1>2. CASE \E owner \in Owner : Write(owner)
  <2>1. PICK owner \in Owner : Write(owner)
    BY <1>2
  <2> QED
    BY <1>1, <2>1, WrittenFiles, OpeningSpreads DEF Write
<1>3. CASE WriteFails
  BY <1>1, <1>3, OpeningSpreads DEF WriteFails
<1>4. PICK n \in Time, A \in SUBSET Time, B \in SUBSET Time : Split(A, B, n)
  BY DEF Spread
<1>5. restarts \in Nat /\ now \in Nat /\ n \in Nat /\ Cardinality(B) \in Nat
  BY <1>4, FS_CardinalityType DEF Spread, Split, HInv, TypeOK, Time
<1>6. CASE Restart
  <2>1. Split(A, B, n)'
    BY <1>4, <1>5, <1>6 DEF Restart, Split, Named
  <2> QED
    BY <1>1, <1>4, <2>1 DEF Spread
<1>7. CASE Tick
  <2>1. Split(A, B, n)'
    BY <1>4, <1>5, <1>7 DEF Tick, Split, Named
  <2> QED
    BY <1>1, <1>4, <2>1 DEF Spread
<1>8. CASE UNCHANGED vars
  BY <1>1, <1>4, <1>8 DEF vars, Spread, Split, Named
<1> QED
  BY <1>2, <1>3, <1>6, <1>7, <1>8 DEF Next

(* It holds of the empty directory. *)
LEMMA SpreadInit == Init => Spread
<1> SUFFICES ASSUME Init
             PROVE  Spread
  OBVIOUS
<1>1. HInv
  BY HInit
<1>2. IsFiniteSet({}) /\ Cardinality({}) = 0
  BY FS_EmptySet
<1>3. Split({}, {}, 0) /\ 0 \in Time
  BY <1>2 DEF Init, Split, Named, Spaced, Time
<1> QED
  BY <1>1, <1>2, <1>3 DEF Spread

(* Disk usage is bounded: the files of one retention window, one on either  *)
(* side of it and one per restart, whatever fails to be written.           *)
THEOREM DiskIsBounded == Spec => []FilesBounded
<1>1. Spread => FilesBounded
  <2> SUFFICES ASSUME Spread
               PROVE  FilesBounded
    OBVIOUS
  <2>1. PICK n \in Time, A \in SUBSET Time, B \in SUBSET Time : Split(A, B, n)
    BY DEF Spread
  <2>2. /\ IsFiniteSet(A)
        /\ Cardinality(A) <= RetentionSec \div RotateSec + 2
    BY <2>1, SpacedAreFew DEF Split
  <2> IsFiniteSet(B)
    BY <2>1 DEF Split
  <2>3. /\ IsFiniteSet(A \cup B)
        /\ Cardinality(A \cup B) = Cardinality(A) + Cardinality(B) - Cardinality(A \cap B)
    BY <2>1, <2>2, FS_Union
  <2>4. IsFiniteSet(A \cap B) /\ Cardinality(A \cap B) \in Nat
    <3>1. A \cap B \in SUBSET B
      OBVIOUS
    <3> QED
      BY <3>1, FS_Subset, FS_CardinalityType
  <2>5. DOMAIN files \in SUBSET (A \cup B)
    BY <2>1 DEF Split, Named
  <2>6. /\ IsFiniteSet(DOMAIN files)
        /\ Cardinality(DOMAIN files) <= Cardinality(A \cup B)
    BY <2>3, <2>5, FS_Subset
  <2>7. /\ Cardinality(A) \in Nat /\ Cardinality(B) \in Nat
        /\ Cardinality(A \cup B) \in Nat /\ Cardinality(DOMAIN files) \in Nat
    BY <2>1, <2>2, <2>3, <2>6, FS_CardinalityType
  <2>8. Cardinality(B) <= restarts /\ restarts \in Nat
    BY <2>1 DEF Split, Spread, HInv, TypeOK
  <2>9. RetentionSec \div RotateSec \in Nat
    OBVIOUS
  <2> QED
    BY <2>2, <2>3, <2>4, <2>6, <2>7, <2>8, <2>9 DEF FilesBounded
<1>2. Spec => []Spread
  BY SpreadInit, SpreadNext, PTL DEF Spec
<1> QED
  BY <1>1, <1>2, PTL
=============================================================================
