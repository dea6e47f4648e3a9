---------------------------- MODULE WatcherProofs ----------------------------
(***************************************************************************)
(* No change is forgotten, for any files and capacities.  The events of a  *)
(* file stand in one line, from the coordinator's batch to the source:     *)
(* place 0 is the batch, then come the batches of the two channels, then   *)
(* what is pending, then what the source has reported and the debouncer    *)
(* has not seen.  Forwarding moves nothing in this line, taking a batch    *)
(* shifts it, a flush inserts an empty place, the debouncer merges two     *)
(* neighbours.                                                             *)
(***************************************************************************)
EXTENDS Watcher, TLAPS

Removal == {"DELETE", "RENAME"}
Upsert  == {"CREATE", "MODIFY"}

-----------------------------------------------------------------------------
(* Lines: h[n] are the operations at place n.                              *)

\* Whoever has handled the line before place n does not know the file: the last
\* operation there takes it away, or there is none and it is not known (k = 0).
Gone(h, n, k) ==
    \/ \E m \in Nat : /\ m < n /\ h[m] \cap Removal # {}
                      /\ \A i \in Nat : m < i /\ i < n => h[i] = {}
    \/ k = 0 /\ \A m \in Nat : m < n => h[m] = {}

\* Whoever has handled the line has seen the file as it is (d): the last
\* operation brings it, or there is none and it is known.
Fresh(h, k, d) ==
    \/ \E m \in Nat : h[m] \cap Upsert # {} /\ \A i \in Nat : m < i => h[i] = {}
    \/ k = d /\ \A m \in Nat : h[m] = {}

\* The line of a file: front is the place of the last batch, back that of the last
\* event, k what is known, d what is on disk, seen what the source has reported
\* of it, first the first of the operations merged at front + 1.
LineOK(h, front, back, k, d, seen, first) ==
    /\ \A n \in Nat : \A a, b \in h[n] : a = b
    /\ \A n \in Nat : n > back => h[n] = {}
    /\ \A n \in Nat : n > front + 1 /\ "CREATE" \in h[n] => Gone(h, n, k)
    /\ first = "CREATE" => /\ Gone(h, front + 1, k)
                           /\ "CREATE" \in h[front + 1] \/ "RENAME" \in h[front + 1]
    /\ seen = 0 => Gone(h, back + 1, k)
    /\ seen = d /\ d # 0 => Fresh(h, k, d)
    /\ \A n \in Nat : "RENAME" \in h[n] => d = 0

Lines == [Nat -> SUBSET Operation]

\* An empty place goes: what follows moves up.
LEMMA PlaceGoes ==
    ASSUME NEW h \in Lines, NEW g \in Lines, NEW j \in Nat, NEW k, NEW n \in Nat, h[j] = {},
           \A m \in Nat : g[m] = IF m < j THEN h[m] ELSE h[m + 1],
           Gone(h, n, k)
    PROVE  (n <= j => Gone(g, n, k)) /\ (n > j => Gone(g, n - 1, k))
<1> DEFINE r == IF n <= j THEN n ELSE n - 1
<1>1. CASE k = 0 /\ \A m \in Nat : m < n => h[m] = {}
  <2>1. \A m \in Nat : m < r => g[m] = {}
    BY <1>1
  <2> QED
    BY <1>1, <2>1 DEF Gone
<1>2. ASSUME NEW m \in Nat, m < n, h[m] \cap Removal # {},
             \A i \in Nat : m < i /\ i < n => h[i] = {}
      PROVE  Gone(g, r, k)
  <2> DEFINE q == IF m < j THEN m ELSE m - 1
  <2>1. m # j
    BY <1>2
  <2>2. q \in Nat /\ q < r /\ g[q] = h[m]
    BY <1>2, <2>1
  <2>3. \A i \in Nat : q < i /\ i < r => g[i] = {}
    BY <1>2, <2>1
  <2> QED
    BY <1>2, <2>2, <2>3 DEF Gone
<1>3. r \in Nat /\ Gone(g, r, k)
  BY <1>1, <1>2 DEF Gone
<1>4. (n <= j => r = n) /\ (n > j => r = n - 1)
  OBVIOUS
<1> HIDE DEF r
<1> QED
  BY <1>3, <1>4

\* The same of Fresh.
LEMMA PlaceGoesFresh ==
    ASSUME NEW h \in Lines, NEW g \in Lines, NEW j \in Nat, NEW k, NEW d, h[j] = {},
           \A m \in Nat : g[m] = IF m < j THEN h[m] ELSE h[m + 1],
           Fresh(h, k, d)
    PROVE  Fresh(g, k, d)
<1>1. CASE k = d /\ \A m \in Nat : h[m] = {}
  BY <1>1 DEF Fresh
<1>2. ASSUME NEW m \in Nat, h[m] \cap Upsert # {}, \A i \in Nat : m < i => h[i] = {}
      PROVE  Fresh(g, k, d)
  <2> DEFINE q == IF m < j THEN m ELSE m - 1
  <2>1. m # j
    BY <1>2
  <2>2. q \in Nat /\ g[q] = h[m]
    BY <1>2, <2>1
  <2>3. \A i \in Nat : q < i => g[i] = {}
    BY <1>2, <2>1
  <2> QED
    BY <1>2, <2>2, <2>3 DEF Fresh
<1> QED
  BY <1>1, <1>2 DEF Fresh

\* An empty place comes: what follows moves down.
LEMMA PlaceComes ==
    ASSUME NEW h \in Lines, NEW g \in Lines, NEW j \in Nat, NEW k, NEW n \in Nat,
           \A m \in Nat : g[m] = IF m < j THEN h[m] ELSE IF m = j THEN {} ELSE h[m - 1],
           Gone(h, n, k)
    PROVE  (n <= j => Gone(g, n, k)) /\ (n >= j => Gone(g, n + 1, k))
<1>1. ASSUME NEW r \in Nat, (n <= j /\ r = n) \/ (n >= j /\ r = n + 1)
      PROVE  Gone(g, r, k)
  <2>1. CASE k = 0 /\ \A m \in Nat : m < n => h[m] = {}
    <3>1. \A m \in Nat : m < r => g[m] = {}
      BY <1>1, <2>1
    <3> QED
      BY <2>1, <3>1 DEF Gone
  <2>2. ASSUME NEW m \in Nat, m < n, h[m] \cap Removal # {},
               \A i \in Nat : m < i /\ i < n => h[i] = {}
        PROVE  Gone(g, r, k)
    <3> DEFINE q == IF m < j THEN m ELSE m + 1
    <3>1. q \in Nat /\ q < r /\ g[q] = h[m]
      BY <1>1, <2>2
    <3>2. \A i \in Nat : q < i /\ i < r => g[i] = {}
      BY <1>1, <2>2
    <3> QED
      BY <2>2, <3>1, <3>2 DEF Gone
  <2> QED
    BY <2>1, <2>2 DEF Gone
<1>2. n + 1 \in Nat
  OBVIOUS
<1>3. n <= j => Gone(g, n, k)
  BY <1>1
<1>4. n >= j => Gone(g, n + 1, k)
  BY <1>1, <1>2
<1> QED
  BY <1>3, <1>4

\* The same of Fresh.
LEMMA PlaceComesFresh ==
    ASSUME NEW h \in Lines, NEW g \in Lines, NEW j \in Nat, NEW k, NEW d,
           \A m \in Nat : g[m] = IF m < j THEN h[m] ELSE IF m = j THEN {} ELSE h[m - 1],
           Fresh(h, k, d)
    PROVE  Fresh(g, k, d)
<1>1. CASE k = d /\ \A m \in Nat : h[m] = {}
  BY <1>1 DEF Fresh
<1>2. ASSUME NEW m \in Nat, h[m] \cap Upsert # {}, \A i \in Nat : m < i => h[i] = {}
      PROVE  Fresh(g, k, d)
  <2> DEFINE q == IF m < j THEN m ELSE m + 1
  <2>1. q \in Nat /\ g[q] = h[m]
    BY <1>2
  <2>2. \A i \in Nat : q < i => g[i] = {}
    BY <1>2
  <2> QED
    BY <1>2, <2>1, <2>2 DEF Fresh
<1> QED
  BY <1>1, <1>2 DEF Fresh

\* What lies before n is all that matters, and empty places do not.
LEMMA GoneSame ==
    ASSUME NEW h \in Lines, NEW g \in Lines, NEW k, NEW n \in Nat,
           \A m \in Nat : m < n => g[m] = h[m],
           Gone(h, n, k)
    PROVE  Gone(g, n, k)
<1>1. CASE k = 0 /\ \A m \in Nat : m < n => h[m] = {}
  BY <1>1 DEF Gone
<1>2. ASSUME NEW m \in Nat, m < n, h[m] \cap Removal # {},
             \A i \in Nat : m < i /\ i < n => h[i] = {}
      PROVE  Gone(g, n, k)
  BY <1>2 DEF Gone
<1> QED
  BY <1>1, <1>2 DEF Gone

\* Gone before a place that is empty is Gone after it.
LEMMA GoneLonger ==
    ASSUME NEW h \in Lines, NEW k, NEW n \in Nat, h[n] = {}, Gone(h, n, k)
    PROVE  Gone(h, n + 1, k)
<1>1. CASE k = 0 /\ \A m \in Nat : m < n => h[m] = {}
  <2>1. \A m \in Nat : m < n + 1 => m < n \/ m = n
    OBVIOUS
  <2> QED
    BY <1>1, <2>1 DEF Gone
<1>2. ASSUME NEW m \in Nat, m < n, h[m] \cap Removal # {},
             \A i \in Nat : m < i /\ i < n => h[i] = {}
      PROVE  Gone(h, n + 1, k)
  <2>1. \A i \in Nat : m < i /\ i < n + 1 => h[i] = {}
    BY <1>2
  <2> QED
    BY <1>2, <2>1 DEF Gone
<1> QED
  BY <1>1, <1>2 DEF Gone

\* Gone after a place that is empty was Gone before it.
LEMMA GoneShorter ==
    ASSUME NEW h \in Lines, NEW k, NEW n \in Nat, h[n] = {}, Gone(h, n + 1, k)
    PROVE  Gone(h, n, k)
<1>1. CASE k = 0 /\ \A m \in Nat : m < n + 1 => h[m] = {}
  BY <1>1 DEF Gone
<1>2. ASSUME NEW m \in Nat, m < n + 1, h[m] \cap Removal # {},
             \A i \in Nat : m < i /\ i < n + 1 => h[i] = {}
      PROVE  Gone(h, n, k)
  <2>1. m < n
    BY <1>2
  <2>2. \A i \in Nat : m < i /\ i < n => h[i] = {}
    BY <1>2
  <2> QED
    BY <1>2, <2>1, <2>2 DEF Gone
<1> QED
  BY <1>1, <1>2 DEF Gone

-----------------------------------------------------------------------------
(* What the steps do to the line of a file.                                *)

\* Its event is the last of the line.
LEMMA OwnEvent ==
    ASSUME NEW h \in Lines, NEW g \in Lines, NEW front \in Nat, NEW back \in Nat,
           back >= front + 1,
           NEW k, NEW d, NEW seen, NEW first, NEW op \in Operation, NEW d2, NEW seen2,
           LineOK(h, front, back, k, d, seen, first),
           g[back + 1] = {op}, \A m \in Nat : m # back + 1 => g[m] = h[m],
           op = "CREATE" => seen = 0,
           op \in Upsert => seen2 = d2 /\ d2 # 0,
           op \in Removal => seen2 = 0 /\ d2 = 0,
           \A m \in Nat : "RENAME" \in h[m] => d2 = 0
    PROVE  LineOK(g, front, back + 1, k, d2, seen2, first)
<1>1. \A n \in Nat : n <= back + 1 /\ Gone(h, n, k) => Gone(g, n, k)
  BY GoneSame
<1>2. \A n \in Nat : \A a, b \in g[n] : a = b
  BY DEF LineOK
<1>3. \A n \in Nat : n > back + 1 => g[n] = {}
  BY DEF LineOK
<1>4. ASSUME NEW n \in Nat, n > front + 1, "CREATE" \in g[n]  PROVE Gone(g, n, k)
  <2>1. CASE n = back + 1
    BY <1>1, <1>4, <2>1 DEF LineOK
  <2>2. CASE n # back + 1
    <3>1. "CREATE" \in h[n]
      BY <1>4, <2>2
    <3>2. n <= back + 1
      BY <3>1 DEF LineOK
    <3> QED
      BY <1>1, <1>4, <3>1, <3>2 DEF LineOK
  <2> QED
    BY <2>1, <2>2
<1>5. first = "CREATE" => /\ Gone(g, front + 1, k)
                          /\ "CREATE" \in g[front + 1] \/ "RENAME" \in g[front + 1]
  BY <1>1 DEF LineOK
<1>6. op \in Removal => Gone(g, back + 2, k)
  <2> SUFFICES ASSUME op \in Removal  PROVE Gone(g, back + 2, k)
    OBVIOUS
  <2> DEFINE m == back + 1
  <2>1. m \in Nat /\ m < back + 2 /\ g[m] \cap Removal # {}
    OBVIOUS
  <2>2. \A i \in Nat : m < i /\ i < back + 2 => g[i] = {}
    OBVIOUS
  <2> HIDE DEF m
  <2> QED
    BY <2>1, <2>2 DEF Gone
<1>7. op \in Upsert => Fresh(g, k, d2)
  <2>1. op \in Upsert => g[back + 1] \cap Upsert # {}
    OBVIOUS
  <2> QED
    BY <1>3, <2>1 DEF Fresh
<1>8. op \in Upsert \/ op \in Removal
  BY DEF Operation, Upsert, Removal
<1>9. \A n \in Nat : "RENAME" \in g[n] => d2 = 0
  BY DEF Removal
<1> QED
  BY <1>2, <1>3, <1>4, <1>5, <1>6, <1>7, <1>8, <1>9 DEF LineOK

\* An event of another file is.
LEMMA OtherEvent ==
    ASSUME NEW h \in Lines, NEW front \in Nat, NEW back \in Nat, back >= front + 1,
           NEW k, NEW d, NEW seen, NEW first,
           LineOK(h, front, back, k, d, seen, first)
    PROVE  LineOK(h, front, back + 1, k, d, seen, first)
<1>1. h[back + 1] = {} /\ (seen = 0 => Gone(h, back + 1, k))
  BY DEF LineOK
<1>2. seen = 0 => Gone(h, (back + 1) + 1, k)
  BY <1>1, GoneLonger
<1> QED
  BY <1>2 DEF LineOK

\* The file changes and nobody has noticed yet.
LEMMA Unnoticed ==
    ASSUME NEW h \in Lines, NEW front \in Nat, NEW back \in Nat,
           NEW k, NEW d, NEW seen, NEW first, NEW d2,
           LineOK(h, front, back, k, d, seen, first),
           d2 # 0 => seen # d2, \A m \in Nat : "RENAME" \notin h[m]
    PROVE  LineOK(h, front, back, k, d2, seen, first)
BY DEF LineOK

\* An empty place before the debouncer goes, or the next one after it.
LEMMA LineMovesUp ==
    ASSUME NEW h \in Lines, NEW g \in Lines, NEW j \in Nat, NEW front \in Nat, NEW back \in Nat,
           NEW k, NEW d, NEW seen, NEW first, NEW front2 \in Nat,
           LineOK(h, front, back, k, d, seen, first), h[j] = {},
           \A m \in Nat : g[m] = IF m < j THEN h[m] ELSE h[m + 1],
           \/ j <= front /\ front2 + 1 = front /\ back >= front + 1
           \/ j = front + 2 /\ front2 = front /\ back >= front + 2
    PROVE  LineOK(g, front2, back - 1, k, d, seen, first)
<1>1. \A n \in Nat : n <= j /\ Gone(h, n, k) => Gone(g, n, k)
  BY PlaceGoes
<1>2. \A n \in Nat : n > j /\ Gone(h, n, k) => Gone(g, n - 1, k)
  BY PlaceGoes
<1>3. \A n \in Nat : \A a, b \in g[n] : a = b
  BY DEF LineOK
<1>4. \A n \in Nat : n > back - 1 => g[n] = {}
  BY DEF LineOK
<1>5. ASSUME NEW n \in Nat, n > front2 + 1, "CREATE" \in g[n]  PROVE Gone(g, n, k)
  <2>1. n >= j
    BY <1>5
  <2>2. "CREATE" \in h[n + 1] /\ n + 1 > front + 1 /\ n + 1 \in Nat
    BY <1>5, <2>1
  <2>3. Gone(h, n + 1, k)
    BY <2>2 DEF LineOK
  <2> QED
    BY <1>2, <2>1, <2>2, <2>3
<1>6. ASSUME first = "CREATE"
      PROVE  /\ Gone(g, front2 + 1, k)
             /\ "CREATE" \in g[front2 + 1] \/ "RENAME" \in g[front2 + 1]
  <2>1. /\ Gone(h, front + 1, k)
        /\ "CREATE" \in h[front + 1] \/ "RENAME" \in h[front + 1]
    BY <1>6 DEF LineOK
  <2>2. CASE j <= front /\ front2 + 1 = front
    <3>1. Gone(g, front + 1 - 1, k)
      BY <1>2, <2>1, <2>2
    <3> QED
      BY <2>1, <2>2, <3>1
  <2>3. CASE j = front + 2 /\ front2 = front
    <3>1. Gone(g, front + 1, k)
      BY <1>1, <2>1, <2>3
    <3> QED
      BY <2>1, <2>3, <3>1
  <2> QED
    BY <2>2, <2>3
<1>7. ASSUME seen = 0  PROVE Gone(g, back - 1 + 1, k)
  <2>1. Gone(h, back + 1, k)
    BY <1>7 DEF LineOK
  <2>2. Gone(g, back + 1 - 1, k)
    BY <1>2, <2>1
  <2> QED
    BY <2>2
<1>8. seen = d /\ d # 0 => Fresh(g, k, d)
  BY PlaceGoesFresh DEF LineOK
<1>9. \A n \in Nat : "RENAME" \in g[n] => d = 0
  BY DEF LineOK
<1> QED
  BY <1>3, <1>4, <1>5, <1>6, <1>7, <1>8, <1>9 DEF LineOK

\* A flush: the place of what is pending is empty again, behind the batch.
LEMMA LineMovesDown ==
    ASSUME NEW h \in Lines, NEW g \in Lines, NEW front \in Nat, NEW back \in Nat,
           back >= front + 1, NEW k, NEW d, NEW seen, NEW first,
           LineOK(h, front, back, k, d, seen, first),
           \A m \in Nat : g[m] = IF m < front + 2 THEN h[m]
                                ELSE IF m = front + 2 THEN {} ELSE h[m - 1]
    PROVE  LineOK(g, front + 1, back + 1, k, d, seen, "none")
<1> DEFINE j == front + 2
<1>0. j \in Nat /\ \A m \in Nat : g[m] = IF m < j THEN h[m] ELSE IF m = j THEN {} ELSE h[m - 1]
  OBVIOUS
<1>1. \A n \in Nat : n >= j /\ Gone(h, n, k) => Gone(g, n + 1, k)
  <2> HIDE DEF j
  <2> QED
    BY <1>0, PlaceComes
<1>2. \A n \in Nat : \A a, b \in g[n] : a = b
  BY DEF LineOK
<1>3. \A n \in Nat : n > back + 1 => g[n] = {}
  BY DEF LineOK
<1>4. ASSUME NEW n \in Nat, n > front + 2, "CREATE" \in g[n]  PROVE Gone(g, n, k)
  <2>1. "CREATE" \in h[n - 1] /\ n - 1 > front + 1 /\ n - 1 \in Nat
    BY <1>4
  <2>2. Gone(h, n - 1, k)
    BY <2>1 DEF LineOK
  <2>3. Gone(g, n - 1 + 1, k)
    BY <1>1, <2>1, <2>2
  <2> QED
    BY <2>3
<1>5. ASSUME seen = 0  PROVE Gone(g, back + 1 + 1, k)
  <2>1. Gone(h, back + 1, k)
    BY <1>5 DEF LineOK
  <2> QED
    BY <1>1, <2>1
<1>6. seen = d /\ d # 0 => Fresh(g, k, d)
  BY PlaceComesFresh DEF LineOK
<1>7. \A n \in Nat : "RENAME" \in g[n] => d = 0
  BY DEF LineOK
<1> QED
  BY <1>2, <1>3, <1>4, <1>5, <1>6, <1>7 DEF LineOK

\* The coordinator handles the event of the file.
LEMMA Handled ==
    ASSUME NEW h \in Lines, NEW g \in Lines, NEW front \in Nat, NEW back \in Nat,
           back >= front + 1, NEW k, NEW d, NEW seen, NEW first, NEW op \in Operation, NEW k2,
           LineOK(h, front, back, k, d, seen, first),
           h[0] = {op}, g[0] = {}, \A m \in Nat : m # 0 => g[m] = h[m],
           op = "DELETE" => k2 = 0, op = "RENAME" => k2 = d, op \in Upsert /\ d # 0 => k2 = d
    PROVE  LineOK(g, front, back, k2, d, seen, first)
<1>1. op \in Removal => k2 = 0
  BY DEF Removal, LineOK
<1>2. ASSUME NEW n \in Nat, n > 0, Gone(h, n, k)  PROVE Gone(g, n, k2)
  <2>1. PICK m \in Nat : /\ m < n /\ h[m] \cap Removal # {}
                         /\ \A i \in Nat : m < i /\ i < n => h[i] = {}
    BY <1>2 DEF Gone
  <2>2. CASE m = 0
    <3>1. op \in Removal
      BY <2>1, <2>2
    <3>2. \A i \in Nat : i < n => g[i] = {}
      BY <2>1, <2>2
    <3> QED
      BY <1>1, <3>1, <3>2 DEF Gone
  <2>3. CASE m # 0
    <3>1. \A i \in Nat : m < i /\ i < n => g[i] = {}
      BY <2>1
    <3>2. g[m] \cap Removal # {}
      BY <2>1, <2>3
    <3> QED
      BY <2>1, <3>1, <3>2 DEF Gone
  <2> QED
    BY <2>2, <2>3
<1>3. ASSUME d # 0, Fresh(h, k, d)  PROVE Fresh(g, k2, d)
  <2>1. PICK m \in Nat : h[m] \cap Upsert # {} /\ \A i \in Nat : m < i => h[i] = {}
    BY <1>3 DEF Fresh
  <2>2. CASE m = 0
    <3>1. op \in Upsert
      BY <2>1, <2>2
    <3>2. \A i \in Nat : g[i] = {}
      BY <2>1, <2>2
    <3> QED
      BY <1>3, <3>1, <3>2 DEF Fresh
  <2>3. CASE m # 0
    BY <2>1, <2>3 DEF Fresh
  <2> QED
    BY <2>2, <2>3
<1>4. \A n \in Nat : n > front + 1 /\ "CREATE" \in g[n] => Gone(g, n, k2)
  BY <1>2 DEF LineOK
<1>5. first = "CREATE" => /\ Gone(g, front + 1, k2)
                          /\ "CREATE" \in g[front + 1] \/ "RENAME" \in g[front + 1]
  BY <1>2 DEF LineOK
<1>6. seen = 0 => Gone(g, back + 1, k2)
  BY <1>2 DEF LineOK
<1>7. \A n \in Nat : g[n] = {} \/ g[n] = h[n]
  OBVIOUS
<1> QED
  BY <1>3, <1>4, <1>5, <1>6, <1>7 DEF LineOK

\* What the debouncer makes of old, whose first operation was first, and op.
Merges(first, old, op, merged, first2) ==
    /\ first = "none" <=> old = "none"
    /\ merged = IF old = "none" THEN op ELSE Coalesce(first, old, op)
    /\ first2 = IF merged = "none" THEN "none" ELSE IF first = "none" THEN op ELSE first

\* The operation after the pending one is merged into it: the two places become one.
\* When a creation and a removal cancel out, the line before them was Gone already.
LEMMA Merged ==
    ASSUME NEW h \in Lines, NEW g \in Lines, NEW front \in Nat, NEW back \in Nat,
           back >= front + 2, NEW k, NEW d, NEW seen, NEW op \in Operation,
           NEW first \in Operation \cup {"none"}, NEW old \in Operation \cup {"none"},
           NEW merged, NEW first2, Merges(first, old, op, merged, first2),
           LineOK(h, front, back, k, d, seen, first),
           h[front + 1] = IF old = "none" THEN {} ELSE {old},
           h[front + 2] = {op},
           \A m \in Nat : m < front + 1 => g[m] = h[m],
           g[front + 1] = IF merged = "none" THEN {} ELSE {merged},
           \A m \in Nat : m > front + 1 => g[m] = h[m + 1]
    PROVE  LineOK(g, front, back - 1, k, d, seen, first2)
<1> USE DEF Merges
<1>1. CASE old = "none"
  <2>1. merged = op /\ merged # "none" /\ first2 = op
    BY <1>1 DEF Operation
  <2>2. h[front + 1] = {} /\ g[front + 1] = h[front + 2]
    BY <1>1, <2>1
  <2>3. front + 1 \in Nat /\ \A m \in Nat : g[m] = IF m < front + 1 THEN h[m] ELSE h[m + 1]
    <3> SUFFICES ASSUME NEW m \in Nat  PROVE g[m] = IF m < front + 1 THEN h[m] ELSE h[m + 1]
      OBVIOUS
    <3>1. CASE m = front + 1
      <4>1. m + 1 = front + 2
        BY <3>1
      <4>2. h[m + 1] = h[front + 2]
        BY <4>1
      <4>3. g[m] = h[m + 1]
        BY <2>2, <3>1, <4>2
      <4> QED
        BY <3>1, <4>3
    <3>2. CASE m # front + 1
      BY <3>2
    <3> QED
      BY <3>1, <3>2
  <2>4. \A n \in Nat : Gone(h, n, k) => (n > front + 1 => Gone(g, n - 1, k))
    BY <2>2, <2>3, PlaceGoes
  <2>5. Fresh(h, k, d) => Fresh(g, k, d)
    BY <2>2, <2>3, PlaceGoesFresh
  <2>6. \A n \in Nat : \A a, b \in g[n] : a = b
    BY <2>3 DEF LineOK
  <2>7. \A n \in Nat : n > back - 1 => g[n] = {}
    BY <2>3 DEF LineOK
  <2>8. ASSUME NEW n \in Nat, n > front, "CREATE" \in g[n]  PROVE Gone(g, n, k)
    <3>1. "CREATE" \in h[n + 1] /\ n + 1 > front + 1 /\ n + 1 \in Nat
      BY <2>3, <2>8
    <3>2. Gone(h, n + 1, k)
      BY <3>1 DEF LineOK
    <3>3. Gone(g, n + 1 - 1, k)
      BY <2>4, <3>1, <3>2
    <3> QED
      BY <3>3
  <2>9. op = "CREATE" => Gone(g, front + 1, k) /\ "CREATE" \in g[front + 1]
    BY <2>2, <2>8
  <2>10. ASSUME seen = 0  PROVE Gone(g, back - 1 + 1, k)
    <3>1. Gone(h, back + 1, k)
      BY <2>10 DEF LineOK
    <3>2. Gone(g, back + 1 - 1, k)
      BY <2>4, <3>1
    <3> QED
      BY <3>2
  <2>11. \A n \in Nat : "RENAME" \in g[n] => d = 0
    BY <2>3 DEF LineOK
  <2>12. seen = d /\ d # 0 => Fresh(g, k, d)
    BY <2>5 DEF LineOK
  <2> QED
    BY <2>1, <2>6, <2>7, <2>8, <2>9, <2>10, <2>11, <2>12 DEF LineOK
<1>2. CASE old # "none"
  <2>1. merged = Coalesce(first, old, op) /\ first # "none" /\ h[front + 1] = {old}
    BY <1>2
  <2>2. /\ op \in Removal => merged = op \/ (merged = "none" /\ first = "CREATE")
        /\ op \in Upsert => merged \in Upsert \/ (first = "CREATE" /\ merged = old)
        /\ merged \in {op, old, "MODIFY", "none"}
        /\ first = "CREATE" /\ merged # "none" => merged \in {old, "CREATE", "RENAME"}
    BY <2>1 DEF Coalesce, Operation, Removal, Upsert
  <2>3. first = "CREATE" => Gone(h, front + 1, k) /\ Gone(g, front + 1, k)
    BY GoneSame DEF LineOK
  <2>4. first = "CREATE" => old \in {"CREATE", "RENAME"}
    BY <2>1 DEF LineOK
  <2>5. ASSUME NEW n \in Nat, n > front + 2, Gone(h, n, k)  PROVE Gone(g, n - 1, k)
    <3>1. PICK m \in Nat : /\ m < n /\ h[m] \cap Removal # {}
                           /\ \A i \in Nat : m < i /\ i < n => h[i] = {}
      BY <2>5 DEF Gone
    <3>2. m >= front + 2
      BY <2>5, <3>1
    <3>3. \A i \in Nat : front + 1 < i /\ m - 1 < i /\ i < n - 1 => g[i] = {}
      BY <3>1, <3>2
    <3>4. CASE m > front + 2
      <4>1. m - 1 \in Nat /\ m - 1 < n - 1 /\ g[m - 1] \cap Removal # {}
        BY <3>1, <3>4
      <4>2. \A i \in Nat : m - 1 < i /\ i < n - 1 => g[i] = {}
        BY <3>3, <3>4
      <4> QED
        BY <4>1, <4>2 DEF Gone
    <3>5. CASE m = front + 2 /\ merged # "none"
      <4>1. op \in Removal /\ merged = op
        BY <2>2, <3>1, <3>5
      <4>2. front + 1 \in Nat /\ front + 1 < n - 1 /\ g[front + 1] \cap Removal # {}
        BY <2>5, <3>1, <3>5, <4>1
      <4>3. \A i \in Nat : front + 1 < i /\ i < n - 1 => g[i] = {}
        BY <3>3, <3>5
      <4> QED
        BY <4>2, <4>3 DEF Gone
    <3>6. CASE m = front + 2 /\ merged = "none"
      <4>1. op \in Removal /\ Gone(g, front + 1, k)
        BY <2>2, <2>3, <3>1, <3>6 DEF Removal
      <4>2. \A i \in Nat : front + 1 <= i /\ i < n - 1 => g[i] = {}
        BY <3>3, <3>6
      <4>3. CASE k = 0 /\ \A q \in Nat : q < front + 1 => g[q] = {}
        <5>1. \A q \in Nat : q < n - 1 => g[q] = {}
          BY <4>2, <4>3
        <5> QED
          BY <4>3, <5>1 DEF Gone
      <4>4. ASSUME NEW q \in Nat, q < front + 1, g[q] \cap Removal # {},
                   \A i \in Nat : q < i /\ i < front + 1 => g[i] = {}
            PROVE  Gone(g, n - 1, k)
        <5>1. q < n - 1 /\ \A i \in Nat : q < i /\ i < n - 1 => g[i] = {}
          BY <2>5, <4>2, <4>4
        <5> QED
          BY <4>4, <5>1 DEF Gone
      <4> QED
        BY <4>1, <4>3, <4>4 DEF Gone
    <3> QED
      BY <3>2, <3>4, <3>5, <3>6
  <2>6. ASSUME d # 0, Fresh(h, k, d)  PROVE Fresh(g, k, d)
    <3>1. PICK m \in Nat : h[m] \cap Upsert # {} /\ \A i \in Nat : m < i => h[i] = {}
      BY <2>6 DEF Fresh
    <3>2. m >= front + 2
      BY <3>1
    <3>3. \A i \in Nat : front + 1 < i /\ m - 1 < i => g[i] = {}
      BY <3>1, <3>2
    <3>4. CASE m > front + 2
      <4>1. m - 1 \in Nat /\ g[m - 1] \cap Upsert # {}
        BY <3>1, <3>4
      <4>2. \A i \in Nat : m - 1 < i => g[i] = {}
        BY <3>3, <3>4
      <4> QED
        BY <4>1, <4>2 DEF Fresh
    <3>5. CASE m = front + 2
      <4>1. op \in Upsert
        BY <3>1, <3>5
      <4>2. "RENAME" \notin h[front + 1]
        BY <2>6 DEF LineOK
      <4>3. merged \in Upsert
        BY <2>1, <2>2, <2>4, <4>1, <4>2 DEF Upsert
      <4>4. g[front + 1] = {merged}
        BY <4>3 DEF Upsert
      <4>5. \A i \in Nat : front + 1 < i => g[i] = {}
        BY <3>3, <3>5
      <4> QED
        BY <4>3, <4>4, <4>5 DEF Fresh
    <3> QED
      BY <3>2, <3>4, <3>5
  <2>7. \A n \in Nat : \A a, b \in g[n] : a = b
    <3> TAKE n \in Nat
    <3>1. n < front + 1 \/ n = front + 1 \/ n > front + 1
      OBVIOUS
    <3> QED
      BY <3>1 DEF LineOK
  <2>8. \A n \in Nat : n > back - 1 => g[n] = {}
    BY DEF LineOK
  <2>9. ASSUME NEW n \in Nat, n > front + 1, "CREATE" \in g[n]  PROVE Gone(g, n, k)
    <3>1. "CREATE" \in h[n + 1] /\ n + 1 > front + 2 /\ n + 1 \in Nat
      BY <2>9
    <3>2. Gone(h, n + 1, k)
      BY <3>1 DEF LineOK
    <3>3. Gone(g, n + 1 - 1, k)
      BY <2>5, <3>1, <3>2
    <3> QED
      BY <3>3
  <2>10. ASSUME first2 = "CREATE"
         PROVE  /\ Gone(g, front + 1, k)
                /\ "CREATE" \in g[front + 1] \/ "RENAME" \in g[front + 1]
    BY <2>1, <2>2, <2>3, <2>4, <2>10
  <2>11. ASSUME seen = 0  PROVE Gone(g, back - 1 + 1, k)
    <3>1. Gone(h, back + 1, k)
      BY <2>11 DEF LineOK
    <3>2. Gone(g, back + 1 - 1, k)
      BY <2>5, <3>1
    <3> QED
      BY <3>2
  <2>12. ASSUME NEW n \in Nat, "RENAME" \in g[n]  PROVE d = 0
    <3>1. CASE n = front + 1
      <4>1. merged = "RENAME"
        BY <2>12, <3>1
      <4>2. "RENAME" \in h[front + 1] \/ "RENAME" \in h[front + 2]
        BY <2>1, <2>2, <4>1
      <4> QED
        BY <4>2 DEF LineOK
    <3>2. CASE n # front + 1
      BY <2>12, <3>2 DEF LineOK
    <3> QED
      BY <3>1, <3>2
  <2>13. seen = d /\ d # 0 => Fresh(g, k, d)
    BY <2>6 DEF LineOK
  <2> QED
    BY <2>7, <2>8, <2>9, <2>10, <2>11, <2>12, <2>13 DEF LineOK
<1> QED
  BY <1>1, <1>2

-----------------------------------------------------------------------------
(* Places: what is there when the batch is b, the channels hold ev and out, *)
(* pend is pending and src is what the source still holds.                 *)

Place(b, ev, out, pend, src, n) ==
    IF n = 0 THEN b
    ELSE IF n <= Len(ev) THEN ev[n]
    ELSE IF n <= Len(ev) + Len(out) THEN out[n - Len(ev)]
    ELSE IF n = Len(ev) + Len(out) + 1 THEN pend
    ELSE IF n <= Len(ev) + Len(out) + 1 + Len(src) THEN {src[n - Len(ev) - Len(out) - 1]}
    ELSE {}

\* What Append does to a sequence.
LEMMA AppendAt ==
    ASSUME NEW S, NEW s \in Seq(S), NEW x \in S
    PROVE  /\ Append(s, x) \in Seq(S) /\ Len(s) \in Nat /\ Len(Append(s, x)) = Len(s) + 1
           /\ Append(s, x)[Len(s) + 1] = x
           /\ \A i \in Nat : 1 <= i /\ i <= Len(s) => Append(s, x)[i] = s[i]
OBVIOUS

\* What Tail leaves of a sequence.
LEMMA TailAt ==
    ASSUME NEW S, NEW s \in Seq(S), s # <<>>
    PROVE  /\ Tail(s) \in Seq(S) /\ Len(s) \in Nat \ {0} /\ Len(Tail(s)) = Len(s) - 1 /\ s[1] = Head(s)
           /\ \A i \in Nat : 1 <= i /\ i < Len(s) => Tail(s)[i] = s[i + 1]
OBVIOUS

\* A reported event stands at the first place after the others.
LEMMA ReportedLast ==
    ASSUME NEW b, NEW pend, NEW S, NEW ev \in Seq(S), NEW out \in Seq(S), NEW T, NEW src \in Seq(T),
           NEW e \in T, NEW n \in Nat, n = Len(ev) + Len(out) + 1 + Len(src) + 1
    PROVE  \A x : x \in Place(b, ev, out, pend, Append(src, e), n) <=> x = e
<1> DEFINE src2 == Append(src, e)
<1>1. Len(src2) = Len(src) + 1 /\ src2[Len(src) + 1] = e
  BY AppendAt
<1>2. Len(ev) \in Nat /\ Len(out) \in Nat /\ Len(src) \in Nat
  OBVIOUS
<1> HIDE DEF src2
<1>3. n - Len(ev) - Len(out) - 1 = Len(src) + 1
  BY <1>2
<1>4. src2[n - Len(ev) - Len(out) - 1] = e
  BY <1>1, <1>3
<1>5. Place(b, ev, out, pend, src2, n) = {e}
  BY <1>1, <1>2, <1>4 DEF Place
<1> QED
  BY <1>5 DEF src2

\* The other places keep what is there.
LEMMA ReportedElsewhere ==
    ASSUME NEW b, NEW pend, NEW S, NEW ev \in Seq(S), NEW out \in Seq(S), NEW T, NEW src \in Seq(T),
           NEW e \in T, NEW n \in Nat, n # Len(ev) + Len(out) + 1 + Len(src) + 1
    PROVE  Place(b, ev, out, pend, Append(src, e), n) = Place(b, ev, out, pend, src, n)
<1> DEFINE src2 == Append(src, e)
           i == n - Len(ev) - Len(out) - 1
<1>1. Len(src2) = Len(src) + 1 /\ \A q \in Nat : 1 <= q /\ q <= Len(src) => src2[q] = src[q]
  BY AppendAt
<1>2. Len(ev) \in Nat /\ Len(out) \in Nat /\ Len(src) \in Nat
  OBVIOUS
<1> SUFFICES Place(b, ev, out, pend, src2, n) = Place(b, ev, out, pend, src, n)
  OBVIOUS
<1> HIDE DEF src2
<1>3. CASE n <= Len(ev) + Len(out) + 1
  BY <1>2, <1>3 DEF Place
<1>4. CASE n > Len(ev) + Len(out) + 1 /\ n <= Len(ev) + Len(out) + 1 + Len(src)
  <2>1. i \in Nat /\ 1 <= i /\ i <= Len(src)
    BY <1>2, <1>4
  <2>2. src2[i] = src[i]
    BY <1>1, <2>1
  <2> QED
    BY <1>1, <1>2, <1>4, <2>2 DEF Place
<1>5. CASE n > Len(ev) + Len(out) + 1 + Len(src) + 1
  BY <1>1, <1>2, <1>5 DEF Place
<1>6. \/ n <= Len(ev) + Len(out) + 1
      \/ n > Len(ev) + Len(out) + 1 /\ n <= Len(ev) + Len(out) + 1 + Len(src)
      \/ n > Len(ev) + Len(out) + 1 + Len(src) + 1
  BY <1>2
<1> QED
  BY <1>3, <1>4, <1>5, <1>6, Zenon

\* The next event of the source stands behind what is pending.
LEMMA HeadPlace ==
    ASSUME NEW b, NEW pend, NEW S, NEW ev \in Seq(S), NEW out \in Seq(S),
           NEW T, NEW src \in Seq(T), src # <<>>, NEW n \in Nat, n = Len(ev) + Len(out) + 2
    PROVE  \A x : x \in Place(b, ev, out, pend, src, n) <=> x = Head(src)
<1>1. Len(src) \in Nat \ {0} /\ src[1] = Head(src) /\ Len(ev) \in Nat /\ Len(out) \in Nat
  BY TailAt
<1>2. n - Len(ev) - Len(out) - 1 = 1
  BY <1>1
<1>3. src[n - Len(ev) - Len(out) - 1] = Head(src)
  BY <1>1, <1>2
<1>4. Place(b, ev, out, pend, src, n) = {src[n - Len(ev) - Len(out) - 1]}
  BY <1>1 DEF Place
<1> QED
  BY <1>3, <1>4

\* Where the pending events stand.
LEMMA PendingPlace ==
    ASSUME NEW b, NEW pend, NEW S, NEW ev \in Seq(S), NEW out \in Seq(S), NEW src,
           NEW n \in Nat, n = Len(ev) + Len(out) + 1
    PROVE  Place(b, ev, out, pend, src, n) = pend
BY DEF Place

\* Merging leaves the places of the batches alone.
LEMMA BeforeHead ==
    ASSUME NEW b, NEW pend, NEW pend2, NEW S, NEW ev \in Seq(S), NEW out \in Seq(S),
           NEW src, NEW src2, NEW n \in Nat, n <= Len(ev) + Len(out)
    PROVE  Place(b, ev, out, pend2, src2, n) = Place(b, ev, out, pend, src, n)
BY DEF Place

\* Merging moves what the source still holds up by one place.
LEMMA AfterHead ==
    ASSUME NEW b, NEW pend, NEW pend2, NEW S, NEW ev \in Seq(S), NEW out \in Seq(S),
           NEW T, NEW src \in Seq(T), src # <<>>, NEW n \in Nat, n > Len(ev) + Len(out) + 1
    PROVE  Place(b, ev, out, pend2, Tail(src), n) = Place(b, ev, out, pend, src, n + 1)
<1> DEFINE src2 == Tail(src)
           i == n - Len(ev) - Len(out) - 1
           f == Len(ev) + Len(out)
<1>1. /\ Len(src) \in Nat \ {0} /\ Len(src2) = Len(src) - 1
      /\ \A q \in Nat : 1 <= q /\ q < Len(src) => src2[q] = src[q + 1]
  BY TailAt
<1>2. Len(ev) \in Nat /\ Len(out) \in Nat
  OBVIOUS
<1> HIDE DEF src2
<1>3. n > f + 1
  OBVIOUS
<1>4. Place(b, ev, out, pend2, src2, n) = Place(b, ev, out, pend, src, n + 1)
  <2>1. CASE n <= f + Len(src)
    <3>1. i \in Nat /\ 1 <= i /\ i < Len(src) /\ n + 1 - Len(ev) - Len(out) - 1 = i + 1
      BY <1>1, <1>2, <1>3, <2>1
    <3>2. src2[i] = src[n + 1 - Len(ev) - Len(out) - 1]
      BY <1>1, <3>1
    <3> QED
      BY <1>1, <1>2, <1>3, <2>1, <3>2 DEF Place
  <2>2. CASE n > f + Len(src)
    BY <1>1, <1>2, <1>3, <2>2 DEF Place
  <2> QED
    BY <1>1, <1>2, <2>1, <2>2
<1> QED
  BY <1>4 DEF src2

\* A flush inserts an empty place of pending events behind the new batch.
LEMMA Flushed ==
    ASSUME NEW b, NEW pend, NEW S, NEW ev \in Seq(S), NEW out \in Seq(S), NEW T, NEW src \in Seq(T),
           pend \in S, NEW n \in Nat
    PROVE  /\ n < Len(ev) + Len(out) + 2 =>
                 Place(b, ev, Append(out, pend), {}, src, n) = Place(b, ev, out, pend, src, n)
           /\ n = Len(ev) + Len(out) + 2 => Place(b, ev, Append(out, pend), {}, src, n) = {}
           /\ n > Len(ev) + Len(out) + 2 =>
                 Place(b, ev, Append(out, pend), {}, src, n) = Place(b, ev, out, pend, src, n - 1)
<1> DEFINE out2 == Append(out, pend)
<1>1. /\ Len(out) \in Nat /\ Len(out2) = Len(out) + 1 /\ out2[Len(out) + 1] = pend
      /\ \A q \in Nat : 1 <= q /\ q <= Len(out) => out2[q] = out[q]
  BY AppendAt
<1>2. Len(ev) \in Nat /\ Len(src) \in Nat
  OBVIOUS
<1> HIDE DEF out2
<1>a. Len(out) \in Nat
  OBVIOUS
<1> SUFFICES Place(b, ev, out2, {}, src, n) =
              IF n < Len(ev) + Len(out) + 2 THEN Place(b, ev, out, pend, src, n)
              ELSE IF n = Len(ev) + Len(out) + 2 THEN {} ELSE Place(b, ev, out, pend, src, n - 1)
  BY <1>2, <1>a DEF out2
<1>3. CASE n <= Len(ev)
  BY <1>1, <1>2, <1>3 DEF Place
<1>4. CASE n > Len(ev) /\ n <= Len(ev) + Len(out)
  <2>1. n - Len(ev) \in Nat /\ 1 <= n - Len(ev) /\ n - Len(ev) <= Len(out)
    BY <1>1, <1>2, <1>4
  <2>2. out2[n - Len(ev)] = out[n - Len(ev)]
    BY <1>1, <2>1
  <2> QED
    BY <1>1, <1>2, <1>4, <2>2 DEF Place
<1>5. CASE n = Len(ev) + Len(out) + 1
  <2>1. n - Len(ev) = Len(out) + 1
    BY <1>1, <1>2, <1>5
  <2>2. out2[n - Len(ev)] = pend
    BY <1>1, <2>1
  <2> QED
    BY <1>1, <1>2, <1>5, <2>2 DEF Place
<1>6. CASE n = Len(ev) + Len(out) + 2
  BY <1>1, <1>2, <1>6 DEF Place
<1>7. CASE n > Len(ev) + Len(out) + 2
  <2>1. n - Len(ev) - Len(out2) - 1 = n - 1 - Len(ev) - Len(out) - 1 /\ n - 1 \in Nat
    BY <1>1, <1>2, <1>7
  <2>2. src[n - Len(ev) - Len(out2) - 1] = src[n - 1 - Len(ev) - Len(out) - 1]
    BY <2>1
  <2>3. Place(b, ev, out2, {}, src, n) =
          IF n <= Len(ev) + Len(out) + 2 + Len(src) THEN {src[n - Len(ev) - Len(out2) - 1]} ELSE {}
    BY <1>1, <1>2, <1>7 DEF Place
  <2>4. Place(b, ev, out, pend, src, n - 1) =
          IF n <= Len(ev) + Len(out) + 2 + Len(src) THEN {src[n - 1 - Len(ev) - Len(out) - 1]} ELSE {}
    BY <1>1, <1>2, <1>7 DEF Place
  <2> QED
    BY <1>1, <1>2, <1>7, <2>2, <2>3, <2>4, ~(n < Len(ev) + Len(out) + 2), n # Len(ev) + Len(out) + 2
<1>8. \/ n <= Len(ev)
      \/ n > Len(ev) /\ n <= Len(ev) + Len(out)
      \/ n = Len(ev) + Len(out) + 1
      \/ n = Len(ev) + Len(out) + 2
      \/ n > Len(ev) + Len(out) + 2
  <2>1. \A x, y \in Nat : \/ n <= x
                          \/ n > x /\ n <= x + y
                          \/ n = x + y + 1
                          \/ n = x + y + 2
                          \/ n > x + y + 2
    OBVIOUS
  <2> QED
    BY <1>1, <1>2, <2>1, Zenon
<1> QED
  BY <1>3, <1>4, <1>5, <1>6, <1>7, <1>8, Zenon

\* Where the debouncer's next batch stands.
LEMMA FirstOut ==
    ASSUME NEW b, NEW pend, NEW S, NEW ev \in Seq(S), NEW out \in Seq(S), NEW src, out # <<>>
    PROVE  Place(b, ev, out, pend, src, Len(ev) + 1) = Head(out)
<1>1. Len(out) \in Nat \ {0} /\ out[1] = Head(out) /\ Len(ev) \in Nat
  BY TailAt
<1>2. Len(ev) + 1 - Len(ev) = 1
  BY <1>1
<1>3. out[Len(ev) + 1 - Len(ev)] = Head(out)
  BY <1>1, <1>2
<1> QED
  BY <1>1, <1>3 DEF Place

\* Forwarding a batch moves nothing.
LEMMA Forwarded ==
    ASSUME NEW b, NEW pend, NEW S, NEW ev \in Seq(S), NEW out \in Seq(S), NEW T, NEW src \in Seq(T),
           out # <<>>, NEW n \in Nat
    PROVE  Place(b, Append(ev, Head(out)), Tail(out), pend, src, n) = Place(b, ev, out, pend, src, n)
<1> DEFINE out2 == Tail(out)
           ev2 == Append(ev, Head(out))
<1>1. /\ Len(out) \in Nat \ {0} /\ Len(out2) = Len(out) - 1 /\ out[1] = Head(out) /\ Head(out) \in S
      /\ \A q \in Nat : 1 <= q /\ q < Len(out) => out2[q] = out[q + 1]
  BY TailAt
<1>2. /\ Len(ev) \in Nat /\ Len(ev2) = Len(ev) + 1 /\ ev2[Len(ev) + 1] = Head(out)
      /\ \A q \in Nat : 1 <= q /\ q <= Len(ev) => ev2[q] = ev[q]
  BY <1>1, AppendAt
<1>3. Len(src) \in Nat /\ Len(ev) \in Nat /\ Len(out) \in Nat
  OBVIOUS
<1> HIDE DEF out2, ev2
<1>4. Place(b, ev, out, pend, src, Len(ev) + 1) = Head(out)
  BY FirstOut
<1>5. Place(b, ev2, out2, pend, src, n) = Place(b, ev, out, pend, src, n)
  <2>1. CASE n <= Len(ev)
    <3>1. n # 0 => ev2[n] = ev[n]
      BY <1>2, <2>1
    <3> QED
      BY <1>1, <1>2, <2>1, <3>1 DEF Place
  <2>2. CASE n = Len(ev) + 1
    BY <1>1, <1>2, <1>4, <2>2 DEF Place
  <2>3. CASE n > Len(ev) + 1 /\ n <= Len(ev) + Len(out)
    <3>1. /\ n - Len(ev2) \in Nat /\ 1 <= n - Len(ev2) /\ n - Len(ev2) < Len(out)
          /\ n - Len(ev2) + 1 = n - Len(ev)
      BY <1>1, <1>2, <2>3
    <3>2. out2[n - Len(ev2)] = out[n - Len(ev)]
      BY <1>1, <3>1
    <3> QED
      BY <1>1, <1>2, <2>3, <3>2 DEF Place
  <2>4. CASE n > Len(ev) + Len(out)
    <3>1. n - Len(ev2) - Len(out2) - 1 = n - Len(ev) - Len(out) - 1
      BY <1>1, <1>2
    <3> QED
      BY <1>1, <1>2, <1>3, <2>4, <3>1 DEF Place
  <2> QED
    BY <1>1, <1>2, <2>1, <2>2, <2>3, <2>4
<1> QED
  BY <1>5 DEF ev2, out2

\* A dropped batch leaves its place to the next one.
LEMMA Dropped ==
    ASSUME NEW b, NEW pend, NEW S, NEW ev \in Seq(S), NEW out \in Seq(S), NEW T, NEW src \in Seq(T),
           out # <<>>, NEW n \in Nat
    PROVE  /\ n < Len(ev) + 1 =>
                 Place(b, ev, Tail(out), pend, src, n) = Place(b, ev, out, pend, src, n)
           /\ n >= Len(ev) + 1 =>
                 Place(b, ev, Tail(out), pend, src, n) = Place(b, ev, out, pend, src, n + 1)
<1> DEFINE out2 == Tail(out)
           ev2 == Append(ev, Head(out))
<1>1. /\ Len(out) \in Nat \ {0} /\ Len(out2) = Len(out) - 1 /\ out[1] = Head(out) /\ Head(out) \in S
      /\ \A q \in Nat : 1 <= q /\ q < Len(out) => out2[q] = out[q + 1]
  BY TailAt
<1>2. /\ Len(ev) \in Nat /\ Len(ev2) = Len(ev) + 1 /\ ev2[Len(ev) + 1] = Head(out)
      /\ \A q \in Nat : 1 <= q /\ q <= Len(ev) => ev2[q] = ev[q]
  BY <1>1, AppendAt
<1>3. Len(src) \in Nat /\ Len(ev) \in Nat /\ Len(out) \in Nat
  OBVIOUS
<1> HIDE DEF out2, ev2
<1>4. Place(b, ev, out2, pend, src, n) = IF n < Len(ev) + 1 THEN Place(b, ev, out, pend, src, n)
                                         ELSE Place(b, ev, out, pend, src, n + 1)
  <2>1. CASE n < Len(ev) + 1
    BY <1>1, <1>2, <2>1 DEF Place
  <2>2. CASE n >= Len(ev) + 1 /\ n <= Len(ev) + Len(out) - 1
    <3>1. /\ n - Len(ev) \in Nat /\ 1 <= n - Len(ev) /\ n - Len(ev) < Len(out)
          /\ n - Len(ev) + 1 = n + 1 - Len(ev)
      BY <1>1, <1>2, <2>2
    <3>2. out2[n - Len(ev)] = out[n + 1 - Len(ev)]
      BY <1>1, <3>1
    <3> QED
      BY <1>1, <1>2, <2>2, <3>2 DEF Place
  <2>3. CASE n > Len(ev) + Len(out) - 1
    <3>1. n - Len(ev) - Len(out2) - 1 = n + 1 - Len(ev) - Len(out) - 1
      BY <1>1, <1>2
    <3>2. src[n - Len(ev) - Len(out2) - 1] = src[n + 1 - Len(ev) - Len(out) - 1]
      BY <3>1
    <3>3. CASE n = Len(ev) + Len(out)
      BY <1>1, <1>2, <1>3, <3>3 DEF Place
    <3>4. CASE n > Len(ev) + Len(out)
      <4>1. Place(b, ev, out2, pend, src, n) =
              IF n <= Len(ev) + Len(out) + Len(src) THEN {src[n - Len(ev) - Len(out2) - 1]} ELSE {}
        BY <1>1, <1>2, <1>3, <3>4 DEF Place
      <4>2. Place(b, ev, out, pend, src, n + 1) =
              IF n <= Len(ev) + Len(out) + Len(src) THEN {src[n + 1 - Len(ev) - Len(out) - 1]} ELSE {}
        BY <1>1, <1>2, <1>3, <3>4 DEF Place
      <4> QED
        BY <1>1, <1>2, <3>2, <3>4, <4>1, <4>2
    <3>5. n = Len(ev) + Len(out) \/ n > Len(ev) + Len(out)
      BY <1>3, <2>3
    <3> QED
      BY <3>3, <3>4, <3>5
  <2> QED
    BY <1>1, <1>2, <2>1, <2>2, <2>3
<1> QED
  BY <1>2, <1>4 DEF out2

\* Taking a batch moves every place up by one.
LEMMA BatchTaken ==
    ASSUME NEW b, NEW pend, NEW S, NEW ev \in Seq(S), NEW out \in Seq(S), NEW T, NEW src \in Seq(T),
           ev # <<>>, NEW n \in Nat
    PROVE  Place(Head(ev), Tail(ev), out, pend, src, n) = Place(b, ev, out, pend, src, n + 1)
BY DEF Place

-----------------------------------------------------------------------------
(* The line of a file, and how the places of all files move it.            *)

LineOf(p, b, ev, out, pend, src) ==
    [n \in Nat |-> {op \in Operation : [path |-> p, op |-> op] \in Place(b, ev, out, pend, src, n)}]

FrontOf(ev, out) == Len(ev) + Len(out)
BackOf(ev, out, src) == FrontOf(ev, out) + 1 + Len(src)

\* The line of file p is right.
FileOK(p, b, ev, out, pend, src, k, d, seen, first) ==
    LineOK(LineOf(p, b, ev, out, pend, src), FrontOf(ev, out), BackOf(ev, out, src), k, d, seen, first)

\* A line of a file is a line.
LEMMA LineIs ==
    ASSUME NEW p, NEW b, NEW ev, NEW out, NEW pend, NEW src
    PROVE  /\ LineOf(p, b, ev, out, pend, src) \in Lines
           /\ \A n \in Nat : LineOf(p, b, ev, out, pend, src)[n] =
                 {op \in Operation : [path |-> p, op |-> op] \in Place(b, ev, out, pend, src, n)}
BY DEF LineOf, Lines

\* Equal places hold the same operations of a file.
LEMMA SamePlace ==
    ASSUME NEW p, NEW b, NEW ev, NEW out, NEW pend, NEW src, NEW m \in Nat,
           NEW b2, NEW ev2, NEW out2, NEW pend2, NEW src2, NEW n \in Nat,
           Place(b2, ev2, out2, pend2, src2, n) = Place(b, ev, out, pend, src, m)
    PROVE  LineOf(p, b2, ev2, out2, pend2, src2)[n] = LineOf(p, b, ev, out, pend, src)[m]
BY DEF LineOf

\* A place without events of p holds no operation of p.
LEMMA NotThere ==
    ASSUME NEW p, NEW b, NEW ev, NEW out, NEW pend, NEW src, NEW n \in Nat,
           \A e \in Place(b, ev, out, pend, src, n) : e.path # p
    PROVE  LineOf(p, b, ev, out, pend, src)[n] = {}
<1>1. \A op : [path |-> p, op |-> op].path = p
  OBVIOUS
<1>2. \A op : [path |-> p, op |-> op] \notin Place(b, ev, out, pend, src, n)
  BY <1>1
<1> QED
  BY <1>2 DEF LineOf

\* Where the last batch and the last event stand.
LEMMA FrontIs ==
    ASSUME NEW S, NEW ev \in Seq(S), NEW out \in Seq(S), NEW T, NEW src \in Seq(T)
    PROVE  /\ Len(ev) \in Nat /\ Len(out) \in Nat /\ Len(src) \in Nat
           /\ FrontOf(ev, out) = Len(ev) + Len(out) /\ FrontOf(ev, out) \in Nat
           /\ BackOf(ev, out, src) = Len(ev) + Len(out) + 1 + Len(src) /\ BackOf(ev, out, src) \in Nat
           /\ BackOf(ev, out, src) >= FrontOf(ev, out) + 1
BY DEF FrontOf, BackOf

\* Taking a batch, once the last one is done, keeps the line of every file right.
LEMMA BatchTakenLine ==
    ASSUME NEW p, NEW S, NEW ev \in Seq(S), NEW out \in Seq(S), NEW pend, NEW T, NEW src \in Seq(T),
           NEW k, NEW d, NEW seen, NEW first, ev # <<>>,
           FileOK(p, {}, ev, out, pend, src, k, d, seen, first)
    PROVE  FileOK(p, Head(ev), Tail(ev), out, pend, src, k, d, seen, first)
<1> DEFINE h == LineOf(p, {}, ev, out, pend, src)
           g == LineOf(p, Head(ev), Tail(ev), out, pend, src)
           front == FrontOf(ev, out)
           front2 == FrontOf(Tail(ev), out)
           back == BackOf(ev, out, src)
           j == 0
<1>1. /\ front \in Nat /\ back \in Nat /\ back >= front + 1
      /\ front2 \in Nat /\ front2 + 1 = front /\ BackOf(Tail(ev), out, src) = back - 1
  BY FrontIs, TailAt DEF FrontOf, BackOf
<1>2. \A n \in Nat : Place(Head(ev), Tail(ev), out, pend, src, n) = Place({}, ev, out, pend, src, n + 1)
  BY BatchTaken
<1>3. Place({}, ev, out, pend, src, 0) = {}
  BY DEF Place
<1>4. ASSUME NEW n \in Nat  PROVE g[n] = IF n < j THEN h[n] ELSE h[n + 1]
  <2>1. g[n] = h[n + 1]
    BY <1>2, SamePlace
  <2> QED
    BY <2>1
<1>5. h[j] = {}
  BY <1>3, NotThere
<1>6. h \in Lines /\ g \in Lines
  BY LineIs
<1>7. LineOK(h, front, back, k, d, seen, first)
  BY DEF FileOK
<1>8. LineOK(g, front2, back - 1, k, d, seen, first)
  <2>1. j \in Nat /\ j <= front
    BY <1>1
  <2> HIDE DEF h, g, front, front2, back, j
  <2> QED
    BY <1>1, <1>4, <1>5, <1>6, <1>7, <2>1, LineMovesUp
<1> QED
  BY <1>1, <1>8 DEF FileOK

\* Forwarding a batch keeps the line of every file right.
LEMMA ForwardedLine ==
    ASSUME NEW p, NEW b, NEW S, NEW ev \in Seq(S), NEW out \in Seq(S), NEW pend, NEW T, NEW src \in Seq(T),
           NEW k, NEW d, NEW seen, NEW first, out # <<>>,
           FileOK(p, b, ev, out, pend, src, k, d, seen, first)
    PROVE  FileOK(p, b, Append(ev, Head(out)), Tail(out), pend, src, k, d, seen, first)
<1> DEFINE h == LineOf(p, b, ev, out, pend, src)
           g == LineOf(p, b, Append(ev, Head(out)), Tail(out), pend, src)
<1>1. /\ FrontOf(Append(ev, Head(out)), Tail(out)) = FrontOf(ev, out)
      /\ BackOf(Append(ev, Head(out)), Tail(out), src) = BackOf(ev, out, src)
  <2>1. Len(ev) \in Nat /\ Len(out) \in Nat \ {0} /\ Len(Tail(out)) = Len(out) - 1 /\ Head(out) \in S
    BY TailAt
  <2>2. Len(Append(ev, Head(out))) = Len(ev) + 1
    BY <2>1, AppendAt
  <2> QED
    BY <2>1, <2>2 DEF FrontOf, BackOf
<1>2. ASSUME NEW n \in Nat  PROVE g[n] = h[n]
  <2>1. Place(b, Append(ev, Head(out)), Tail(out), pend, src, n) = Place(b, ev, out, pend, src, n)
    BY Forwarded
  <2> QED
    BY <2>1, SamePlace
<1>3. g = h
  BY <1>2 DEF LineOf
<1> QED
  BY <1>1, <1>3 DEF FileOK

\* Dropping a batch keeps the lines of the files it does not name right.
LEMMA DroppedLine ==
    ASSUME NEW p, NEW b, NEW S, NEW ev \in Seq(S), NEW out \in Seq(S), NEW pend, NEW T, NEW src \in Seq(T),
           NEW k, NEW d, NEW seen, NEW first, out # <<>>, \A e \in Head(out) : e.path # p,
           FileOK(p, b, ev, out, pend, src, k, d, seen, first)
    PROVE  FileOK(p, b, ev, Tail(out), pend, src, k, d, seen, first)
<1> DEFINE h == LineOf(p, b, ev, out, pend, src)
           g == LineOf(p, b, ev, Tail(out), pend, src)
           j == Len(ev) + 1
           front == FrontOf(ev, out)
           front2 == FrontOf(ev, Tail(out))
           back == BackOf(ev, out, src)
<1>1. /\ front \in Nat /\ back \in Nat /\ back >= front + 1
      /\ front2 \in Nat /\ front2 + 1 = front /\ BackOf(ev, Tail(out), src) = back - 1
      /\ j \in Nat /\ j <= front
  <2>1. Len(ev) \in Nat /\ Len(src) \in Nat /\ Len(out) \in Nat \ {0} /\ Len(Tail(out)) = Len(out) - 1
    BY TailAt
  <2> QED
    BY <2>1 DEF FrontOf, BackOf
<1>2. ASSUME NEW n \in Nat  PROVE g[n] = IF n < j THEN h[n] ELSE h[n + 1]
  <2>1. CASE n < j
    <3>1. Place(b, ev, Tail(out), pend, src, n) = Place(b, ev, out, pend, src, n)
      BY <2>1, Dropped
    <3> QED
      BY <2>1, <3>1, SamePlace
  <2>2. CASE n >= j
    <3>1. Place(b, ev, Tail(out), pend, src, n) = Place(b, ev, out, pend, src, n + 1) /\ n + 1 \in Nat
      BY <2>2, Dropped
    <3> QED
      BY <2>2, <3>1, SamePlace
  <2> QED
    BY <1>1, <2>1, <2>2
<1>3. h[j] = {}
  <2>1. Place(b, ev, out, pend, src, j) = Head(out)
    BY FirstOut
  <2> QED
    BY <1>1, <2>1, NotThere
<1>4. h \in Lines /\ g \in Lines
  BY LineIs
<1>5. LineOK(h, front, back, k, d, seen, first)
  BY DEF FileOK
<1>6. LineOK(g, front2, back - 1, k, d, seen, first)
  <2> HIDE DEF h, g, front, front2, back, j
  <2> QED
    BY <1>1, <1>2, <1>3, <1>4, <1>5, LineMovesUp
<1> QED
  BY <1>1, <1>6 DEF FileOK

\* A flush keeps the line of every file right.
LEMMA FlushedLine ==
    ASSUME NEW p, NEW b, NEW S, NEW ev \in Seq(S), NEW out \in Seq(S), NEW pend \in S, NEW T, NEW src \in Seq(T),
           NEW k, NEW d, NEW seen, NEW first,
           FileOK(p, b, ev, out, pend, src, k, d, seen, first)
    PROVE  FileOK(p, b, ev, Append(out, pend), {}, src, k, d, seen, "none")
<1> DEFINE h == LineOf(p, b, ev, out, pend, src)
           g == LineOf(p, b, ev, Append(out, pend), {}, src)
           front == FrontOf(ev, out)
           back == BackOf(ev, out, src)
<1>1. /\ front \in Nat /\ back \in Nat /\ back >= front + 1 /\ front = Len(ev) + Len(out)
      /\ FrontOf(ev, Append(out, pend)) = front + 1 /\ BackOf(ev, Append(out, pend), src) = back + 1
  BY FrontIs, AppendAt DEF FrontOf, BackOf
<1>2. ASSUME NEW n \in Nat
      PROVE  g[n] = IF n < front + 2 THEN h[n] ELSE IF n = front + 2 THEN {} ELSE h[n - 1]
  <2>1. CASE n < front + 2
    <3>1. Place(b, ev, Append(out, pend), {}, src, n) = Place(b, ev, out, pend, src, n)
      BY <1>1, <2>1, Flushed
    <3> QED
      BY <2>1, <3>1, SamePlace
  <2>2. CASE n = front + 2
    <3>1. Place(b, ev, Append(out, pend), {}, src, n) = {}
      BY <1>1, <2>2, Flushed
    <3>2. g[n] = {}
      BY <3>1, NotThere
    <3>3. ~(n < front + 2)
      BY <1>1, <2>2
    <3> QED
      BY <2>2, <3>2, <3>3, Zenon
  <2>3. CASE n > front + 2
    <3>0. n - 1 \in Nat /\ n > Len(ev) + Len(out) + 2
      BY <1>1, <2>3
    <3>1. Place(b, ev, Append(out, pend), {}, src, n) = Place(b, ev, out, pend, src, n - 1) /\ n - 1 \in Nat
      BY <3>0, Flushed
    <3>2. g[n] = h[n - 1]
      BY <3>1, SamePlace
    <3>3. ~(n < front + 2) /\ n # front + 2
      BY <1>1, <2>3
    <3> QED
      BY <3>2, <3>3, Zenon
  <2> QED
    BY <1>1, <2>1, <2>2, <2>3, n < front + 2 \/ n = front + 2 \/ n > front + 2
<1>3. h \in Lines /\ g \in Lines
  BY LineIs
<1>4. LineOK(h, front, back, k, d, seen, first)
  BY DEF FileOK
<1>5. LineOK(g, front + 1, back + 1, k, d, seen, "none")
  <2> HIDE DEF h, g, front, back
  <2> QED
    BY <1>1, <1>2, <1>3, <1>4, LineMovesDown
<1> QED
  BY <1>1, <1>5 DEF FileOK

\* What is pending is dropped, and nothing is pending of p.
LEMMA UnflushedLine ==
    ASSUME NEW p, NEW b, NEW S, NEW ev \in Seq(S), NEW out \in Seq(S), NEW pend, NEW T, NEW src \in Seq(T),
           NEW k, NEW d, NEW seen, NEW first, \A e \in pend : e.path # p,
           FileOK(p, b, ev, out, pend, src, k, d, seen, first)
    PROVE  FileOK(p, b, ev, out, {}, src, k, d, seen, first)
<1> DEFINE h == LineOf(p, b, ev, out, pend, src)
           g == LineOf(p, b, ev, out, {}, src)
<1>1. ASSUME NEW n \in Nat  PROVE g[n] = h[n]
  <2>1. CASE n = Len(ev) + Len(out) + 1
    <3>1. Place(b, ev, out, pend, src, n) = pend /\ Place(b, ev, out, {}, src, n) = {}
      BY <2>1 DEF Place
    <3>2. h[n] = {} /\ g[n] = {}
      BY <3>1, NotThere
    <3> QED
      BY <3>2
  <2>2. CASE n # Len(ev) + Len(out) + 1
    <3>1. Place(b, ev, out, pend, src, n) = Place(b, ev, out, {}, src, n)
      BY <2>2 DEF Place
    <3> QED
      BY <3>1, SamePlace
  <2> QED
    BY <2>1, <2>2
<1>2. g = h
  BY <1>1 DEF LineOf
<1> QED
  BY <1>2 DEF FileOK

\* The coordinator has handled e: of its own file, or of another.
LEMMA HandledLine ==
    ASSUME NEW p, NEW b, NEW S, NEW ev \in Seq(S), NEW out \in Seq(S), NEW pend, NEW T, NEW src \in Seq(T),
           NEW k, NEW d, NEW seen, NEW first, NEW op \in Operation, NEW k2, [path |-> p, op |-> op] \in b,
           op = "DELETE" => k2 = 0, op = "RENAME" => k2 = d, op \in Upsert /\ d # 0 => k2 = d,
           FileOK(p, b, ev, out, pend, src, k, d, seen, first)
    PROVE  FileOK(p, b \ {[path |-> p, op |-> op]}, ev, out, pend, src, k2, d, seen, first)
<1> DEFINE e == [path |-> p, op |-> op]
           h == LineOf(p, b, ev, out, pend, src)
           g == LineOf(p, b \ {e}, ev, out, pend, src)
           front == FrontOf(ev, out)
           back == BackOf(ev, out, src)
<1>1. front \in Nat /\ back \in Nat /\ back >= front + 1
  BY FrontIs
<1>2. LineOK(h, front, back, k, d, seen, first)
  BY DEF FileOK
<1>3. h[0] = {o \in Operation : [path |-> p, op |-> o] \in b}
  BY DEF LineOf, Place
<1>4. \A a \in h[0] : a = op
  BY <1>2, <1>3 DEF LineOK
<1>5. h[0] = {op}
  BY <1>3, <1>4
<1>6. g[0] = {o \in Operation : [path |-> p, op |-> o] \in b \ {e}}
  BY DEF LineOf, Place
<1>7. g[0] = {}
  BY <1>3, <1>4, <1>6
<1>8. ASSUME NEW n \in Nat, n # 0  PROVE g[n] = h[n]
  <2>1. Place(b \ {e}, ev, out, pend, src, n) = Place(b, ev, out, pend, src, n)
    BY <1>8 DEF Place
  <2> QED
    BY <2>1, SamePlace
<1>9. h \in Lines /\ g \in Lines
  BY LineIs
<1>10. LineOK(g, front, back, k2, d, seen, first)
  <2> HIDE DEF h, g, front, back
  <2> QED
    BY <1>1, <1>2, <1>5, <1>7, <1>8, <1>9, Handled
<1> QED
  BY <1>10 DEF FileOK

\* Handling an event keeps the lines of the other files right.
LEMMA OtherHandledLine ==
    ASSUME NEW p, NEW b, NEW S, NEW ev \in Seq(S), NEW out \in Seq(S), NEW pend, NEW T, NEW src \in Seq(T),
           NEW k, NEW d, NEW seen, NEW first, NEW e, e.path # p,
           FileOK(p, b, ev, out, pend, src, k, d, seen, first)
    PROVE  FileOK(p, b \ {e}, ev, out, pend, src, k, d, seen, first)
<1> DEFINE h == LineOf(p, b, ev, out, pend, src)
           g == LineOf(p, b \ {e}, ev, out, pend, src)
<1>1. ASSUME NEW n \in Nat  PROVE g[n] = h[n]
  <2>1. CASE n = 0
    <3>1. \A op : [path |-> p, op |-> op].path = p
      OBVIOUS
    <3>2. \A op : [path |-> p, op |-> op] # e
      BY <3>1
    <3>3. /\ g[0] = {op \in Operation : [path |-> p, op |-> op] \in b \ {e}}
          /\ h[0] = {op \in Operation : [path |-> p, op |-> op] \in b}
      BY DEF LineOf, Place
    <3> QED
      BY <2>1, <3>2, <3>3
  <2>2. CASE n # 0
    <3>1. Place(b \ {e}, ev, out, pend, src, n) = Place(b, ev, out, pend, src, n)
      BY <2>2 DEF Place
    <3> QED
      BY <3>1, SamePlace
  <2> QED
    BY <2>1, <2>2
<1>2. g = h
  BY <1>1 DEF LineOf
<1> QED
  BY <1>2 DEF FileOK

\* The source has reported an event: of its own file, or of another.
LEMMA ReportedLine ==
    ASSUME NEW p, NEW b, NEW S, NEW ev \in Seq(S), NEW out \in Seq(S), NEW pend, NEW T, NEW src \in Seq(T),
           NEW k, NEW d, NEW seen, NEW first, NEW op \in Operation, NEW d2, NEW seen2,
           [path |-> p, op |-> op] \in T,
           FileOK(p, b, ev, out, pend, src, k, d, seen, first),
           op = "CREATE" => seen = 0,
           op \in Upsert => seen2 = d2 /\ d2 # 0,
           op \in Removal => seen2 = 0 /\ d2 = 0,
           \A m \in Nat : "RENAME" \in LineOf(p, b, ev, out, pend, src)[m] => d2 = 0
    PROVE  FileOK(p, b, ev, out, pend, Append(src, [path |-> p, op |-> op]), k, d2, seen2, first)
<1> DEFINE e == [path |-> p, op |-> op]
           h == LineOf(p, b, ev, out, pend, src)
           g == LineOf(p, b, ev, out, pend, Append(src, e))
           front == FrontOf(ev, out)
           back == BackOf(ev, out, src)
<1>1. /\ front \in Nat /\ back \in Nat /\ back >= front + 1 /\ Len(ev) + Len(out) + 1 + Len(src) = back
      /\ BackOf(ev, out, Append(src, e)) = back + 1
  <2>1. Len(src) \in Nat /\ Len(Append(src, e)) = Len(src) + 1
    BY AppendAt
  <2>2. Len(ev) \in Nat /\ Len(out) \in Nat
    OBVIOUS
  <2> QED
    BY <2>1, <2>2 DEF FrontOf, BackOf
<1>2. LineOK(h, front, back, k, d, seen, first)
  BY DEF FileOK
<1>3. g[back + 1] = {op}
  <2>1. back + 1 \in Nat /\ back + 1 = Len(ev) + Len(out) + 1 + Len(src) + 1
    BY <1>1
  <2>2. \A x : x \in Place(b, ev, out, pend, Append(src, e), back + 1) <=> x = e
    BY <2>1, ReportedLast
  <2>3. g[back + 1] = {o \in Operation : [path |-> p, op |-> o] \in Place(b, ev, out, pend, Append(src, e), back + 1)}
    BY <2>1 DEF LineOf
  <2>4. \A o \in Operation : [path |-> p, op |-> o] = e <=> o = op
    OBVIOUS
  <2> HIDE DEF e
  <2> QED
    BY <2>2, <2>3, <2>4
<1>4. ASSUME NEW n \in Nat, n # back + 1  PROVE g[n] = h[n]
  <2>1. n # Len(ev) + Len(out) + 1 + Len(src) + 1
    BY <1>1, <1>4
  <2>2. Place(b, ev, out, pend, Append(src, e), n) = Place(b, ev, out, pend, src, n)
    BY <2>1, ReportedElsewhere
  <2> QED
    BY <2>2, SamePlace
<1>5. h \in Lines /\ g \in Lines /\ \A m \in Nat : "RENAME" \in h[m] => d2 = 0
  BY LineIs
<1>6. LineOK(g, front, back + 1, k, d2, seen2, first)
  <2> HIDE DEF h, g, front, back
  <2> QED
    BY <1>1, <1>2, <1>3, <1>4, <1>5, OwnEvent
<1> QED
  BY <1>1, <1>6 DEF FileOK

\* A reported event keeps the lines of the other files right.
LEMMA OtherReportedLine ==
    ASSUME NEW p, NEW b, NEW S, NEW ev \in Seq(S), NEW out \in Seq(S), NEW pend, NEW T, NEW src \in Seq(T),
           NEW k, NEW d, NEW seen, NEW first, NEW e \in T, e.path # p,
           FileOK(p, b, ev, out, pend, src, k, d, seen, first)
    PROVE  FileOK(p, b, ev, out, pend, Append(src, e), k, d, seen, first)
<1> DEFINE h == LineOf(p, b, ev, out, pend, src)
           g == LineOf(p, b, ev, out, pend, Append(src, e))
           front == FrontOf(ev, out)
           back == BackOf(ev, out, src)
<1>1. /\ front \in Nat /\ back \in Nat /\ back >= front + 1 /\ Len(ev) + Len(out) + 1 + Len(src) = back
      /\ BackOf(ev, out, Append(src, e)) = back + 1
  <2>1. Len(src) \in Nat /\ Len(Append(src, e)) = Len(src) + 1
    BY AppendAt
  <2>2. Len(ev) \in Nat /\ Len(out) \in Nat
    OBVIOUS
  <2> QED
    BY <2>1, <2>2 DEF FrontOf, BackOf
<1>2. LineOK(h, front, back, k, d, seen, first)
  BY DEF FileOK
<1>3. ASSUME NEW n \in Nat  PROVE g[n] = h[n]
  <2>1. CASE n = back + 1
    <3>1. n = Len(ev) + Len(out) + 1 + Len(src) + 1 /\ n > back
      BY <1>1, <2>1
    <3>2. \A x : x \in Place(b, ev, out, pend, Append(src, e), n) <=> x = e
      BY <3>1, ReportedLast
    <3>3. g[n] = {}
      BY <3>2, NotThere
    <3>4. h[n] = {}
      BY <1>2, <3>1 DEF LineOK
    <3> QED
      BY <3>3, <3>4
  <2>2. CASE n # back + 1
    <3>1. n # Len(ev) + Len(out) + 1 + Len(src) + 1
      BY <1>1, <2>2
    <3>2. Place(b, ev, out, pend, Append(src, e), n) = Place(b, ev, out, pend, src, n)
      BY <3>1, ReportedElsewhere
    <3> QED
      BY <3>2, SamePlace
  <2> QED
    BY <2>1, <2>2
<1>4. g = h
  BY <1>3 DEF LineOf
<1>5. h \in Lines
  BY LineIs
<1>6. LineOK(h, front, back + 1, k, d, seen, first)
  <2> HIDE DEF h, front, back
  <2> QED
    BY <1>1, <1>2, <1>5, OtherEvent
<1> QED
  BY <1>1, <1>4, <1>6 DEF FileOK

\* The debouncer has taken the next event of the source: of its own file, or of another.
LEMMA MergedLine ==
    ASSUME NEW p, NEW b, NEW S, NEW ev \in Seq(S), NEW out \in Seq(S), NEW pend, NEW T, NEW src \in Seq(T),
           NEW k, NEW d, NEW seen, NEW pend2, src # <<>>,
           NEW op \in Operation, Head(src) = [path |-> p, op |-> op],
           NEW first \in Operation \cup {"none"}, NEW old \in Operation \cup {"none"},
           NEW merged, NEW first2, Merges(first, old, op, merged, first2),
           {o \in Operation : [path |-> p, op |-> o] \in pend} = IF old = "none" THEN {} ELSE {old},
           {o \in Operation : [path |-> p, op |-> o] \in pend2} = IF merged = "none" THEN {} ELSE {merged},
           FileOK(p, b, ev, out, pend, src, k, d, seen, first)
    PROVE  FileOK(p, b, ev, out, pend2, Tail(src), k, d, seen, first2)
<1> DEFINE h == LineOf(p, b, ev, out, pend, src)
           g == LineOf(p, b, ev, out, pend2, Tail(src))
           front == FrontOf(ev, out)
           back == BackOf(ev, out, src)
<1>1. /\ front \in Nat /\ back \in Nat /\ back >= front + 2 /\ front = Len(ev) + Len(out)
      /\ BackOf(ev, out, Tail(src)) = back - 1
  <2>1. Len(src) \in Nat \ {0} /\ Len(Tail(src)) = Len(src) - 1
    BY TailAt
  <2>2. Len(ev) \in Nat /\ Len(out) \in Nat
    OBVIOUS
  <2> QED
    BY <2>1, <2>2 DEF FrontOf, BackOf
<1>2. LineOK(h, front, back, k, d, seen, first)
  BY DEF FileOK
<1>3. h[front + 1] = IF old = "none" THEN {} ELSE {old}
  <2>1. front + 1 \in Nat /\ front + 1 = Len(ev) + Len(out) + 1
    BY <1>1
  <2>2. Place(b, ev, out, pend, src, front + 1) = pend
    BY <2>1, PendingPlace
  <2>3. h[front + 1] = {o \in Operation : [path |-> p, op |-> o] \in pend}
    BY <2>1, <2>2 DEF LineOf
  <2> QED
    BY <2>3, Zenon
<1>4. g[front + 1] = IF merged = "none" THEN {} ELSE {merged}
  <2>1. front + 1 \in Nat /\ front + 1 = Len(ev) + Len(out) + 1
    BY <1>1
  <2>2. Place(b, ev, out, pend2, Tail(src), front + 1) = pend2
    BY <2>1, PendingPlace
  <2>3. g[front + 1] = {o \in Operation : [path |-> p, op |-> o] \in pend2}
    BY <2>1, <2>2 DEF LineOf
  <2> QED
    BY <2>3, Zenon
<1>5. h[front + 2] = {op}
  <2>1. front + 2 \in Nat /\ front + 2 = Len(ev) + Len(out) + 2
    BY <1>1
  <2>2. \A x : x \in Place(b, ev, out, pend, src, front + 2) <=> x = Head(src)
    BY <2>1, HeadPlace
  <2>3. h[front + 2] = {o \in Operation : [path |-> p, op |-> o] \in Place(b, ev, out, pend, src, front + 2)}
    BY <2>1 DEF LineOf
  <2>4. \A o \in Operation : [path |-> p, op |-> o] = Head(src) <=> o = op
    OBVIOUS
  <2> QED
    BY <2>2, <2>3, <2>4
<1>6. ASSUME NEW n \in Nat, n < front + 1  PROVE g[n] = h[n]
  <2>1. n <= Len(ev) + Len(out)
    BY <1>1, <1>6
  <2>2. Place(b, ev, out, pend2, Tail(src), n) = Place(b, ev, out, pend, src, n)
    BY <2>1, BeforeHead
  <2> QED
    BY <2>2, SamePlace
<1>7. ASSUME NEW n \in Nat, n > front + 1  PROVE g[n] = h[n + 1]
  <2>1. n > Len(ev) + Len(out) + 1 /\ n + 1 \in Nat
    BY <1>1, <1>7
  <2>2. Place(b, ev, out, pend2, Tail(src), n) = Place(b, ev, out, pend, src, n + 1)
    BY <2>1, AfterHead
  <2> QED
    BY <2>1, <2>2, SamePlace
<1>8. h \in Lines /\ g \in Lines
  BY LineIs
<1>9. LineOK(g, front, back - 1, k, d, seen, first2)
  <2> HIDE DEF h, g, front, back
  <2> QED
    BY <1>1, <1>2, <1>3, <1>4, <1>5, <1>6, <1>7, <1>8, Merged
<1> QED
  BY <1>1, <1>9 DEF FileOK

\* Merging an event keeps the lines of the other files right.
LEMMA OtherMergedLine ==
    ASSUME NEW p, NEW b, NEW S, NEW ev \in Seq(S), NEW out \in Seq(S), NEW pend, NEW T, NEW src \in Seq(T),
           NEW k, NEW d, NEW seen, NEW first, NEW pend2, src # <<>>, Head(src).path # p,
           \A o \in Operation : [path |-> p, op |-> o] \in pend2 <=> [path |-> p, op |-> o] \in pend,
           FileOK(p, b, ev, out, pend, src, k, d, seen, first)
    PROVE  FileOK(p, b, ev, out, pend2, Tail(src), k, d, seen, first)
<1> DEFINE h == LineOf(p, b, ev, out, pend, src)
           g == LineOf(p, b, ev, out, pend2, Tail(src))
           front == FrontOf(ev, out)
           back == BackOf(ev, out, src)
<1>1. /\ front \in Nat /\ back \in Nat /\ back >= front + 2 /\ front = Len(ev) + Len(out)
      /\ BackOf(ev, out, Tail(src)) = back - 1
  <2>1. Len(src) \in Nat \ {0} /\ Len(Tail(src)) = Len(src) - 1
    BY TailAt
  <2>2. Len(ev) \in Nat /\ Len(out) \in Nat
    OBVIOUS
  <2> QED
    BY <2>1, <2>2 DEF FrontOf, BackOf
<1>2. LineOK(h, front, back, k, d, seen, first)
  BY DEF FileOK
<1>3. h[front + 2] = {}
  <2>1. front + 2 \in Nat /\ front + 2 = Len(ev) + Len(out) + 2
    BY <1>1
  <2>2. \A x : x \in Place(b, ev, out, pend, src, front + 2) <=> x = Head(src)
    BY <2>1, HeadPlace
  <2> QED
    BY <2>1, <2>2, NotThere
<1>4. ASSUME NEW n \in Nat  PROVE g[n] = IF n < front + 2 THEN h[n] ELSE h[n + 1]
  <2>1. CASE n <= front
    <3>1. Place(b, ev, out, pend2, Tail(src), n) = Place(b, ev, out, pend, src, n)
      BY <1>1, <2>1, BeforeHead
    <3>2. g[n] = h[n]
      BY <3>1, SamePlace
    <3>3. n < front + 2
      BY <1>1, <2>1
    <3> QED
      BY <3>2, <3>3, Zenon
  <2>2. CASE n = front + 1
    <3>1. n = Len(ev) + Len(out) + 1 /\ n < front + 2
      BY <1>1, <2>2
    <3>2. Place(b, ev, out, pend2, Tail(src), n) = pend2 /\ Place(b, ev, out, pend, src, n) = pend
      BY <3>1, PendingPlace
    <3>3. /\ g[n] = {o \in Operation : [path |-> p, op |-> o] \in pend2}
          /\ h[n] = {o \in Operation : [path |-> p, op |-> o] \in pend}
      BY <3>2 DEF LineOf
    <3>4. g[n] = h[n]
      BY <3>3
    <3> QED
      BY <3>1, <3>4, Zenon
  <2>3. CASE n > front + 1
    <3>1. n > Len(ev) + Len(out) + 1 /\ n + 1 \in Nat /\ ~(n < front + 2)
      BY <1>1, <2>3
    <3>2. Place(b, ev, out, pend2, Tail(src), n) = Place(b, ev, out, pend, src, n + 1)
      BY <3>1, AfterHead
    <3>3. g[n] = h[n + 1]
      BY <3>1, <3>2, SamePlace
    <3> QED
      BY <3>1, <3>3, Zenon
  <2> QED
    BY <1>1, <2>1, <2>2, <2>3, n <= front \/ n = front + 1 \/ n > front + 1
<1>5. h \in Lines /\ g \in Lines
  BY LineIs
<1>6. LineOK(g, front, back - 1, k, d, seen, first)
  <2> DEFINE j == front + 2
  <2> HIDE DEF h, g, front, back
  <2>1. \A m \in Nat : g[m] = IF m < j THEN h[m] ELSE h[m + 1]
    BY <1>4, Zenon
  <2>2. j = front + 2 /\ j \in Nat /\ h[j] = {}
    BY <1>1, <1>3
  <2> HIDE DEF j
  <2> QED
    BY <1>1, <1>2, <1>5, <2>1, <2>2, LineMovesUp
<1> QED
  BY <1>1, <1>6 DEF FileOK

-----------------------------------------------------------------------------
(* The invariant.                                                          *)

Source == IF backend = "polling" THEN polled ELSE kernel

\* What the source has reported of p: fsnotify tells of every change at once.
Seen(p) == IF backend = "polling" THEN baseline[p] ELSE disk[p]

\* Polling knows no RENAME.
Op == IF backend = "polling" THEN Operation \ {"RENAME"} ELSE Operation
Report == [path : Path, op : Op]

TypeInv ==
    /\ backend \in {"fsnotify", "polling"}
    /\ changes \in Nat
    /\ disk \in [Path -> Nat] /\ baseline \in [Path -> Nat] /\ known \in [WatchedFile -> Nat]
    /\ \A p \in Path : baseline[p] <= changes /\ disk[p] <= changes
    /\ kernel \in Seq(Report) /\ polled \in Seq(Report)
    /\ output \in Seq(SUBSET Report) /\ events \in Seq(SUBSET Report) /\ batch \in SUBSET Report
    /\ pending \in [Path -> Op \cup {"none"}]
    /\ firstOp \in [Path -> Op \cup {"none"}]

\* One source is in use, and fsnotify watches the directory of every file.
SourceInv ==
    /\ \A p \in Path : pending[p] = "none" <=> firstOp[p] = "none"
    /\ backend = "polling" => kernel = <<>> /\ watched = {}
    /\ backend = "fsnotify" => /\ polled = <<>>
                               /\ \A p \in WatchedFile : disk[p] # 0 => In[p] \in watched

LineInv ==
    \A p \in WatchedFile :
        p \in lost \/ FileOK(p, batch, events, output, Pending, Source,
                             known[p], disk[p], Seen(p), firstOp[p])

WatcherInv == TypeInv /\ SourceInv /\ LineInv

\* What is pending are events the source can report.
LEMMA PendingType == ASSUME TypeInv  PROVE Pending \in SUBSET Report
BY DEF TypeInv, Pending, Report

\* Head and Tail of a sequence, as types.
LEMMA HeadType == ASSUME NEW S, NEW s \in Seq(S), s # <<>>
                  PROVE  Head(s) \in S /\ Tail(s) \in Seq(S)
OBVIOUS

\* Append, as a type.
LEMMA AppendType == ASSUME NEW S, NEW s \in Seq(S), NEW x \in S  PROVE Append(s, x) \in Seq(S)
OBVIOUS

\* The invariant holds when the watcher starts: every line is empty.
LEMMA WatcherStart == ASSUME WatchInit  PROVE WatcherInv
<1>1. /\ disk \in [Path -> {0, 1}]
      /\ backend = "fsnotify" => \A p \in WatchedFile : disk[p] # 0 => In[p] \in watched
  <2>1. PICK there \in SUBSET Path :
          /\ \A p \in there \cap WatchedFile : In[p] \in there \cup {Root}
          /\ disk = [p \in Path |-> IF p \in there THEN 1 ELSE 0]
          /\ watched = IF backend = "fsnotify" THEN (there \cap SubDir) \cup {Root} ELSE {}
    BY DEF WatchInit
  <2>2. ASSUME backend = "fsnotify", NEW p \in WatchedFile, disk[p] # 0  PROVE In[p] \in watched
    <3>1. p \in there
      BY <2>1, <2>2 DEF Path
    <3>2. In[p] \in there \cup {Root} /\ In[p] \in SubDir \cup {Root}
      BY <2>1, <3>1, WatcherAssumption DEF Dir
    <3> QED
      BY <2>1, <2>2, <3>2
  <2>3. disk \in [Path -> {0, 1}]
    BY <2>1
  <2> QED
    BY <2>2, <2>3
<1>2. TypeInv
  <2>1. \A p \in Path : disk[p] = 0 \/ disk[p] = 1
    BY <1>1
  <2>2. disk \in [Path -> Nat]
    BY <1>1, <2>1
  <2>3. baseline \in [Path -> Nat] /\ \A p \in Path : baseline[p] = 0 \/ baseline[p] = 1
    BY <2>1, <2>2 DEF WatchInit
  <2>4. changes = 1 /\ known = [p \in WatchedFile |-> disk[p]]
    BY DEF WatchInit
  <2>5. known \in [WatchedFile -> Nat] /\ changes \in Nat
    BY <2>1, <2>4 DEF Path
  <2>6. \A p \in Path : baseline[p] <= changes /\ disk[p] <= changes
    <3>1. \A p \in Path : baseline[p] <= 1 /\ disk[p] <= 1
      BY <2>1, <2>3
    <3> QED
      BY <2>4, <3>1
  <2>7. <<>> \in Seq(Report) /\ <<>> \in Seq(SUBSET Report) /\ {} \in SUBSET Report
    OBVIOUS
  <2>8. Nothing \in [Path -> Op \cup {"none"}]
    BY DEF Nothing
  <2> QED
    BY <2>2, <2>3, <2>5, <2>6, <2>7, <2>8 DEF WatchInit, TypeInv
<1>3. SourceInv
  <2>1. backend = "polling" => watched = {}
    BY DEF WatchInit
  <2> QED
    BY <1>1, <2>1 DEF WatchInit, SourceInv, Nothing
<1>4. /\ batch = {} /\ events = <<>> /\ output = <<>> /\ Source = <<>> /\ Pending = {}
  BY DEF WatchInit, Source, Pending, Nothing
<1>5. \A n \in Nat : Place({}, <<>>, <<>>, {}, <<>>, n) = {}
  BY DEF Place
<1>6. ASSUME NEW p \in WatchedFile
      PROVE  FileOK(p, {}, <<>>, <<>>, {}, <<>>, known[p], disk[p], Seen(p), firstOp[p])
  <2> DEFINE h == LineOf(p, {}, <<>>, <<>>, {}, <<>>)
  <2>1. known[p] = disk[p] /\ Seen(p) = disk[p] /\ firstOp[p] = "none"
    BY DEF WatchInit, Seen, Nothing, Path
  <2>2. \A n \in Nat : h[n] = {}
    BY <1>5, NotThere
  <2>3. FrontOf(<<>>, <<>>) \in Nat /\ BackOf(<<>>, <<>>, <<>>) + 1 \in Nat
    BY DEF FrontOf, BackOf
  <2> HIDE DEF h
  <2>4. disk[p] = 0 => \A n \in Nat : Gone(h, n, known[p])
    BY <2>1, <2>2 DEF Gone
  <2>5. Fresh(h, known[p], disk[p])
    BY <2>1, <2>2 DEF Fresh
  <2>6. LineOK(h, FrontOf(<<>>, <<>>), BackOf(<<>>, <<>>, <<>>), known[p], disk[p], Seen(p), firstOp[p])
    BY <2>1, <2>2, <2>3, <2>4, <2>5 DEF LineOK
  <2> QED
    BY <2>6 DEF h, FileOK
<1> QED
  BY <1>2, <1>3, <1>4, <1>6 DEF WatcherInv, LineInv
-----------------------------------------------------------------------------
(* What the steps do.                                                      *)

\* Add merges the event into what is pending of its path, and leaves other paths alone.
LEMMA Added ==
    ASSUME TypeInv, SourceInv, NEW e \in Report, Add(e)
    PROVE  \E merged \in Op \cup {"none"} :
              /\ Merges(firstOp[e.path], pending[e.path], e.op, merged, firstOp'[e.path])
              /\ pending' = [pending EXCEPT ![e.path] = merged]
              /\ pending' \in [Path -> Op \cup {"none"}]
              /\ firstOp' \in [Path -> Op \cup {"none"}]
              /\ \A p \in Path : p # e.path => firstOp'[p] = firstOp[p]
              /\ \A p \in Path : pending'[p] = "none" <=> firstOp'[p] = "none"
<1> DEFINE merged == IF pending[e.path] = "none" THEN e.op
                     ELSE Coalesce(firstOp[e.path], pending[e.path], e.op)
           first  == IF merged = "none" THEN "none"
                     ELSE IF firstOp[e.path] = "none" THEN e.op ELSE firstOp[e.path]
<1>1. e.path \in Path /\ e.op \in Op /\ e.op # "none"
  BY DEF Report, Op, Operation
<1>2. pending[e.path] \in Op \cup {"none"} /\ firstOp[e.path] \in Op \cup {"none"}
  BY <1>1 DEF TypeInv
<1>3. merged \in Op \cup {"none"} /\ first \in Op \cup {"none"}
  BY <1>1, <1>2 DEF Coalesce, Op, Operation
<1>4. pending' = [pending EXCEPT ![e.path] = merged] /\ firstOp' = [firstOp EXCEPT ![e.path] = first]
  BY DEF Add
<1>5. merged = "none" <=> first = "none"
  BY <1>1
<1>6. Merges(firstOp[e.path], pending[e.path], e.op, merged, first)
  BY <1>1 DEF Merges, SourceInv
<1> HIDE DEF merged, first
<1>7. pending' \in [Path -> Op \cup {"none"}] /\ firstOp' \in [Path -> Op \cup {"none"}]
  BY <1>3, <1>4 DEF TypeInv
<1>8. firstOp'[e.path] = first /\ \A p \in Path : p # e.path => firstOp'[p] = firstOp[p]
  BY <1>1, <1>4 DEF TypeInv
<1>9. \A p \in Path : pending'[p] = "none" <=> firstOp'[p] = "none"
  BY <1>4, <1>5 DEF TypeInv, SourceInv
<1> QED
  BY <1>3, <1>4, <1>6, <1>7, <1>8, <1>9

\* What the user does, in one form.
LEMMA UserSteps ==
    ASSUME TypeInv, User
    PROVE  \E p \in Path, op \in Operation, now \in {0, changes + 1} :
              /\ Happens(p, op, now)
              /\ op = "CREATE" => disk[p] = 0 \/ (p \in WatchedFile /\ Replace(p))
              /\ p \in WatchedFile /\ disk[p] = 0 => MakeNew(p)
              /\ disk[p] # 0 => p \in WatchedFile
              /\ op \in Upsert <=> now # 0
<1>1. ASSUME NEW p \in Path, MakeNew(p)
      PROVE  Happens(p, "CREATE", changes + 1) /\ disk[p] = 0
  BY <1>1 DEF MakeNew
<1>2. ASSUME NEW p \in WatchedFile, Write(p)
      PROVE  p \in Path /\ Happens(p, "MODIFY", changes + 1) /\ disk[p] # 0
  BY <1>2 DEF Write, Path
<1>3. ASSUME NEW p \in WatchedFile, Unlink(p) \/ MoveAway(p)
      PROVE  p \in Path /\ \E op \in Removal : Happens(p, op, 0) /\ disk[p] # 0
  BY <1>3 DEF Unlink, MoveAway, Path, Removal
<1>4. ASSUME NEW p \in WatchedFile, Replace(p)
      PROVE  p \in Path /\ Happens(p, "CREATE", changes + 1) /\ disk[p] # 0
  BY <1>4 DEF Replace, Path
<1>5. changes + 1 # 0
  BY DEF TypeInv
<1>6. CASE \E p \in Path : MakeNew(p)
  BY <1>1, <1>5, <1>6 DEF Operation, Upsert
<1>7. CASE \E p \in WatchedFile : Write(p)
  BY <1>2, <1>5, <1>7 DEF Operation, Upsert
<1>8. CASE \E p \in WatchedFile : Unlink(p) \/ MoveAway(p)
  BY <1>3, <1>8 DEF Operation, Upsert, Removal
<1>9. CASE \E p \in WatchedFile : Replace(p)
  BY <1>4, <1>5, <1>9 DEF Operation, Upsert
<1> QED
  BY <1>6, <1>7, <1>8, <1>9 DEF User

\* What a poll of one path does: its event is sent or its path is lost.
LEMMA PollSteps ==
    ASSUME TypeInv, NEW p \in Path, Poll(p)
    PROVE  /\ backend = "polling" /\ baseline' = [baseline EXCEPT ![p] = disk[p]]
           /\ \/ p \in lost' /\ lost' = lost \cup {p} /\ polled' = polled
              \/ \E op \in Op : /\ polled' = Append(polled, [path |-> p, op |-> op]) /\ lost' = lost
                                /\ op = "CREATE" => baseline[p] = 0
                                /\ op \in Upsert => disk[p] # 0
                                /\ op \in Removal => disk[p] = 0
           /\ UNCHANGED <<backend, changes, disk, watched, kernel, pending, firstOp, output, events, batch, known>>
<1> DEFINE op == CASE baseline[p] = 0 -> "CREATE"
                   [] baseline[p] # 0 /\ disk[p] # 0 -> "MODIFY"
                   [] disk[p] = 0     -> "DELETE"
<1>1. backend = "polling" /\ baseline[p] # disk[p] /\ baseline' = [baseline EXCEPT ![p] = disk[p]]
  BY DEF Poll
<1>2. \/ baseline[p] = 0 /\ op = "CREATE"
      \/ baseline[p] # 0 /\ disk[p] # 0 /\ op = "MODIFY"
      \/ baseline[p] # 0 /\ disk[p] = 0 /\ op = "DELETE"
  BY <1>1
<1>3. \/ lost' = lost \cup {p} /\ polled' = polled
      \/ polled' = Append(polled, [path |-> p, op |-> op]) /\ lost' = lost
  BY DEF Poll
<1>4. UNCHANGED <<backend, changes, disk, watched, kernel, pending, firstOp, output, events, batch, known>>
  BY DEF Poll, userVars, debounceVars, clientVars
<1> HIDE DEF op
<1>5. op \in Op /\ (op = "CREATE" => baseline[p] = 0) /\ (op \in Upsert => disk[p] # 0)
      /\ (op \in Removal => disk[p] = 0)
  BY <1>1, <1>2 DEF Op, Operation, Upsert, Removal
<1> QED
  BY <1>1, <1>3, <1>4, <1>5

Quiet == Habits /\ WatchNext

\* A step leaves types and sources as they should be.
LEMMA TypeStep ==
    ASSUME TypeInv, SourceInv, Quiet  PROVE TypeInv' /\ SourceInv'
<1> USE DEF TypeInv, SourceInv
<1>0. backend' = backend => Op' = Op /\ Report' = Report
  BY DEF Op, Report
<1>1. CASE User
  <2>1. PICK p \in Path, op \in Operation, now \in {0, changes + 1} :
           /\ Happens(p, op, now)
           /\ p \in WatchedFile /\ disk[p] = 0 => MakeNew(p)
    BY <1>1, UserSteps
  <2>2. /\ changes' = changes + 1 /\ disk' = [disk EXCEPT ![p] = now]
        /\ kernel' = kernel \/ (Parent(p) \in watched /\ kernel' = Append(kernel, [path |-> p, op |-> op]))
        /\ UNCHANGED <<backend, watched, baseline, polled, pending, firstOp, output, events, batch, known>>
    BY <2>1 DEF Happens, debounceVars, clientVars
  <2>3. kernel' \in Seq(Report) /\ (backend = "polling" => kernel' = kernel)
    <3>1. CASE backend = "polling"
      BY <2>2, <3>1
    <3>2. CASE backend = "fsnotify"
      <4>1. [path |-> p, op |-> op] \in Report
        BY <3>2 DEF Report, Op
      <4>2. Append(kernel, [path |-> p, op |-> op]) \in Seq(Report)
        BY <4>1, AppendType
      <4> QED
        BY <2>2, <3>2, <4>2
    <3> QED
      BY <3>1, <3>2
  <2>4. changes' \in Nat /\ changes <= changes' /\ now \in Nat /\ now <= changes'
    BY <2>2
  <2>5. \A q \in Path : disk'[q] <= changes' /\ baseline'[q] <= changes'
    BY <2>2, <2>4
  <2>6. disk' \in [Path -> Nat]
    BY <2>2, <2>4
  <2>7. TypeInv'
    BY <1>0, <2>2, <2>3, <2>4, <2>5, <2>6
  <2>8. ASSUME backend = "fsnotify", NEW q \in WatchedFile, disk'[q] # 0  PROVE In[q] \in watched
    <3>1. CASE q # p
      BY <2>2, <2>8, <3>1 DEF Path
    <3>2. CASE q = p
      <4>1. disk[p] # 0 \/ MakeNew(p)
        BY <2>1, <2>8, <3>2
      <4>2. MakeNew(p) => In[p] \in watched
        BY <2>8, <3>2 DEF Quiet, Habits, Misread
      <4> QED
        BY <2>8, <3>2, <4>1, <4>2
    <3> QED
      BY <3>1, <3>2
  <2>9. SourceInv'
    BY <2>2, <2>3, <2>8
  <2> QED
    BY <2>7, <2>9
<1>2. CASE HandleFsnotifyEvent
  <2>1. /\ kernel # <<>> /\ Add(Head(kernel)) /\ kernel' = Tail(kernel)
        /\ watched \subseteq watched'
        /\ UNCHANGED <<backend, changes, disk, baseline, polled, output, events, batch, known>>
    BY <1>2 DEF HandleFsnotifyEvent, userVars, clientVars
  <2>2. Head(kernel) \in Report /\ kernel' \in Seq(Report)
    BY <2>1, HeadType
  <2>3. /\ pending' \in [Path -> Op \cup {"none"}]
        /\ firstOp' \in [Path -> Op \cup {"none"}]
        /\ \A p \in Path : pending'[p] = "none" <=> firstOp'[p] = "none"
    BY <2>1, <2>2, Added
  <2>4. backend = "fsnotify"
    BY <2>1
  <2> QED
    BY <1>0, <2>1, <2>2, <2>3, <2>4
<1>3. CASE \E p \in Path : Poll(p)
  <2>1. PICK p \in Path : Poll(p)
    BY <1>3
  <2>2. /\ backend = "polling" /\ baseline' = [baseline EXCEPT ![p] = disk[p]]
        /\ polled' = polled \/ \E op \in Op : polled' = Append(polled, [path |-> p, op |-> op])
        /\ UNCHANGED <<backend, changes, disk, watched, kernel, pending, firstOp, output, events, batch, known>>
    BY <2>1, PollSteps
  <2>3. polled' \in Seq(Report)
    <3>1. \A op \in Op : Append(polled, [path |-> p, op |-> op]) \in Seq(Report)
      BY AppendType DEF Report
    <3> QED
      BY <2>2, <3>1
  <2> QED
    BY <1>0, <2>2, <2>3
<1>4. CASE TakePolled
  <2>1. /\ polled # <<>> /\ Add(Head(polled)) /\ polled' = Tail(polled)
        /\ UNCHANGED <<backend, changes, disk, watched, kernel, baseline, output, events, batch, known>>
    BY <1>4 DEF TakePolled, userVars, clientVars
  <2>2. Head(polled) \in Report /\ polled' \in Seq(Report)
    BY <2>1, HeadType
  <2>3. /\ pending' \in [Path -> Op \cup {"none"}]
        /\ firstOp' \in [Path -> Op \cup {"none"}]
        /\ \A p \in Path : pending'[p] = "none" <=> firstOp'[p] = "none"
    BY <2>1, <2>2, Added
  <2> QED
    BY <1>0, <2>1, <2>2, <2>3
<1>5. CASE Flush
  <2>1. /\ pending' = Nothing /\ firstOp' = Nothing
        /\ output' = output \/ output' = Append(output, Pending)
        /\ UNCHANGED <<backend, changes, disk, watched, kernel, baseline, polled, events, batch, known>>
    BY <1>5 DEF Flush, userVars, sourceVars, clientVars
  <2>2. output' \in Seq(SUBSET Report)
    <3>1. Append(output, Pending) \in Seq(SUBSET Report)
      BY PendingType, AppendType
    <3> QED
      BY <2>1, <3>1
  <2>3. Nothing \in [Path -> Op \cup {"none"}] /\ \A p \in Path : Nothing[p] = "none"
    BY DEF Nothing
  <2> QED
    BY <1>0, <2>1, <2>2, <2>3
<1>6. CASE Forward
  <2>1. /\ output # <<>> /\ output' = Tail(output)
        /\ events' = events \/ events' = Append(events, Head(output))
        /\ UNCHANGED <<backend, changes, disk, watched, kernel, baseline, polled, pending, firstOp, batch, known>>
    BY <1>6 DEF Forward, userVars, sourceVars, clientVars
  <2>2. Head(output) \in SUBSET Report /\ output' \in Seq(SUBSET Report)
    BY <2>1, HeadType
  <2>3. events' \in Seq(SUBSET Report)
    <3>1. Append(events, Head(output)) \in Seq(SUBSET Report)
      BY <2>2, AppendType
    <3> QED
      BY <2>1, <3>1
  <2> QED
    BY <1>0, <2>1, <2>2, <2>3
<1>7. CASE TakeBatch
  <2>1. /\ events # <<>> /\ batch' = Head(events) /\ events' = Tail(events)
        /\ UNCHANGED <<backend, changes, disk, watched, kernel, baseline, polled, pending, firstOp, output, known>>
    BY <1>7 DEF TakeBatch, userVars, sourceVars, debounceVars
  <2>2. batch' \in SUBSET Report /\ events' \in Seq(SUBSET Report)
    BY <2>1, HeadType
  <2> QED
    BY <1>0, <2>1, <2>2
<1>8. CASE \E e \in batch : HandleEvent(e)
  <2>1. PICK e \in batch : HandleEvent(e)
    BY <1>8
  <2>2. /\ batch' \in SUBSET batch
        /\ known' = IF e.path \in WatchedFile THEN [known EXCEPT ![e.path] = Known(e)] ELSE known
        /\ UNCHANGED <<backend, changes, disk, watched, kernel, baseline, polled, pending, firstOp, output, events>>
    BY <2>1 DEF HandleEvent, userVars, sourceVars, debounceVars
  <2>3. e.path \in Path /\ e.op \in Operation
    BY DEF Report, Op
  <2>4. e.path \in WatchedFile => Known(e) \in Nat
    BY <2>3 DEF Known, Operation
  <2>5. known' \in [WatchedFile -> Nat]
    BY <2>2, <2>4
  <2>6. batch' \in SUBSET Report
    BY <2>2
  <2> QED
    BY <1>0, <2>2, <2>5, <2>6
<1> QED
  BY <1>1, <1>2, <1>3, <1>4, <1>5, <1>6, <1>7, <1>8 DEF Quiet, WatchNext, Goroutines
-----------------------------------------------------------------------------
(* What is at the places of a state.                                       *)

\* Every place holds events of the type of its parts.
LEMMA PlaceType ==
    ASSUME NEW S, NEW b \in SUBSET S, NEW ev \in Seq(SUBSET S), NEW out \in Seq(SUBSET S),
           NEW pend \in SUBSET S, NEW src \in Seq(S), NEW n \in Nat
    PROVE  Place(b, ev, out, pend, src, n) \in SUBSET S
<1>1. Len(ev) \in Nat /\ Len(out) \in Nat /\ Len(src) \in Nat
  OBVIOUS
<1>2. CASE n = 0
  BY <1>2 DEF Place
<1>3. CASE 0 < n /\ n <= Len(ev)
  <2>1. ev[n] \in SUBSET S
    BY <1>1, <1>3
  <2> QED
    BY <1>3, <2>1 DEF Place
<1>4. CASE Len(ev) < n /\ n <= Len(ev) + Len(out)
  <2>1. out[n - Len(ev)] \in SUBSET S
    BY <1>1, <1>4
  <2> QED
    BY <1>1, <1>4, <2>1 DEF Place
<1>5. CASE n = Len(ev) + Len(out) + 1
  BY <1>1, <1>5 DEF Place
<1>6. CASE Len(ev) + Len(out) + 1 < n /\ n <= Len(ev) + Len(out) + 1 + Len(src)
  <2>1. src[n - Len(ev) - Len(out) - 1] \in S
    BY <1>1, <1>6
  <2> QED
    BY <1>1, <1>6, <2>1 DEF Place
<1>7. CASE Len(ev) + Len(out) + 1 + Len(src) < n
  BY <1>1, <1>7 DEF Place
<1> QED
  BY <1>1, <1>2, <1>3, <1>4, <1>5, <1>6, <1>7

\* What is at a place is in every set that holds the batches, the pending and the reported.
LEMMA PlaceWithin ==
    ASSUME NEW X, NEW b, NEW S, NEW ev \in Seq(S), NEW out \in Seq(S), NEW pend,
           NEW T, NEW src \in Seq(T), NEW n \in Nat, NEW x,
           x \in Place(b, ev, out, pend, src, n),
           x \in b => x \in X, x \in pend => x \in X,
           \A i \in DOMAIN ev : x \in ev[i] => x \in X,
           \A i \in DOMAIN out : x \in out[i] => x \in X,
           \A i \in DOMAIN src : x = src[i] => x \in X
    PROVE  x \in X
<1>1. /\ Len(ev) \in Nat /\ Len(out) \in Nat /\ Len(src) \in Nat
      /\ DOMAIN ev = 1..Len(ev) /\ DOMAIN out = 1..Len(out) /\ DOMAIN src = 1..Len(src)
  OBVIOUS
<1>2. CASE n = 0
  BY <1>2 DEF Place
<1>3. CASE 0 < n /\ n <= Len(ev)
  BY <1>1, <1>3 DEF Place
<1>4. CASE Len(ev) < n /\ n <= Len(ev) + Len(out)
  <2>1. n - Len(ev) \in 1..Len(out) /\ x \in out[n - Len(ev)]
    BY <1>1, <1>4 DEF Place
  <2> QED
    BY <1>1, <2>1
<1>5. CASE n = Len(ev) + Len(out) + 1
  BY <1>1, <1>5 DEF Place
<1>6. CASE Len(ev) + Len(out) + 1 < n /\ n <= Len(ev) + Len(out) + 1 + Len(src)
  <2>1. n - Len(ev) - Len(out) - 1 \in 1..Len(src) /\ x = src[n - Len(ev) - Len(out) - 1]
    BY <1>1, <1>6 DEF Place
  <2> QED
    BY <1>1, <2>1
<1>7. CASE Len(ev) + Len(out) + 1 + Len(src) < n
  BY <1>1, <1>7 DEF Place
<1> QED
  BY <1>1, <1>2, <1>3, <1>4, <1>5, <1>6, <1>7

\* The source holds events it can report.
LEMMA SourceType == ASSUME TypeInv  PROVE Source \in Seq(Report)
BY DEF TypeInv, Source

\* No line holds a RENAME when the watcher polls.
LEMMA PollingNoRename ==
    ASSUME TypeInv, backend = "polling", NEW p, NEW m \in Nat
    PROVE  "RENAME" \notin LineOf(p, batch, events, output, Pending, Source)[m]
<1>1. Place(batch, events, output, Pending, Source, m) \in SUBSET Report
  BY PlaceType, PendingType, SourceType DEF TypeInv
<1>2. [path |-> p, op |-> "RENAME"] \notin Report
  BY DEF Report, Op
<1> QED
  BY <1>1, <1>2 DEF LineOf

\* A RENAME in the line of a file is one the index has not seen.
LEMMA RenameUnderWay ==
    ASSUME TypeInv, NEW p, NEW m \in Nat,
           "RENAME" \in LineOf(p, batch, events, output, Pending, kernel)[m]
    PROVE  [path |-> p, op |-> "RENAME"] \in UnderWay
<1> DEFINE x == [path |-> p, op |-> "RENAME"]
<1>1. x \in Place(batch, events, output, Pending, kernel, m)
  BY DEF LineOf
<1> HIDE DEF x
<1>2. x \in batch => x \in UnderWay
  BY DEF UnderWay
<1>3. x \in Pending => x \in UnderWay
  BY DEF UnderWay
<1>4. \A i \in DOMAIN events : x \in events[i] => x \in UnderWay
  BY DEF UnderWay
<1>5. \A i \in DOMAIN output : x \in output[i] => x \in UnderWay
  BY DEF UnderWay
<1>6. \A i \in DOMAIN kernel : x = kernel[i] => x \in UnderWay
  BY DEF UnderWay
<1>7. events \in Seq(SUBSET Report) /\ output \in Seq(SUBSET Report) /\ kernel \in Seq(Report)
  BY DEF TypeInv
<1>8. x \in UnderWay
  BY <1>1, <1>2, <1>3, <1>4, <1>5, <1>6, <1>7, PlaceWithin
<1> QED
  BY <1>8 DEF x

\* A renaming away under way tells of a file that is gone.
LEMMA RenameGone ==
    ASSUME NEW p, NEW b, NEW ev, NEW out, NEW pend, NEW src, NEW k, NEW d, NEW seen, NEW first,
           FileOK(p, b, ev, out, pend, src, k, d, seen, first), NEW m \in Nat,
           "RENAME" \in LineOf(p, b, ev, out, pend, src)[m]
    PROVE  d = 0
BY DEF FileOK, LineOK

\* A change polling has not noticed yet keeps the line right.
LEMMA UnnoticedLine ==
    ASSUME NEW p, NEW b, NEW S, NEW ev \in Seq(S), NEW out \in Seq(S), NEW pend, NEW T, NEW src \in Seq(T),
           NEW k, NEW d, NEW seen, NEW first, NEW d2,
           FileOK(p, b, ev, out, pend, src, k, d, seen, first), d2 # 0 => seen # d2,
           \A m \in Nat : "RENAME" \notin LineOf(p, b, ev, out, pend, src)[m]
    PROVE  FileOK(p, b, ev, out, pend, src, k, d2, seen, first)
<1>1. LineOf(p, b, ev, out, pend, src) \in Lines
  BY LineIs
<1>2. FrontOf(ev, out) \in Nat /\ BackOf(ev, out, src) \in Nat
  BY FrontIs
<1> QED
  BY <1>1, <1>2, Unnoticed DEF FileOK

\* The operations pending for p.
LEMMA PendingOf ==
    ASSUME NEW pend \in [Path -> Operation \cup {"none"}], NEW p \in Path,
           NEW P, P = {[path |-> q, op |-> pend[q]] : q \in {q \in Path : pend[q] # "none"}}
    PROVE  {o \in Operation : [path |-> p, op |-> o] \in P} = IF pend[p] = "none" THEN {} ELSE {pend[p]}
<1>1. \A o \in Operation : [path |-> p, op |-> o] \in P <=> pend[p] = o
  <2>1. "none" \notin Operation
    BY DEF Operation
  <2>2. ASSUME NEW o \in Operation, [path |-> p, op |-> o] \in P  PROVE pend[p] = o
    <3>1. PICK q \in Path : [path |-> p, op |-> o] = [path |-> q, op |-> pend[q]]
      BY <2>2
    <3>2. [path |-> p, op |-> o].path = p /\ [path |-> p, op |-> o].op = o
      OBVIOUS
    <3>3. [path |-> q, op |-> pend[q]].path = q /\ [path |-> q, op |-> pend[q]].op = pend[q]
      OBVIOUS
    <3> QED
      BY <3>1, <3>2, <3>3
  <2> QED
    BY <2>1, <2>2
<1>2. CASE pend[p] = "none"
  <2>1. \A o \in Operation : [path |-> p, op |-> o] \notin P
    BY <1>1, <1>2 DEF Operation
  <2> QED
    BY <1>2, <2>1
<1>3. CASE pend[p] \in Operation
  <2> DEFINE X == {o \in Operation : [path |-> p, op |-> o] \in P}
  <2>1. \A o : o \in X <=> o = pend[p]
    BY <1>1, <1>3
  <2>2. pend[p] # "none"
    BY <1>3 DEF Operation
  <2> HIDE DEF X
  <2>3. X = {pend[p]}
    BY <2>1
  <2> QED
    BY <2>2, <2>3 DEF X
<1> QED
  BY <1>2, <1>3

-----------------------------------------------------------------------------
(* Every step leaves the lines of the files right.                         *)

\* The debouncer adds the next event of the source.
LEMMA AddedLine ==
    ASSUME TypeInv, SourceInv, NEW src \in Seq(Report), src # <<>>, Add(Head(src)), NEW p \in WatchedFile,
           NEW k, NEW d, NEW seen,
           FileOK(p, batch, events, output, Pending, src, k, d, seen, firstOp[p])
    PROVE  FileOK(p, batch, events, output, Pending', Tail(src), k, d, seen, firstOp'[p])
<1> DEFINE e == Head(src)
<1>1. e \in Report /\ e.path \in Path /\ e.op \in Op
  <2>1. Head(src) \in Report
    BY HeadType
  <2> HIDE DEF e
  <2>2. e \in Report
    BY <2>1 DEF e
  <2> QED
    BY <2>2 DEF Report
<1>2. Op \subseteq Operation /\ p \in Path
  BY DEF Op, Path
<1>3. PICK merged \in Op \cup {"none"} :
         /\ Merges(firstOp[e.path], pending[e.path], e.op, merged, firstOp'[e.path])
         /\ pending' = [pending EXCEPT ![e.path] = merged]
         /\ pending' \in [Path -> Op \cup {"none"}]
         /\ \A q \in Path : q # e.path => firstOp'[q] = firstOp[q]
  BY <1>1, Added
<1>4. /\ pending \in [Path -> Op \cup {"none"}] /\ firstOp[p] \in Operation \cup {"none"}
      /\ events \in Seq(SUBSET Report) /\ output \in Seq(SUBSET Report)
  BY <1>2 DEF TypeInv
<1>5. pending \in [Path -> Operation \cup {"none"}] /\ pending' \in [Path -> Operation \cup {"none"}]
  BY <1>2, <1>3, <1>4
<1>6. {o \in Operation : [path |-> p, op |-> o] \in Pending}
         = IF pending[p] = "none" THEN {} ELSE {pending[p]}
  BY <1>2, <1>5, PendingOf DEF Pending
<1>7. {o \in Operation : [path |-> p, op |-> o] \in Pending'}
         = IF pending'[p] = "none" THEN {} ELSE {pending'[p]}
  BY <1>2, <1>5, PendingOf DEF Pending
<1>8. CASE e.path = p
  <2>1. Head(src) = [path |-> p, op |-> e.op]
    BY <1>1, <1>8 DEF Report
  <2>2. merged = pending'[p]
    BY <1>2, <1>3, <1>4, <1>8
  <2>3. pending[p] \in Operation \cup {"none"} /\ e.op \in Operation
    BY <1>1, <1>2, <1>5
  <2> HIDE DEF e
  <2>4. Merges(firstOp[p], pending[p], e.op, pending'[p], firstOp'[p])
    BY <1>3, <1>8, <2>2
  <2> QED
    BY <1>4, <1>6, <1>7, <2>1, <2>3, <2>4, MergedLine
<1>9. CASE e.path # p
  <2>1. pending'[p] = pending[p] /\ firstOp'[p] = firstOp[p]
    BY <1>2, <1>3, <1>4, <1>9
  <2>2. \A o \in Operation : [path |-> p, op |-> o] \in Pending' <=> [path |-> p, op |-> o] \in Pending
    BY <1>6, <1>7, <2>1
  <2>3. FileOK(p, batch, events, output, Pending', Tail(src), k, d, seen, firstOp[p])
    BY <1>4, <1>9, <2>2, OtherMergedLine
  <2> QED
    BY <2>1, <2>3
<1> QED
  BY <1>8, <1>9
\* fsnotify tells of every change of a file, and a misread one is not made.
LEMMA UserLine ==
    ASSUME TypeInv, SourceInv, LineInv, Quiet, User  PROVE LineInv'
<1>1. PICK q \in Path, op \in Operation, now \in {0, changes + 1} :
         /\ Happens(q, op, now)
         /\ op = "CREATE" => disk[q] = 0 \/ (q \in WatchedFile /\ Replace(q))
         /\ q \in WatchedFile /\ disk[q] = 0 => MakeNew(q)
         /\ op \in Upsert <=> now # 0
  BY UserSteps
<1>2. /\ changes' = changes + 1 /\ disk' = [disk EXCEPT ![q] = now]
      /\ IF Parent(q) \in watched THEN kernel' = Append(kernel, [path |-> q, op |-> op]) ELSE kernel' = kernel
      /\ UNCHANGED <<backend, watched, baseline, polled, pending, firstOp, output, events, batch, known, lost>>
  BY <1>1 DEF Happens, debounceVars, clientVars
<1>3. Pending' = Pending
  BY <1>2 DEF Pending
<1> SUFFICES ASSUME NEW p \in WatchedFile, p \notin lost
             PROVE  FileOK(p, batch, events, output, Pending, Source', known[p], disk'[p], Seen(p)', firstOp[p])
  BY <1>2, <1>3 DEF LineInv
<1>4. FileOK(p, batch, events, output, Pending, Source, known[p], disk[p], Seen(p), firstOp[p])
  BY DEF LineInv
<1>5. /\ events \in Seq(SUBSET Report) /\ output \in Seq(SUBSET Report)
      /\ kernel \in Seq(Report) /\ polled \in Seq(Report)
      /\ disk \in [Path -> Nat] /\ baseline \in [Path -> Nat] /\ p \in Path
      /\ \A r \in Path : baseline[r] <= changes
      /\ changes \in Nat
  BY DEF TypeInv, Path
<1>6. CASE backend = "polling"
  <2>1. Source = polled /\ Source' = polled /\ Seen(p) = baseline[p] /\ Seen(p)' = baseline[p]
    BY <1>2, <1>6 DEF Source, Seen
  <2>2. \A m \in Nat : "RENAME" \notin LineOf(p, batch, events, output, Pending, polled)[m]
    BY <1>6, <2>1, PollingNoRename
  <2>3. CASE q = p
    <3>1. disk'[p] # 0 => baseline[p] # disk'[p]
      BY <1>2, <1>5, <2>3
    <3>2. FileOK(p, batch, events, output, Pending, polled, known[p], disk'[p], baseline[p], firstOp[p])
      BY <1>4, <1>5, <2>1, <2>2, <3>1, UnnoticedLine
    <3> QED
      BY <2>1, <3>2
  <2>4. CASE q # p
    BY <1>2, <1>4, <1>5, <2>1, <2>4
  <2> QED
    BY <2>3, <2>4
<1>7. CASE backend = "fsnotify"
  <2>1. Source = kernel /\ Source' = kernel' /\ Seen(p) = disk[p] /\ Seen(p)' = disk'[p]
    BY <1>2, <1>7 DEF Source, Seen
  <2>2. [path |-> q, op |-> op] \in Report
    BY <1>7 DEF Report, Op
  <2>3. CASE q # p
    <3>1. disk'[p] = disk[p]
      BY <1>2, <1>5, <2>3
    <3>2. FileOK(p, batch, events, output, Pending, Append(kernel, [path |-> q, op |-> op]),
                 known[p], disk[p], disk[p], firstOp[p])
      <4>1. [path |-> q, op |-> op].path # p
        BY <2>3
      <4> QED
        BY <1>4, <1>5, <2>1, <2>2, <4>1, OtherReportedLine
    <3> QED
      BY <1>2, <1>4, <2>1, <3>1, <3>2
  <2>4. CASE q = p
    <3>1. ~Replace(p) /\ (MakeNew(p) => [path |-> p, op |-> "RENAME"] \notin UnderWay /\ In[p] \in watched)
      BY <1>7 DEF Quiet, Habits, Misread
    <3>2. kernel' = Append(kernel, [path |-> p, op |-> op])
      <4>1. In[p] \in watched
        BY <1>1, <1>7, <2>4, <3>1 DEF SourceInv
      <4> QED
        BY <1>2, <2>4, <4>1 DEF Parent
    <3>3. op = "CREATE" => disk[p] = 0
      BY <1>1, <2>4, <3>1
    <3>4. disk'[p] = now /\ (op \in Upsert => disk'[p] # 0) /\ (op \in Removal => disk'[p] = 0)
      BY <1>1, <1>2, <1>5, <2>4 DEF Upsert, Removal
    <3>5. \A m \in Nat : "RENAME" \in LineOf(p, batch, events, output, Pending, kernel)[m] => disk'[p] = 0
      <4> SUFFICES ASSUME NEW m \in Nat, "RENAME" \in LineOf(p, batch, events, output, Pending, kernel)[m]
                   PROVE  FALSE
        OBVIOUS
      <4>1. disk[p] = 0
        BY <1>4, <2>1, RenameGone
      <4>2. MakeNew(p)
        BY <1>1, <2>4, <4>1
      <4> QED
        BY <3>1, <4>2, RenameUnderWay
    <3>6. FileOK(p, batch, events, output, Pending, kernel, known[p], disk[p], disk[p], firstOp[p])
      BY <1>4, <2>1
    <3>7. FileOK(p, batch, events, output, Pending, Append(kernel, [path |-> p, op |-> op]),
                 known[p], disk'[p], disk'[p], firstOp[p])
      BY <1>5, <2>2, <2>4, <3>3, <3>4, <3>5, <3>6, ReportedLine
    <3> QED
      BY <2>1, <3>2, <3>7
  <2> QED
    BY <2>3, <2>4
<1> QED
  BY <1>6, <1>7 DEF TypeInv

\* A poll that sends its event extends the line of the path; one that drops it gives the path up.
LEMMA PollLine ==
    ASSUME TypeInv, SourceInv, LineInv, NEW q \in Path, Poll(q)  PROVE LineInv'
<1>1. /\ backend = "polling" /\ baseline' = [baseline EXCEPT ![q] = disk[q]]
      /\ \/ q \in lost' /\ lost' = lost \cup {q} /\ polled' = polled
         \/ \E op \in Op : /\ polled' = Append(polled, [path |-> q, op |-> op]) /\ lost' = lost
                           /\ op = "CREATE" => baseline[q] = 0
                           /\ op \in Upsert => disk[q] # 0
                           /\ op \in Removal => disk[q] = 0
      /\ UNCHANGED <<backend, changes, disk, watched, kernel, pending, firstOp, output, events, batch, known>>
  BY PollSteps
<1>2. Pending' = Pending
  BY <1>1 DEF Pending
<1> SUFFICES ASSUME NEW p \in WatchedFile, p \notin lost'
             PROVE  FileOK(p, batch, events, output, Pending, polled', known[p], disk[p], baseline'[p], firstOp[p])
  BY <1>1, <1>2 DEF LineInv, Source, Seen
<1>3. FileOK(p, batch, events, output, Pending, polled, known[p], disk[p], baseline[p], firstOp[p])
  BY <1>1 DEF LineInv, Source, Seen
<1>4. /\ events \in Seq(SUBSET Report) /\ output \in Seq(SUBSET Report) /\ polled \in Seq(Report)
      /\ baseline \in [Path -> Nat] /\ p \in Path
  BY DEF TypeInv, Path
<1>5. \A op \in Op : op \in Operation /\ [path |-> q, op |-> op] \in Report
  BY DEF Op, Report
<1>6. CASE q = p
  <2>1. PICK op \in Op : /\ polled' = Append(polled, [path |-> p, op |-> op])
                         /\ op = "CREATE" => baseline[p] = 0
                         /\ op \in Upsert => disk[p] # 0
                         /\ op \in Removal => disk[p] = 0
    BY <1>1, <1>6
  <2>2. \A m \in Nat : "RENAME" \notin LineOf(p, batch, events, output, Pending, polled)[m]
    BY <1>1, PollingNoRename DEF Source
  <2>3. baseline'[p] = disk[p]
    BY <1>1, <1>4, <1>6
  <2>4. op \in Operation /\ [path |-> p, op |-> op] \in Report
    BY <1>5, <1>6
  <2>5. FileOK(p, batch, events, output, Pending, Append(polled, [path |-> p, op |-> op]),
               known[p], disk[p], disk[p], firstOp[p])
    BY <1>3, <1>4, <2>1, <2>2, <2>4, ReportedLine
  <2> QED
    BY <2>1, <2>3, <2>5
<1>7. CASE q # p
  <2>1. baseline'[p] = baseline[p]
    BY <1>1, <1>4, <1>7
  <2>2. CASE polled' = polled
    BY <1>3, <2>1, <2>2
  <2>3. ASSUME NEW op \in Op, polled' = Append(polled, [path |-> q, op |-> op])
        PROVE  FileOK(p, batch, events, output, Pending, polled', known[p], disk[p], baseline'[p], firstOp[p])
    <3>1. [path |-> q, op |-> op] \in Report /\ [path |-> q, op |-> op].path # p
      BY <1>5, <1>7
    <3>2. FileOK(p, batch, events, output, Pending, Append(polled, [path |-> q, op |-> op]),
                 known[p], disk[p], baseline[p], firstOp[p])
      BY <1>3, <1>4, <3>1, OtherReportedLine
    <3> QED
      BY <2>1, <2>3, <3>2
  <2> QED
    BY <1>1, <2>2, <2>3
<1> QED
  BY <1>6, <1>7

\* The events of either source are merged into what is pending.
LEMMA TakenLine ==
    ASSUME TypeInv, SourceInv, LineInv, TakePolled \/ HandleFsnotifyEvent  PROVE LineInv'
<1>1. /\ Source # <<>> /\ Add(Head(Source)) /\ Source' = Tail(Source)
      /\ UNCHANGED <<backend, disk, baseline, output, events, batch, known, lost>>
  <2>1. CASE TakePolled
    <3>1. backend = "polling"
      BY <2>1 DEF TakePolled, SourceInv, TypeInv
    <3> QED
      BY <2>1, <3>1 DEF TakePolled, Source, userVars, clientVars
  <2>2. CASE HandleFsnotifyEvent
    <3>1. backend = "fsnotify"
      BY <2>2 DEF HandleFsnotifyEvent, SourceInv, TypeInv
    <3> QED
      BY <2>2, <3>1 DEF HandleFsnotifyEvent, Source, userVars, clientVars
  <2> QED
    BY <2>1, <2>2
<1>2. \A p \in WatchedFile : Seen(p)' = Seen(p)
  BY <1>1 DEF Seen
<1> SUFFICES ASSUME NEW p \in WatchedFile, p \notin lost
             PROVE  FileOK(p, batch, events, output, Pending', Tail(Source), known[p], disk[p], Seen(p), firstOp'[p])
  BY <1>1, <1>2 DEF LineInv
<1>3. FileOK(p, batch, events, output, Pending, Source, known[p], disk[p], Seen(p), firstOp[p])
  BY DEF LineInv
<1> QED
  BY <1>1, <1>3, SourceType, AddedLine

\* A flush, with room for the batch or without.
LEMMA FlushLine ==
    ASSUME TypeInv, SourceInv, LineInv, Flush  PROVE LineInv'
<1>1. /\ pending' = Nothing /\ firstOp' = Nothing
      /\ \/ output' = Append(output, Pending) /\ lost' = lost
         \/ output' = output /\ lost' = lost \cup Paths(Pending)
      /\ UNCHANGED <<backend, disk, baseline, kernel, polled, events, batch, known>>
  BY DEF Flush, userVars, sourceVars, clientVars
<1>2. Pending' = {}
  BY <1>1 DEF Pending, Nothing
<1>3. Source' = Source /\ \A p \in WatchedFile : Seen(p)' = Seen(p)
  BY <1>1 DEF Source, Seen
<1>4. \A p \in WatchedFile : firstOp'[p] = "none"
  BY <1>1 DEF Nothing, Path
<1> SUFFICES ASSUME NEW p \in WatchedFile, p \notin lost'
             PROVE  FileOK(p, batch, events, output', {}, Source, known[p], disk[p], Seen(p), "none")
  BY <1>1, <1>2, <1>3, <1>4 DEF LineInv
<1>5. FileOK(p, batch, events, output, Pending, Source, known[p], disk[p], Seen(p), firstOp[p])
  BY <1>1 DEF LineInv
<1>6. /\ events \in Seq(SUBSET Report) /\ output \in Seq(SUBSET Report)
      /\ Pending \in SUBSET Report /\ Source \in Seq(Report) /\ p \in Path
  BY PendingType, SourceType DEF TypeInv, Path
<1>7. CASE output' = Append(output, Pending)
  BY <1>5, <1>6, <1>7, FlushedLine
<1>8. CASE output' = output /\ lost' = lost \cup Paths(Pending)
  <2>1. \A e \in Pending : e.path # p
    BY <1>8 DEF Paths
  <2>2. pending[p] = "none"
    <3>1. pending[p] # "none" => [path |-> p, op |-> pending[p]] \in Pending
      BY <1>6 DEF Pending
    <3> QED
      BY <2>1, <3>1
  <2>3. firstOp[p] = "none"
    BY <1>6, <2>2 DEF SourceInv
  <2>4. FileOK(p, batch, events, output, {}, Source, known[p], disk[p], Seen(p), firstOp[p])
    BY <1>5, <1>6, <2>1, UnflushedLine
  <2> QED
    BY <1>8, <2>3, <2>4
<1> QED
  BY <1>1, <1>7, <1>8

\* Forwarding, with room for the batch or without.
LEMMA ForwardLine ==
    ASSUME TypeInv, SourceInv, LineInv, Forward  PROVE LineInv'
<1>1. /\ output # <<>> /\ output' = Tail(output)
      /\ \/ events' = Append(events, Head(output)) /\ lost' = lost
         \/ events' = events /\ lost' = lost \cup Paths(Head(output))
      /\ UNCHANGED <<backend, disk, baseline, kernel, polled, pending, firstOp, batch, known>>
  BY DEF Forward, userVars, sourceVars, clientVars
<1>2. Pending' = Pending /\ Source' = Source /\ \A p \in WatchedFile : Seen(p)' = Seen(p)
  BY <1>1 DEF Pending, Source, Seen
<1> SUFFICES ASSUME NEW p \in WatchedFile, p \notin lost'
             PROVE  FileOK(p, batch, events', Tail(output), Pending, Source, known[p], disk[p], Seen(p), firstOp[p])
  BY <1>1, <1>2 DEF LineInv
<1>3. FileOK(p, batch, events, output, Pending, Source, known[p], disk[p], Seen(p), firstOp[p])
  BY <1>1 DEF LineInv
<1>4. events \in Seq(SUBSET Report) /\ output \in Seq(SUBSET Report) /\ Source \in Seq(Report)
  BY SourceType DEF TypeInv
<1>5. CASE events' = Append(events, Head(output))
  BY <1>1, <1>3, <1>4, <1>5, ForwardedLine
<1>6. CASE events' = events /\ lost' = lost \cup Paths(Head(output))
  <2>1. \A e \in Head(output) : e.path # p
    BY <1>6 DEF Paths
  <2> QED
    BY <1>1, <1>3, <1>4, <1>6, <2>1, DroppedLine
<1> QED
  BY <1>1, <1>5, <1>6

\* The coordinator takes a batch when it is done with the last one.
LEMMA BatchLine ==
    ASSUME TypeInv, SourceInv, LineInv, TakeBatch  PROVE LineInv'
<1>1. /\ batch = {} /\ events # <<>> /\ batch' = Head(events) /\ events' = Tail(events)
      /\ UNCHANGED <<backend, disk, baseline, kernel, polled, pending, firstOp, output, known, lost>>
  BY DEF TakeBatch, userVars, sourceVars, debounceVars
<1>2. Pending' = Pending /\ Source' = Source /\ \A p \in WatchedFile : Seen(p)' = Seen(p)
  BY <1>1 DEF Pending, Source, Seen
<1> SUFFICES ASSUME NEW p \in WatchedFile, p \notin lost
             PROVE  FileOK(p, Head(events), Tail(events), output, Pending, Source,
                           known[p], disk[p], Seen(p), firstOp[p])
  BY <1>1, <1>2 DEF LineInv
<1>3. FileOK(p, {}, events, output, Pending, Source, known[p], disk[p], Seen(p), firstOp[p])
  BY <1>1 DEF LineInv
<1>4. events \in Seq(SUBSET Report) /\ output \in Seq(SUBSET Report) /\ Source \in Seq(Report)
  BY SourceType DEF TypeInv
<1> QED
  BY <1>1, <1>3, <1>4, BatchTakenLine

\* The coordinator handles any event of its batch next.
LEMMA EventLine ==
    ASSUME TypeInv, SourceInv, LineInv, NEW e \in batch, HandleEvent(e)  PROVE LineInv'
<1>1. /\ batch' = batch \ {e}
      /\ known' = IF e.path \in WatchedFile THEN [known EXCEPT ![e.path] = Known(e)] ELSE known
      /\ UNCHANGED <<backend, disk, baseline, kernel, polled, pending, firstOp, output, events, lost>>
  BY DEF HandleEvent, userVars, sourceVars, debounceVars
<1>2. Pending' = Pending /\ Source' = Source /\ \A p \in WatchedFile : Seen(p)' = Seen(p)
  BY <1>1 DEF Pending, Source, Seen
<1> SUFFICES ASSUME NEW p \in WatchedFile, p \notin lost
             PROVE  FileOK(p, batch \ {e}, events, output, Pending, Source, known'[p], disk[p], Seen(p), firstOp[p])
  BY <1>1, <1>2 DEF LineInv
<1>3. FileOK(p, batch, events, output, Pending, Source, known[p], disk[p], Seen(p), firstOp[p])
  BY DEF LineInv
<1>4. /\ events \in Seq(SUBSET Report) /\ output \in Seq(SUBSET Report) /\ Source \in Seq(Report)
      /\ known \in [WatchedFile -> Nat]
  BY SourceType DEF TypeInv
<1>5. e \in [path : Path, op : Operation] /\ e = [path |-> e.path, op |-> e.op] /\ e.op \in Operation
  BY DEF TypeInv, Report, Op
<1>6. CASE e.path = p
  <2>1. known'[p] = Known(e)
    BY <1>1, <1>4, <1>6
  <2>2. /\ e.op = "DELETE" => known'[p] = 0
        /\ e.op = "RENAME" => known'[p] = disk[p]
        /\ e.op \in Upsert /\ disk[p] # 0 => known'[p] = disk[p]
    BY <1>6, <2>1 DEF Known, Upsert
  <2>3. e = [path |-> p, op |-> e.op]
    BY <1>5, <1>6
  <2>4. FileOK(p, batch \ {[path |-> p, op |-> e.op]}, events, output, Pending, Source,
               known'[p], disk[p], Seen(p), firstOp[p])
    BY <1>3, <1>4, <1>5, <2>2, <2>3, HandledLine
  <2> QED
    BY <2>3, <2>4
<1>7. CASE e.path # p
  <2>1. known'[p] = known[p]
    BY <1>1, <1>4, <1>7
  <2> QED
    BY <1>3, <1>4, <1>7, <2>1, OtherHandledLine
<1> QED
  BY <1>6, <1>7

-----------------------------------------------------------------------------
(* The theorem.                                                            *)

\* Every step keeps the invariant.
LEMMA WatcherStep == ASSUME WatcherInv, Quiet  PROVE WatcherInv'
<1> USE DEF WatcherInv
<1>1. TypeInv' /\ SourceInv'
  BY TypeStep
<1>2. CASE User
  BY <1>1, <1>2, UserLine
<1>3. CASE \E p \in Path : Poll(p)
  BY <1>1, <1>3, PollLine
<1>4. CASE TakePolled \/ HandleFsnotifyEvent
  BY <1>1, <1>4, TakenLine
<1>5. CASE Flush
  BY <1>1, <1>5, FlushLine
<1>6. CASE Forward
  BY <1>1, <1>6, ForwardLine
<1>7. CASE TakeBatch
  BY <1>1, <1>7, BatchLine
<1>8. CASE \E e \in batch : HandleEvent(e)
  BY <1>1, <1>8, EventLine
<1> QED
  BY <1>2, <1>3, <1>4, <1>5, <1>6, <1>7, <1>8 DEF Quiet, WatchNext, Goroutines

\* And so does a step that changes nothing.
LEMMA WatcherStutter == ASSUME WatcherInv, UNCHANGED watchVars  PROVE WatcherInv'
<1>1. UNCHANGED <<backend, disk, changes, watched, kernel, baseline, polled, pending, firstOp,
                  output, events, batch, known, lost>>
  BY DEF watchVars
<1>2. Op' = Op /\ Report' = Report /\ Source' = Source /\ Pending' = Pending
  BY <1>1 DEF Op, Report, Source, Pending
<1>3. \A p \in WatchedFile : Seen(p)' = Seen(p)
  BY <1>1 DEF Seen
<1>4. TypeInv' /\ SourceInv'
  BY <1>1, <1>2 DEF WatcherInv, TypeInv, SourceInv
<1>5. LineInv'
  BY <1>1, <1>2, <1>3 DEF WatcherInv, LineInv
<1> QED
  BY <1>4, <1>5 DEF WatcherInv

\* An empty line tells nothing new.
LEMMA NothingNew ==
    ASSUME WatcherInv, NEW p \in WatchedFile, p \notin lost, ~InFlight(p)  PROVE InStep(p)
<1> DEFINE h == LineOf(p, batch, events, output, Pending, Source)
<1> USE DEF WatcherInv
<1>1. p \in Path /\ events \in Seq(SUBSET Report) /\ output \in Seq(SUBSET Report) /\ Source \in Seq(Report)
  BY SourceType DEF TypeInv, Path
<1>2. ASSUME NEW n \in Nat  PROVE h[n] = {}
  <2>1. ASSUME NEW e \in Place(batch, events, output, Pending, Source, n), e.path = p  PROVE FALSE
    <3>1. e \notin batch
      BY <2>1 DEF InFlight, Paths
    <3>2. e \notin Pending
      BY <2>1 DEF InFlight, Pending
    <3>3. \A i \in DOMAIN events : e \notin events[i]
      BY <2>1 DEF InFlight, Paths
    <3>4. \A i \in DOMAIN output : e \notin output[i]
      BY <2>1 DEF InFlight, Paths
    <3>5. \A i \in DOMAIN Source : e # Source[i]
      BY <2>1 DEF InFlight, Source
    <3>6. e \in {}
      BY <1>1, <3>1, <3>2, <3>3, <3>4, <3>5, PlaceWithin
    <3> QED
      BY <3>6
  <2> QED
    BY <2>1, NotThere
<1>3. Seen(p) = disk[p]
  BY DEF InFlight, Seen
<1>4. FileOK(p, batch, events, output, Pending, Source, known[p], disk[p], Seen(p), firstOp[p])
  BY DEF LineInv
<1> DEFINE back == BackOf(events, output, Source)
<1>5. back \in Nat
  BY <1>1, FrontIs
<1> HIDE DEF h, back
<1>6. /\ disk[p] = 0 => Gone(h, back + 1, known[p])
      /\ disk[p] # 0 => Fresh(h, known[p], disk[p])
  BY <1>3, <1>4 DEF FileOK, LineOK, h, back
<1>7. CASE disk[p] = 0
  BY <1>2, <1>6, <1>7 DEF Gone, InStep
<1>8. CASE disk[p] # 0
  BY <1>2, <1>6, <1>8 DEF Fresh, InStep
<1> QED
  BY <1>7, <1>8

\* Whatever is merged, batched, forwarded, dropped and handled, and in whatever order:
\* as long as the user does nothing fsnotify misreads, a file the index is out of step
\* with has an event under way, or one of its events met a full channel (hybrid.go,
\* debouncer.go, polling.go, coordinator.go).
THEOREM WatcherForgetsNoChange == HabitsSpec => []NoChangeForgotten
<1>1. WatchInit => WatcherInv
  BY WatcherStart
<1>2. WatcherInv /\ [WatchNext /\ Habits]_watchVars => WatcherInv'
  BY WatcherStep, WatcherStutter DEF Quiet
<1>3. WatcherInv => NoChangeForgotten
  BY NothingNew DEF NoChangeForgotten
<1> QED
  BY <1>1, <1>2, <1>3, PTL DEF HabitsSpec
=============================================================================
