------------------------- MODULE RateLimiterProofs -------------------------
(***************************************************************************)
(* The budget of RateLimiter for every limit, window and number of calls.  *)
(* Windows open at least Window apart although calls commit out of order,  *)
(* and each one is charged at most Limit times. The requests granted since *)
(* a clock value t come from windows that started after t - MaxLag -       *)
(* Window, because no statement is older than MaxLag when it commits.      *)
(***************************************************************************)
EXTENDS RateLimiter, TLAPS

USE LimitAssumption, WindowAssumption, AttemptsAssumption, BoundsAssumption

\* A clock value that was read is not in the future, and a statement that waits
\* for the connection is not older than MaxLag.
ClockInv == \A c \in Calls : /\ stamp[c] <= now
                             /\ phase[c] = "stamped" => now - stamp[c] <= MaxLag

\* What is granted up to a clock value grows with it, and stands still in the future.
Cumulative(u) ==
    /\ \A t \in Times, s \in Times : t <= s => total[u][t] <= total[u][s]
    /\ \A t \in Times : t >= now => total[u][t] = Granted(u)

\* What the row of u says of the windows opened and the calls granted so far.
BudgetOf(u) ==
    LET row == rows[u] IN
    IF row.count = 0
    THEN opened[u] = 0 /\ Granted(u) = 0 /\ row.started = 0
    ELSE /\ opened[u] > 0
         /\ Granted(u) <= Limit * (opened[u] - 1) + row.count
         /\ (opened[u] - 1) * Window <= row.started
         /\ row.started <= now
         /\ row.count <= GrantedSince(u, row.started)

\* What was granted since t came from the current window and from k others, which
\* all started after t - MaxLag - Window and at least a Window apart.
Recent(u, t) ==
    \/ GrantedSince(u, t) = 0
    \/ \E k \in Nat : /\ k * Window <= rows[u].started - t + MaxLag - 1 + Window
                      /\ GrantedSince(u, t) <= rows[u].count + Limit * k

RecentInv == \A u \in Users : \A t \in Times : t <= now => Recent(u, t)

IInv ==
    /\ TypeOK /\ ClockInv
    /\ \A u \in Users : Cumulative(u) /\ BudgetOf(u)
    /\ RecentInv

----------------------------------------------------------------------------
\* Two facts of arithmetic: a multiple of w below n counts at most n \div w,
\* and multiplication is monotone.
LEMMA DivBound ==
    ASSUME NEW a \in Nat, NEW n \in Nat, NEW w \in Nat \ {0}, a * w <= n
    PROVE  a <= n \div w /\ n \div w \in Nat
<1> DEFINE q == n \div w
<1>1. q \in Nat /\ n < q * w + w
  OBVIOUS
<1>2. ASSUME a >= q + 1 PROVE FALSE
  <2>1. a * w >= (q + 1) * w
    BY <1>1, <1>2
  <2>2. QED
    BY <1>1, <2>1
<1>3. QED
  BY <1>1, <1>2

\* Multiplication by a natural number is monotone.
LEMMA MulMono ==
    ASSUME NEW a \in Nat, NEW b \in Nat, NEW l \in Nat, a <= b
    PROVE  l * a <= l * b
OBVIOUS

\* The window that opens finds Limit more granted than windows before the last
\* allow for, and starts a Window after the last.
LEMMA OpenArith ==
    ASSUME NEW g \in Nat, NEW o \in Nat, NEW n \in Nat, NEW s \in Nat,
           NEW t \in Nat, g <= Limit * (o - 1) + n, n <= Limit,
           (o - 1) * Window <= s, t >= s + Window
    PROVE  g + 1 <= Limit * o + 1 /\ o * Window <= t
<1>1. Limit * o = Limit * (o - 1) + Limit /\ o * Window = (o - 1) * Window + Window
  OBVIOUS
<1>2. Limit * (o - 1) \in Int /\ (o - 1) * Window \in Int
  OBVIOUS
<1>3. QED
  BY <1>1, <1>2

----------------------------------------------------------------------------
\* A charge keeps the type of a row and the budget of its user.
LEMMA ChargeType ==
    ASSUME NEW row \in [started : Nat, count : 0..Limit], NEW t \in Nat, Admits(row, t)
    PROVE  Charged(row, t) \in [started : Nat, count : 0..Limit]
BY DEF Charged, Admits, WindowOver

\* One more request granted at the clock: what counts from then on grows by one.
LEMMA CountedUp ==
    ASSUME IInv, NEW c \in Calls, Grant(c), NEW u \in Users, u = caller[c]
    PROVE  /\ total' \in [Users -> [Times -> Nat]]
           /\ \A v \in Users : v # u => total'[v] = total[v]
           /\ \A t \in Times : t >= now => total'[u][t] = total[u][t] + 1
           /\ \A t \in Times : t < now => total'[u][t] = total[u][t]
           /\ now' = now
<1> DEFINE g == [t \in Times |-> IF t >= now THEN total[u][t] + 1 ELSE total[u][t]]
<1>1. total \in [Users -> [Times -> Nat]] /\ total[u] \in [Times -> Nat]
  BY DEF IInv, TypeOK
<1>2. total' = [total EXCEPT ![u] = g] /\ now' = now
  BY DEF Grant
<1>3. g \in [Times -> Nat]
  BY <1>1
<1>4. /\ \A t \in Times : t >= now => g[t] = total[u][t] + 1
      /\ \A t \in Times : t < now => g[t] = total[u][t]
  <2>1. now \in Int /\ \A t \in Times : t \in Int
    BY DEF IInv, TypeOK, Times
  <2>2. QED
    BY <2>1
<1> HIDE DEF g
<1>5. QED
  BY <1>1, <1>2, <1>3, <1>4

\* The values of the history are natural numbers, and what is granted since a clock
\* value that is not in the future grows with the total.
LEMMA SinceTypes ==
    ASSUME TypeOK, NEW u \in Users, Cumulative(u), NEW t \in Int
    PROVE  /\ Granted(u) \in Nat /\ GrantedUpTo(u, t) \in Nat
           /\ GrantedUpTo(u, t) <= Granted(u)
           /\ GrantedSince(u, t) \in Nat
           /\ t >= now => GrantedUpTo(u, t) = Granted(u)
<1>1. MaxNow \in Times /\ now \in Times
  BY DEF Times, TypeOK
<1>2. total[u] \in [Times -> Nat]
  BY DEF TypeOK
<1>3. ASSUME NEW q \in Int
      PROVE  /\ GrantedUpTo(u, q) \in Nat /\ GrantedUpTo(u, q) <= Granted(u)
             /\ q >= now => GrantedUpTo(u, q) = Granted(u)
  <2>1. CASE q < 0
    BY <1>1, <1>2, <2>1 DEF GrantedUpTo, Granted, Times
  <2>2. CASE q >= 0
    <3> DEFINE p == IF q < MaxNow THEN q ELSE MaxNow
    <3>1. p \in Times /\ p <= MaxNow /\ (q >= now => p >= now)
      BY <1>1, <2>2 DEF Times
    <3>2. GrantedUpTo(u, q) = total[u][p]
      BY <2>2 DEF GrantedUpTo
    <3> HIDE DEF p
    <3>3. QED
      BY <1>1, <1>2, <3>1, <3>2 DEF Granted, Cumulative
  <2>3. QED
    BY <2>1, <2>2
<1>4. Granted(u) \in Nat
  BY <1>1, <1>2 DEF Granted
<1>5. t - 1 \in Int
  OBVIOUS
<1>6. GrantedUpTo(u, t - 1) \in Nat /\ GrantedUpTo(u, t - 1) <= Granted(u)
  BY <1>3, <1>5
<1>7. QED
  BY <1>3, <1>4, <1>6 DEF GrantedSince

\* The history is cumulative: up to a later clock value not less is granted.
LEMMA UpToMono ==
    ASSUME TypeOK, NEW u \in Users, Cumulative(u), NEW s \in Int, NEW t \in Int, s <= t
    PROVE  GrantedUpTo(u, s) <= GrantedUpTo(u, t)
<1>1. total[u] \in [Times -> Nat] /\ MaxNow \in Times
  BY DEF TypeOK, Times
<1>2. CASE s < 0
  <2>1. GrantedUpTo(u, s) = 0 /\ GrantedUpTo(u, t) \in Nat
    BY <1>2, SinceTypes DEF GrantedUpTo
  <2>2. QED
    BY <2>1
<1>3. CASE s >= 0
  <2> DEFINE p == IF s < MaxNow THEN s ELSE MaxNow
             q == IF t < MaxNow THEN t ELSE MaxNow
  <2>1. p \in Times /\ q \in Times /\ p <= q
    BY <1>3 DEF Times
  <2>2. GrantedUpTo(u, s) = total[u][p] /\ GrantedUpTo(u, t) = total[u][q]
    BY <1>3 DEF GrantedUpTo
  <2> HIDE DEF p, q
  <2>3. QED
    BY <2>1, <2>2 DEF Cumulative
<1>4. QED
  BY <1>2, <1>3

\* What a grant changes in the sums: nothing before the clock, one more from it on.
LEMMA SumsAfterGrant ==
    ASSUME IInv, NEW c \in Calls, Grant(c), NEW u \in Users, u = caller[c]
    PROVE  /\ Granted(u)' = Granted(u) + 1
           /\ \A t \in Int : t < now => GrantedUpTo(u, t)' = GrantedUpTo(u, t)
           /\ \A t \in Int : t <= now => GrantedSince(u, t)' = GrantedSince(u, t) + 1
           /\ Cumulative(u)'
           /\ \A v \in Users : v # u =>
                 /\ Granted(v)' = Granted(v)
                 /\ \A t \in Int : /\ GrantedUpTo(v, t)' = GrantedUpTo(v, t)
                                  /\ GrantedSince(v, t)' = GrantedSince(v, t)
                 /\ Cumulative(v)'
<1>1. /\ now \in Times /\ MaxNow \in Times /\ now <= MaxNow
      /\ total[u] \in [Times -> Nat]
      /\ Cumulative(u) /\ TypeOK
  <2>1. TypeOK /\ Cumulative(u)
    BY DEF IInv
  <2>2. QED
    BY <2>1 DEF TypeOK, Times
<1>2. /\ \A v \in Users : v # u => total'[v] = total[v]
      /\ \A t \in Times : t >= now => total'[u][t] = total[u][t] + 1
      /\ \A t \in Times : t < now => total'[u][t] = total[u][t]
      /\ now' = now
  BY CountedUp
<1>3. Granted(u)' = Granted(u) + 1 /\ Granted(u) \in Nat
  BY <1>1, <1>2 DEF Granted
<1>4. ASSUME NEW t \in Int, t < now PROVE GrantedUpTo(u, t)' = GrantedUpTo(u, t)
  <2>1. CASE t < 0
    BY <2>1 DEF GrantedUpTo
  <2>2. CASE t >= 0
    <3>1. t \in Times /\ t < MaxNow
      BY <1>1, <1>4, <2>2 DEF Times
    <3>2. total'[u][t] = total[u][t]
      BY <1>1, <1>2, <1>4, <3>1 DEF Times
    <3>3. GrantedUpTo(u, t)' = total'[u][t] /\ GrantedUpTo(u, t) = total[u][t]
      BY <2>2, <3>1 DEF GrantedUpTo
    <3>4. QED
      BY <3>2, <3>3
  <2>3. QED
    BY <2>1, <2>2
<1>5. ASSUME NEW t \in Int, t <= now PROVE GrantedSince(u, t)' = GrantedSince(u, t) + 1
  <2>1. t - 1 \in Int /\ t - 1 < now
    BY <1>1, <1>5 DEF Times
  <2>2. GrantedUpTo(u, t - 1)' = GrantedUpTo(u, t - 1) /\ GrantedUpTo(u, t - 1) \in Nat
    BY <1>1, <1>4, <2>1, SinceTypes
  <2>3. QED
    BY <1>3, <2>2 DEF GrantedSince
<1>6. Cumulative(u)'
  <2>1. \A t \in Times : t \in Int /\ total[u][t] \in Nat
    BY <1>1 DEF Times
  <2>2. ASSUME NEW t \in Times, NEW s \in Times, t <= s
        PROVE  total'[u][t] <= total'[u][s]
    <3>1. total[u][t] <= total[u][s]
      BY <1>1, <2>2 DEF Cumulative
    <3>2. now \in Int /\ t \in Int /\ s \in Int /\ total[u][t] \in Nat /\ total[u][s] \in Nat
      BY <1>1, <2>1 DEF Times
    <3>3. CASE t >= now
      BY <1>2, <2>2, <3>1, <3>2, <3>3
    <3>4. CASE t < now
      BY <1>2, <2>2, <3>1, <3>2, <3>4
    <3>5. QED
      BY <3>2, <3>3, <3>4
  <2>3. \A t \in Times : t >= now' => total'[u][t] = Granted(u)'
    BY <1>1, <1>2, <1>3 DEF Cumulative
  <2>4. QED
    BY <2>2, <2>3 DEF Cumulative
<1>7. ASSUME NEW v \in Users, v # u
      PROVE  /\ Granted(v)' = Granted(v)
             /\ \A t \in Int : /\ GrantedUpTo(v, t)' = GrantedUpTo(v, t)
                              /\ GrantedSince(v, t)' = GrantedSince(v, t)
             /\ Cumulative(v)'
  <2>1. total'[v] = total[v] /\ now' = now /\ Cumulative(v)
    BY <1>2, <1>7 DEF IInv
  <2>2. QED
    BY <2>1 DEF Granted, GrantedUpTo, GrantedSince, Cumulative
<1>8. QED
  BY <1>3, <1>4, <1>5, <1>6, <1>7

\* The row after a grant, and when its window is over.
LEMMA RowAfterGrant ==
    ASSUME IInv, NEW c \in Calls, Grant(c), NEW u \in Users, u = caller[c]
    PROVE  /\ rows[u] \in [started : Nat, count : 0..Limit]
           /\ stamp[c] \in Nat /\ stamp[c] <= now /\ now - stamp[c] <= MaxLag
           /\ now \in Nat /\ now' = now /\ caller' = caller
           /\ rows' = [rows EXCEPT ![u] = Charged(rows[u], stamp[c])]
           /\ \/ /\ rows[u].count = 0 \/ stamp[c] >= rows[u].started + Window
                 /\ rows'[u] = [started |-> stamp[c], count |-> 1]
                 /\ opened' = [opened EXCEPT ![u] = @ + 1]
              \/ /\ rows[u].count # 0 /\ stamp[c] < rows[u].started + Window
                 /\ rows[u].count < Limit
                 /\ rows'[u].count = rows[u].count + 1 /\ rows'[u].started = rows[u].started
                 /\ opened' = opened
<1> DEFINE row == rows[u]
           t == stamp[c]
<1>1. /\ row \in [started : Nat, count : 0..Limit] /\ rows \in [Users -> [started : Nat, count : 0..Limit]]
      /\ t \in Nat /\ now \in Nat /\ t <= now
  BY DEF IInv, TypeOK, ClockInv, Times
<1>2. now - t <= MaxLag
  BY DEF IInv, ClockInv, Grant
<1>3. /\ Admits(row, t) /\ rows' = [rows EXCEPT ![u] = Charged(row, t)]
      /\ opened' = IF WindowOver(row, t) THEN [opened EXCEPT ![u] = @ + 1] ELSE opened
      /\ now' = now /\ caller' = caller
  BY DEF Grant, Row
<1>4. rows'[u] = Charged(row, t)
  BY <1>1, <1>3
<1>5. CASE WindowOver(row, t)
  BY <1>1, <1>2, <1>3, <1>4, <1>5 DEF Charged, WindowOver
<1>6. CASE ~WindowOver(row, t)
  <2>1. row.count # 0 /\ t < row.started + Window /\ row.count < Limit
    BY <1>1, <1>3, <1>6 DEF WindowOver, Admits
  <2>2. rows'[u] = [row EXCEPT !.count = @ + 1]
    BY <1>4, <1>6 DEF Charged
  <2>3. QED
    BY <1>1, <1>2, <1>3, <1>6, <2>1, <2>2
<1>7. QED
  BY <1>5, <1>6

\* A grant keeps the budget of its user.
LEMMA GrantBudget ==
    ASSUME IInv, NEW c \in Calls, Grant(c), NEW u \in Users, u = caller[c]
    PROVE  BudgetOf(u)'
<1>1. PICK x \in Nat : x = stamp[c] /\ x <= now
  BY RowAfterGrant
<1>2. PICK s \in Nat : s = rows[u].started
  BY RowAfterGrant
<1>3. PICK n \in 0..Limit : n = rows[u].count
  BY RowAfterGrant
<1>4. /\ rows' \in [Users -> [started : Nat, count : 0..Limit]]
      /\ opened \in [Users -> Nat] /\ now \in Nat /\ now' = now
      /\ Cumulative(u) /\ BudgetOf(u) /\ TypeOK
  <2>1. rows \in [Users -> [started : Nat, count : 0..Limit]] /\ Admits(rows[u], stamp[c])
    BY DEF IInv, TypeOK, Grant, Row
  <2>2. Charged(rows[u], stamp[c]) \in [started : Nat, count : 0..Limit]
    BY <1>1, <2>1, ChargeType
  <2>3. rows' = [rows EXCEPT ![u] = Charged(rows[u], stamp[c])] /\ now \in Nat /\ now' = now
    BY RowAfterGrant
  <2>4. rows' \in [Users -> [started : Nat, count : 0..Limit]]
    BY <2>1, <2>2, <2>3
  <2>5. opened \in [Users -> Nat] /\ Cumulative(u) /\ BudgetOf(u) /\ TypeOK
    BY DEF IInv, TypeOK
  <2>6. QED
    BY <2>3, <2>4, <2>5
<1>5. /\ Granted(u)' = Granted(u) + 1
      /\ \A q \in Int : q <= now => GrantedSince(u, q)' = GrantedSince(u, q) + 1
  BY SumsAfterGrant
<1>6. Granted(u) \in Nat /\ \A q \in Int : GrantedSince(u, q) \in Nat
  BY <1>4, SinceTypes
<1>7. SUFFICES /\ opened'[u] > 0 /\ rows'[u].count # 0
               /\ Granted(u)' <= Limit * (opened'[u] - 1) + rows'[u].count
               /\ (opened'[u] - 1) * Window <= rows'[u].started
               /\ rows'[u].started <= now
               /\ \E q \in Int : /\ q = rows'[u].started
                                 /\ rows'[u].count <= GrantedSince(u, q)'
  BY <1>4 DEF BudgetOf, GrantedSince, GrantedUpTo, Granted
<1>8. CASE /\ n = 0 \/ x >= s + Window
           /\ rows'[u] = [started |-> x, count |-> 1]
           /\ opened' = [opened EXCEPT ![u] = @ + 1]
  <2>1. opened'[u] = opened[u] + 1 /\ rows'[u].count = 1 /\ rows'[u].started = x
    BY <1>4, <1>8
  <2>2. 1 <= GrantedSince(u, x)'
    BY <1>1, <1>5, <1>6
  <2>3. CASE n = 0
    <3>1. opened[u] = 0 /\ Granted(u) = 0
      BY <1>3, <1>4, <2>3 DEF BudgetOf
    <3>2. QED
      BY <1>1, <1>5, <2>1, <2>2, <3>1
  <2>4. CASE n # 0
    <3>1. /\ Granted(u) <= Limit * (opened[u] - 1) + n
          /\ (opened[u] - 1) * Window <= s
          /\ opened[u] > 0 /\ x >= s + Window
      BY <1>2, <1>3, <1>4, <1>8, <2>4 DEF BudgetOf
    <3>2. opened[u] \in Nat /\ n \in Nat /\ n <= Limit
      BY <1>4
    <3>3. Granted(u) + 1 <= Limit * opened[u] + 1 /\ opened[u] * Window <= x
      BY <1>6, <3>1, <3>2, OpenArith
    <3>4. opened'[u] - 1 = opened[u] /\ opened'[u] > 0
      BY <2>1, <3>2
    <3>5. QED
      BY <1>1, <1>5, <2>1, <2>2, <3>3, <3>4
  <2>5. QED
    BY <2>3, <2>4
<1>9. CASE /\ n # 0 /\ rows'[u].count = n + 1 /\ rows'[u].started = s
           /\ opened' = opened
  <2>1. /\ Granted(u) <= Limit * (opened[u] - 1) + n
        /\ (opened[u] - 1) * Window <= s
        /\ opened[u] > 0 /\ s <= now
    BY <1>2, <1>3, <1>4, <1>9 DEF BudgetOf
  <2>2. n <= GrantedSince(u, s)
    BY <1>2, <1>3, <1>4, <1>9 DEF BudgetOf
  <2>3. Limit * (opened[u] - 1) \in Int
    BY <1>4
  <2>4. Granted(u)' <= Limit * (opened'[u] - 1) + rows'[u].count
    BY <1>5, <1>6, <1>9, <2>1, <2>3
  <2>5. rows'[u].count <= GrantedSince(u, s)'
    BY <1>5, <1>6, <1>9, <2>1, <2>2
  <2>6. QED
    BY <1>9, <2>1, <2>4, <2>5
<1>10. QED
  BY <1>1, <1>2, <1>3, <1>8, <1>9, RowAfterGrant

\* A grant opens a window at least a Window after the current one, or charges that;
\* in both cases its statement is not older than MaxLag.
LEMMA GrantRecent ==
    ASSUME IInv, NEW c \in Calls, Grant(c), NEW u \in Users, u = caller[c],
           NEW t \in Times, t <= now
    PROVE  Recent(u, t)'
<1> DEFINE n == rows[u].count
           s == rows[u].started
           x == stamp[c]
           d == GrantedSince(u, t)
<1>1. /\ n \in Nat /\ n <= Limit /\ s \in Nat /\ t \in Nat
      /\ x \in Nat /\ x >= t - MaxLag /\ now \in Nat
  <2>1. rows[u] \in [started : Nat, count : 0..Limit]
    BY DEF IInv, TypeOK
  <2>2. x \in Nat /\ x <= now /\ now - x <= MaxLag /\ now \in Nat
    BY RowAfterGrant
  <2>3. QED
    BY <2>1, <2>2 DEF Times
<1>2. d \in Nat /\ GrantedSince(u, t)' = d + 1
  <2>1. t \in Int
    BY <1>1
  <2>2. QED
    BY <2>1, SinceTypes, SumsAfterGrant DEF IInv
<1>3. n = 0 => d = 0
  <2>1. n = 0 => Granted(u) = 0
    BY DEF IInv, BudgetOf
  <2>2. t - 1 \in Int
    BY <1>1
  <2>3. GrantedUpTo(u, t - 1) \in Nat /\ Granted(u) \in Nat
    BY <2>2, SinceTypes DEF IInv
  <2>4. QED
    BY <1>2, <2>1, <2>3 DEF GrantedSince
<1>4. d = 0 \/ \E k \in Nat : k * Window <= s - t + MaxLag - 1 + Window /\ d <= n + Limit * k
  BY DEF IInv, RecentInv, Recent
<1> HIDE DEF d
<1>5. CASE /\ n = 0 \/ x >= s + Window
           /\ rows'[u] = [started |-> x, count |-> 1]
  <2>1. rows'[u].started = x /\ rows'[u].count = 1
    BY <1>5
  <2> HIDE DEF n, s, x
  <2>2. CASE d = 0
    <3>1. 0 * Window <= x - t + MaxLag - 1 + Window /\ d + 1 <= 1 + Limit * 0
      BY <1>1, <2>2
    <3>2. QED
      BY <1>2, <2>1, <3>1 DEF Recent
  <2>3. CASE d # 0
    <3>1. PICK k \in Nat : k * Window <= s - t + MaxLag - 1 + Window /\ d <= n + Limit * k
      BY <1>4, <2>3
    <3>2. x >= s + Window
      BY <1>3, <1>5, <2>3 DEF n, s, x
    <3>3. /\ (k + 1) * Window = k * Window + Window /\ k * Window \in Nat
          /\ Limit * (k + 1) = Limit * k + Limit /\ Limit * k \in Nat
      OBVIOUS
    <3>4. (k + 1) * Window <= x - t + MaxLag - 1 + Window
      BY <1>1, <3>1, <3>2, <3>3
    <3>5. d + 1 <= 1 + Limit * (k + 1)
      BY <1>1, <1>2, <3>1, <3>3
    <3>6. k + 1 \in Nat
      OBVIOUS
    <3>7. QED
      BY <1>2, <2>1, <3>4, <3>5, <3>6 DEF Recent
  <2>4. QED
    BY <2>2, <2>3
<1>6. CASE /\ n # 0 /\ x < s + Window
           /\ rows'[u].count = n + 1 /\ rows'[u].started = s
  <2>1. rows'[u].count = n + 1 /\ rows'[u].started = s /\ x < s + Window
    BY <1>6
  <2> HIDE DEF n, s, x
  <2>2. CASE d = 0
    <3>1. 0 * Window <= s - t + MaxLag - 1 + Window /\ d + 1 <= n + 1 + Limit * 0
      BY <1>1, <2>1, <2>2
    <3>2. QED
      BY <1>2, <2>1, <3>1 DEF Recent
  <2>3. CASE d # 0
    <3>1. PICK k \in Nat : k * Window <= s - t + MaxLag - 1 + Window /\ d <= n + Limit * k
      BY <1>4, <2>3
    <3>2. Limit * k \in Nat
      OBVIOUS
    <3>3. d + 1 <= n + 1 + Limit * k
      BY <1>1, <1>2, <3>1, <3>2
    <3>4. QED
      BY <1>2, <2>1, <3>1, <3>3 DEF Recent
  <2>4. QED
    BY <2>2, <2>3
<1>7. QED
  BY <1>5, <1>6, RowAfterGrant

\* Only Grant writes a row, a history or a count of windows.
LEMMA GrantStep ==
    ASSUME IInv, NEW c \in Calls, Grant(c)
    PROVE  IInv'
<1>1. PICK u \in Users : u = caller[c]
  BY DEF IInv, TypeOK
<1>2. rows \in [Users -> [started : Nat, count : 0..Limit]] /\ opened \in [Users -> Nat]
  BY DEF IInv, TypeOK
<1>3. /\ rows' = [rows EXCEPT ![u] = Charged(rows[u], stamp[c])]
      /\ now' = now /\ caller' = caller /\ now \in Nat
      /\ \A v \in Users : v # u => rows'[v] = rows[v] /\ opened'[v] = opened[v]
  <2>1. /\ rows' = [rows EXCEPT ![u] = Charged(rows[u], stamp[c])]
        /\ now' = now /\ caller' = caller /\ now \in Nat
        /\ opened' = opened \/ opened' = [opened EXCEPT ![u] = @ + 1]
    BY <1>1, RowAfterGrant
  <2>2. QED
    BY <1>2, <2>1
<1>4. TypeOK'
  <2>1. Admits(rows[u], stamp[c]) /\ stamp[c] \in Nat
    BY <1>1 DEF Grant, Row, IInv, TypeOK
  <2>2. Charged(rows[u], stamp[c]) \in [started : Nat, count : 0..Limit]
    BY <1>2, <2>1, ChargeType
  <2>3. rows' \in [Users -> [started : Nat, count : 0..Limit]]
    BY <1>2, <1>3, <2>2
  <2>4. phase' \in [Calls -> Answered \cup InFlight]
    BY DEF Grant, Return, Answered, IInv, TypeOK
  <2>5. stamp' \in [Calls -> Nat] /\ attempt' \in [Calls -> Nat]
    BY DEF Grant, Return, IInv, TypeOK
  <2>6. opened' \in [Users -> Nat]
    <3>1. opened' = opened \/ opened' = [opened EXCEPT ![u] = opened[u] + 1]
      BY <1>1, RowAfterGrant
    <3>2. QED
      BY <1>2, <3>1
  <2>7. total' \in [Users -> [Times -> Nat]]
    BY <1>1, CountedUp
  <2>8. now' \in Times /\ caller' \in [Calls -> Users]
    BY <1>3 DEF IInv, TypeOK
  <2>9. QED
    BY <2>3, <2>4, <2>5, <2>6, <2>7, <2>8 DEF TypeOK
<1>5. ClockInv'
  BY <1>3 DEF IInv, TypeOK, ClockInv, Grant, Return
<1>6. Cumulative(u)' /\ BudgetOf(u)' /\ \A t \in Times : t <= now => Recent(u, t)'
  BY <1>1, SumsAfterGrant, GrantBudget, GrantRecent
<1>7. ASSUME NEW v \in Users, v # u
      PROVE  Cumulative(v)' /\ BudgetOf(v)' /\ \A t \in Times : t <= now => Recent(v, t)'
  <2>1. rows'[v] = rows[v] /\ opened'[v] = opened[v]
    BY <1>3, <1>7
  <2>2. total'[v] = total[v]
    BY <1>1, <1>7, CountedUp
  <2>3. /\ Cumulative(v) /\ BudgetOf(v)
        /\ \A t \in Times : t <= now => Recent(v, t)
    BY DEF IInv, RecentInv
  <2>4. Cumulative(v)'
    BY <1>3, <2>2, <2>3 DEF Cumulative, Granted
  <2>5. BudgetOf(v)'
    BY <1>3, <2>1, <2>2, <2>3 DEF BudgetOf, Granted, GrantedSince, GrantedUpTo
  <2>6. ASSUME NEW t \in Times, t <= now PROVE Recent(v, t)'
    <3>1. Recent(v, t)
      BY <2>3, <2>6
    <3>2. GrantedSince(v, t)' = GrantedSince(v, t)
      BY <2>2 DEF GrantedSince, GrantedUpTo, Granted
    <3>3. QED
      BY <2>1, <3>1, <3>2 DEF Recent
  <2>7. QED
    BY <2>4, <2>5, <2>6
<1>8. \A v \in Users : Cumulative(v)' /\ BudgetOf(v)'
  BY <1>6, <1>7
<1>9. RecentInv'
  BY <1>3, <1>6, <1>7 DEF RecentInv
<1>10. QED
  BY <1>4, <1>5, <1>8, <1>9 DEF IInv

\* One more clock reading that is not in the future.
LEMMA StampAt ==
    ASSUME NEW f \in [Calls -> Nat], NEW n \in Nat, \A d \in Calls : f[d] <= n,
           NEW c \in Calls, NEW m \in Nat, m <= n
    PROVE  /\ [f EXCEPT ![c] = m] \in [Calls -> Nat]
           /\ \A d \in Calls : [f EXCEPT ![c] = m][d] <= n
OBVIOUS

\* The steps of a call other than Grant touch only the call.
LEMMA CallStep ==
    ASSUME IInv, NEW c \in Calls,
           \/ \E u \in Users : Call(c, u)
           \/ Deny(c) \/ Busy(c) \/ Retry(c) \/ GiveUp(c) \/ Fail(c)
    PROVE  IInv' /\ UNCHANGED <<now, total>>
<1> DEFINE Typed == /\ phase' \in [Calls -> Answered \cup InFlight]
                    /\ caller' \in [Calls -> Users]
                    /\ attempt' \in [Calls -> Nat]
           Stamped == /\ stamp' \in [Calls -> Nat]
                      /\ \A d \in Calls : stamp'[d] <= now
           Fresh == \A d \in Calls : phase'[d] = "stamped" => now - stamp'[d] <= MaxLag
<1>0. /\ stamp \in [Calls -> Nat] /\ phase \in [Calls -> Answered \cup InFlight]
      /\ now \in Nat /\ \A d \in Calls : stamp[d] <= now
      /\ \A d \in Calls : phase[d] = "stamped" => now - stamp[d] <= MaxLag
      /\ 0 \in Nat /\ 0 <= now
  <2>1. TypeOK /\ ClockInv
    BY DEF IInv
  <2>2. /\ stamp \in [Calls -> Nat] /\ now \in Times
        /\ phase \in [Calls -> Answered \cup InFlight]
    BY <2>1 DEF TypeOK
  <2>3. now \in Nat /\ 0 \in Nat /\ 0 <= now
    BY <2>2 DEF Times
  <2>4. QED
    BY <2>1, <2>2, <2>3, Zenon DEF ClockInv
<1>1. UNCHANGED <<now, rows, opened, total>>
  BY DEF Call, Deny, Busy, Retry, GiveUp, Fail
<1>2. ASSUME NEW u \in Users, Call(c, u) PROVE Typed /\ Stamped /\ Fresh
  <2>1. /\ stamp' = [stamp EXCEPT ![c] = now] /\ now <= now
        /\ phase' = [phase EXCEPT ![c] = "stamped"]
    BY <1>0, <1>2 DEF Call
  <2>2. Stamped
    BY <1>0, <2>1, StampAt
  <2>3. Typed
    BY <1>2 DEF Call, InFlight, IInv, TypeOK
  <2>4. Fresh
    BY <1>0, <2>1
  <2>5. QED
    BY <2>2, <2>3, <2>4
<1>3. ASSUME Deny(c) \/ GiveUp(c) \/ Fail(c) PROVE Typed /\ Stamped /\ Fresh
  <2>1. PICK a \in Answered : Return(c, a)
    BY <1>3 DEF Deny, GiveUp, Fail, Answered
  <2>2. caller' = caller
    BY <1>3 DEF Deny, GiveUp, Fail
  <2>3. stamp' = [stamp EXCEPT ![c] = 0] /\ phase' = [phase EXCEPT ![c] = a]
    BY <2>1 DEF Return
  <2>4. Stamped
    BY <1>0, <2>3, StampAt
  <2>5. Typed
    BY <2>1, <2>2 DEF Return, IInv, TypeOK
  <2>6. Fresh
    BY <1>0, <2>3 DEF Answered
  <2>7. QED
    BY <2>4, <2>5, <2>6
<1>4. ASSUME Busy(c) PROVE Typed /\ Stamped /\ Fresh
  <2>1. stamp' = stamp /\ phase' = [phase EXCEPT ![c] = "backoff"]
    BY <1>4 DEF Busy
  <2>2. Typed
    BY <1>4 DEF Busy, InFlight, IInv, TypeOK
  <2>3. Stamped /\ Fresh
    BY <1>0, <2>1
  <2>4. QED
    BY <2>2, <2>3
<1>5. ASSUME Retry(c) PROVE Typed /\ Stamped /\ Fresh
  <2>1. /\ stamp' = [stamp EXCEPT ![c] = now] /\ now <= now
        /\ phase' = [phase EXCEPT ![c] = "stamped"]
    BY <1>0, <1>5 DEF Retry
  <2>2. Typed
    BY <1>5 DEF Retry, InFlight, IInv, TypeOK
  <2>3. Stamped
    BY <1>0, <2>1, StampAt
  <2>4. Fresh
    BY <1>0, <2>1
  <2>5. QED
    BY <2>2, <2>3, <2>4
<1>6. Typed /\ Stamped /\ Fresh
  BY <1>2, <1>3, <1>4, <1>5
<1> HIDE DEF Typed, Stamped, Fresh
<1>7. TypeOK' /\ ClockInv'
  BY <1>1, <1>6 DEF ClockInv, IInv, TypeOK, Typed, Stamped, Fresh
<1>8. \A u \in Users : Cumulative(u)' /\ BudgetOf(u)'
  BY <1>1 DEF Cumulative, BudgetOf, GrantedSince, GrantedUpTo, Granted, IInv
<1>9. RecentInv'
  BY <1>1 DEF RecentInv, Recent, GrantedSince, GrantedUpTo, Granted, IInv
<1>10. QED
  BY <1>1, <1>7, <1>8, <1>9 DEF IInv

\* The clock makes waiting statements older, but none older than MaxLag, and nothing
\* has been granted since the new clock value.
LEMMA TickStep ==
    ASSUME IInv, Tick
    PROVE  IInv'
<1>1. /\ now \in Nat /\ now' = now + 1 /\ now' \in Times
      /\ UNCHANGED <<rows, phase, caller, stamp, attempt, opened, total>>
  BY DEF Tick, IInv, TypeOK, Times
<1>2. TypeOK'
  BY <1>1 DEF IInv, TypeOK
<1>3. ClockInv'
  <2>1. stamp \in [Calls -> Nat]
    BY DEF IInv, TypeOK
  <2>2. \A c \in Calls : stamp[c] <= now /\ (phase[c] = "stamped" => now - stamp[c] < MaxLag)
    BY DEF IInv, ClockInv, Tick
  <2>3. QED
    BY <1>1, <2>1, <2>2 DEF ClockInv
<1>4. ASSUME NEW u \in Users
      PROVE  /\ Cumulative(u)' /\ BudgetOf(u)'
             /\ \A t \in Times : t <= now' => Recent(u, t)'
  <2>1. /\ Cumulative(u) /\ BudgetOf(u) /\ TypeOK
        /\ \A t \in Times : t <= now => Recent(u, t)
    BY DEF IInv, RecentInv
  <2>2. Cumulative(u)'
    BY <1>1, <2>1 DEF Cumulative, Granted, Times
  <2>3. BudgetOf(u)'
    <3>1. rows[u].started \in Nat
      BY DEF IInv, TypeOK
    <3>2. QED
      BY <1>1, <2>1, <3>1 DEF BudgetOf, GrantedSince, GrantedUpTo, Granted
  <2>4. ASSUME NEW t \in Times, t <= now' PROVE Recent(u, t)'
    <3>1. GrantedSince(u, t)' = GrantedSince(u, t)
      BY <1>1 DEF GrantedSince, GrantedUpTo, Granted
    <3>2. CASE t <= now
      <4>1. Recent(u, t)
        BY <2>1, <3>2
      <4>2. QED
        BY <1>1, <3>1, <4>1 DEF Recent
    <3>3. CASE ~(t <= now)
      <4>1. t - 1 \in Int /\ t - 1 >= now
        BY <1>1, <2>4, <3>3 DEF Times
      <4>2. GrantedUpTo(u, t - 1) = Granted(u) /\ Granted(u) \in Nat
        BY <2>1, <4>1, SinceTypes
      <4>3. GrantedSince(u, t) = 0
        BY <4>2 DEF GrantedSince
      <4>4. QED
        BY <3>1, <4>3 DEF Recent
    <3>4. QED
      BY <3>2, <3>3
  <2>5. QED
    BY <2>2, <2>3, <2>4
<1>5. RecentInv'
  BY <1>4 DEF RecentInv
<1>6. QED
  BY <1>2, <1>3, <1>4, <1>5 DEF IInv

\* At the beginning nothing is granted.
LEMMA InitStep == Init => IInv
<1> SUFFICES ASSUME Init PROVE IInv
  OBVIOUS
<1>1. TypeOK /\ ClockInv
  BY DEF Init, TypeOK, Times, ClockInv, NoRow, Answered
<1>2. MaxNow \in Times /\ 0 \in Times
  BY DEF Times
<1>3. ASSUME NEW u \in Users
      PROVE  Cumulative(u) /\ BudgetOf(u) /\ \A t \in Times : Recent(u, t)
  <2>1. \A t \in Times : total[u][t] = 0
    BY DEF Init
  <2>2. Granted(u) = 0 /\ \A t \in Times : GrantedUpTo(u, t - 1) = 0
    BY <1>2, <2>1 DEF Granted, GrantedUpTo, Times
  <2>3. Cumulative(u)
    BY <2>1, <2>2 DEF Cumulative
  <2>4. BudgetOf(u)
    BY <2>2 DEF BudgetOf, Init, NoRow
  <2>5. \A t \in Times : Recent(u, t)
    BY <2>2 DEF Recent, GrantedSince
  <2>6. QED
    BY <2>3, <2>4, <2>5
<1>4. QED
  BY <1>1, <1>3 DEF IInv, RecentInv

\* The inductive invariant.
THEOREM Invariant == Spec => []IInv
<1>1. IInv /\ [Next]_vars => IInv'
  <2> SUFFICES ASSUME IInv, [Next]_vars PROVE IInv'
    OBVIOUS
  <2>1. CASE UNCHANGED vars
    BY <2>1 DEF vars, IInv, TypeOK, ClockInv, Cumulative, BudgetOf, RecentInv, Recent,
                GrantedSince, GrantedUpTo, Granted
  <2>2. QED
    BY <2>1, TickStep, GrantStep, CallStep DEF Next
<1>2. QED
  BY <1>1, InitStep, PTL DEF Spec

\* Every variable keeps its type: no row counts past the limit.
THEOREM TypeCorrect == Spec => []TypeOK
<1>1. IInv => TypeOK
  BY DEF IInv
<1>2. QED
  BY <1>1, Invariant, PTL

\* However many calls run at once and however late their statements commit, a
\* user is granted at most Limit requests per elapsed Window, and Limit more.
THEOREM BudgetCorrect == Spec => []LongRunBudget
<1>1. IInv => LongRunBudget
  <2> SUFFICES ASSUME IInv, NEW u \in Users
               PROVE  Granted(u) <= Limit * (now \div Window + 1)
    BY DEF LongRunBudget
  <2> DEFINE q == now \div Window
  <2>1. /\ rows[u] \in [started : Nat, count : 0..Limit]
        /\ opened[u] \in Nat /\ now \in Nat
    BY DEF IInv, TypeOK, Times
  <2>2. Granted(u) \in Nat
    BY SinceTypes DEF IInv
  <2>3. q \in Nat
    BY <2>1, DivBound
  <2>4. Granted(u) <= Limit * opened[u]
    BY <2>1, <2>2 DEF IInv, BudgetOf
  <2>5. opened[u] <= q + 1
    <3>1. CASE opened[u] = 0
      BY <2>3, <3>1
    <3>2. CASE opened[u] # 0
      <4>1. (opened[u] - 1) * Window <= now
        BY <2>1, <3>2 DEF IInv, BudgetOf
      <4>2. opened[u] - 1 <= q
        BY <2>1, <3>2, <4>1, DivBound
      <4>3. QED
        BY <2>1, <2>3, <4>2
    <3>3. QED
      BY <3>1, <3>2
  <2>6. Limit * opened[u] <= Limit * (q + 1)
    BY <2>1, <2>3, <2>5, MulMono
  <2>7. QED
    BY <2>1, <2>2, <2>3, <2>4, <2>6
<1>2. QED
  BY <1>1, Invariant, PTL

\* The retry loop charges a request once: a window's count is answered true.
THEOREM ChargedCorrect == Spec => []ChargedOnce
<1>1. IInv => ChargedOnce
  BY DEF IInv, TypeOK, BudgetOf, ChargedOnce
<1>2. QED
  BY <1>1, Invariant, PTL

\* A refused user was granted Limit requests since a Window before the refusal.
THEOREM DenialCorrect == Spec => DenialJustified
<1>1. IInv /\ [Next]_vars =>
         [\A c \in Calls :
            phase[c] = "stamped" /\ phase'[c] = "denied" =>
               GrantedSince(caller[c], stamp[c] - Window + 1) >= Limit]_vars
  <2> SUFFICES ASSUME IInv, [Next]_vars, NEW c \in Calls,
                      phase[c] = "stamped", phase'[c] = "denied"
               PROVE  GrantedSince(caller[c], stamp[c] - Window + 1) >= Limit
    OBVIOUS
  <2>1. Deny(c)
    BY DEF Next, vars, Tick, Call, Grant, Deny, Busy, Retry, GiveUp, Fail, Return, IInv, TypeOK
  <2>2. PICK u \in Users : u = caller[c]
    BY DEF IInv, TypeOK
  <2>3. PICK x \in Nat : x = stamp[c]
    BY DEF IInv, TypeOK
  <2>4. PICK s \in Nat : s = rows[u].started
    BY DEF IInv, TypeOK
  <2>5. /\ rows[u].count \in Nat /\ rows[u].count # 0 /\ rows[u].count >= Limit
        /\ x < s + Window
    <3>1. rows[u] \in [started : Nat, count : 0..Limit]
      BY DEF IInv, TypeOK
    <3>2. QED
      BY <2>1, <2>2, <2>3, <2>4, <3>1 DEF Deny, Admits, WindowOver, Row
  <2>6. rows[u].count <= GrantedSince(u, s)
    BY <2>4, <2>5 DEF IInv, BudgetOf
  <2>7. x - Window \in Int /\ s - 1 \in Int /\ x - Window <= s - 1 /\ s \in Int
        /\ x - Window + 1 \in Int /\ (x - Window + 1) - 1 = x - Window
    BY <2>5
  <2>8. GrantedUpTo(u, x - Window) <= GrantedUpTo(u, s - 1)
    BY <2>7, UpToMono DEF IInv
  <2>9. /\ GrantedUpTo(u, x - Window) \in Nat /\ GrantedUpTo(u, s - 1) \in Nat
        /\ Granted(u) \in Nat
    BY <2>7, SinceTypes DEF IInv
  <2>10. GrantedSince(u, x - Window + 1) = Granted(u) - GrantedUpTo(u, x - Window)
    BY <2>7 DEF GrantedSince
  <2>11. GrantedSince(u, s) = Granted(u) - GrantedUpTo(u, s - 1)
    BY DEF GrantedSince
  <2>12. GrantedSince(u, x - Window + 1) >= Limit
    BY <2>5, <2>6, <2>8, <2>9, <2>10, <2>11
  <2>13. QED
    BY <2>2, <2>3, <2>12
<1>2. QED
  BY <1>1, Invariant, PTL DEF Spec, DenialJustified

----------------------------------------------------------------------------
\* The bound of BurstBound, and the intervals that the clock has not yet left.
Burst == Limit * ((Window + MaxLag - 2) \div Window + 2)

BurstNow ==
    \A u \in Users, t \in Times :
        now < t + Window =>
            GrantedUpTo(u, t + Window - 1) - GrantedUpTo(u, t - 1) <= Burst

\* k + 1 windows that each started a Window after the one before, the first one after
\* t - MaxLag - Window and the last one before t + Window, are no more than Burst allows.
LEMMA BurstArith ==
    ASSUME NEW k \in Nat, k * Window <= 2 * Window + MaxLag - 2
    PROVE  Burst \in Int /\ Limit * (k + 1) <= Burst
<1> DEFINE n == Window + MaxLag - 2
           q == n \div Window
<1>1. q \in Int /\ k <= q + 1
  <2>1. CASE n < 0
    <3>1. Window = 1 /\ MaxLag = 0
      BY <2>1
    <3>2. q = -1
      BY <3>1
    <3>3. k = 0
      BY <3>1
    <3>4. QED
      BY <3>2, <3>3
  <2>2. CASE n >= 0 /\ k = 0
    <3>1. q \in Nat
      BY <2>2, DivBound
    <3>2. QED
      BY <2>2, <3>1
  <2>3. CASE n >= 0 /\ k # 0
    <3>1. k - 1 \in Nat /\ (k - 1) * Window <= n /\ n \in Nat
      <4>1. (k - 1) * Window = k * Window - Window /\ k * Window \in Nat
        OBVIOUS
      <4>2. QED
        BY <2>3, <4>1
    <3>2. k - 1 <= q /\ q \in Nat
      BY <3>1, DivBound
    <3>3. QED
      BY <3>2
  <2>4. QED
    BY <2>1, <2>2, <2>3
<1> HIDE DEF q
<1>2. k + 1 \in Nat /\ q + 2 \in Nat /\ k + 1 <= q + 2
  BY <1>1
<1>3. Limit * (k + 1) <= Limit * (q + 2) /\ Limit * (q + 2) \in Int
  BY <1>2, MulMono
<1>4. QED
  BY <1>3 DEF Burst, q

\* The inductive invariant bounds the intervals the clock has not left.
LEMMA BurstWhileOpen == IInv => BurstNow
<1> SUFFICES ASSUME IInv, NEW u \in Users, NEW t \in Times, now < t + Window
             PROVE  GrantedUpTo(u, t + Window - 1) - GrantedUpTo(u, t - 1) <= Burst
  BY DEF BurstNow
<1>1. PICK s \in Nat : s = rows[u].started
  BY DEF IInv, TypeOK
<1>2. PICK n \in 0..Limit : n = rows[u].count
  BY DEF IInv, TypeOK
<1>3. now \in Nat /\ t \in Nat /\ t - 1 \in Int /\ t + Window - 1 \in Int
  BY DEF IInv, TypeOK, Times
<1>4. /\ GrantedUpTo(u, t + Window - 1) = Granted(u) /\ Granted(u) \in Nat
      /\ GrantedUpTo(u, t - 1) \in Nat /\ GrantedSince(u, t) \in Nat
      /\ t - 1 >= now => GrantedUpTo(u, t - 1) = Granted(u)
  BY <1>3, SinceTypes DEF IInv
<1>5. SUFFICES GrantedSince(u, t) <= Burst
  BY <1>4 DEF GrantedSince
<1>6. 0 * Window <= 2 * Window + MaxLag - 2 => Burst \in Int /\ Limit * (0 + 1) <= Burst
  BY BurstArith
<1>7. 0 <= Burst /\ Burst \in Int
  BY <1>6
<1>8. CASE GrantedSince(u, t) = 0
  BY <1>7, <1>8
<1>9. CASE GrantedSince(u, t) # 0
  <2>1. t <= now
    BY <1>3, <1>4, <1>9 DEF GrantedSince
  <2>2. PICK k \in Nat : /\ k * Window <= s - t + MaxLag - 1 + Window
                         /\ GrantedSince(u, t) <= n + Limit * k
    BY <1>1, <1>2, <1>9, <2>1 DEF IInv, RecentInv, Recent
  <2>3. s <= now
    BY <1>1, <1>3 DEF IInv, BudgetOf
  <2>4. k * Window <= 2 * Window + MaxLag - 2
    BY <1>3, <2>2, <2>3
  <2>5. Limit * (k + 1) <= Burst
    BY <2>4, BurstArith
  <2>6. Limit * (k + 1) = Limit * k + Limit /\ Limit * k \in Nat
    OBVIOUS
  <2>7. QED
    BY <1>4, <1>7, <2>2, <2>5, <2>6
<1>10. QED
  BY <1>8, <1>9

\* In any Window of consecutive clock values the grants come from at most two fixed
\* windows, and from the windows a lag of the statements adds.
THEOREM BurstCorrect == Spec => []BurstBound
<1>1. Init => BurstBound
  <2>1. Init => BurstNow /\ now = 0
    BY InitStep, BurstWhileOpen DEF Init
  <2>2. \A t \in Times : 0 < t + Window
    BY DEF Times
  <2>3. QED
    BY <2>1, <2>2 DEF BurstNow, BurstBound, Burst
<1>2. IInv /\ BurstBound /\ [Next]_vars /\ BurstNow' => BurstBound'
  <2> SUFFICES ASSUME IInv, BurstBound, [Next]_vars, BurstNow', NEW u \in Users, NEW t \in Times
               PROVE  (GrantedUpTo(u, t + Window - 1) - GrantedUpTo(u, t - 1) <= Burst)'
    BY DEF BurstBound, Burst
  <2>1. now \in Nat /\ now' \in Nat /\ t \in Nat /\ t - 1 \in Int /\ t + Window - 1 \in Int
    <3>1. now' = now \/ now' = now + 1
      BY CallStep DEF Next, Tick, Grant, vars
    <3>2. QED
      BY <3>1 DEF IInv, TypeOK, Times
  <2>2. CASE now' < t + Window
    BY <2>2 DEF BurstNow
  <2>3. CASE ~(now' < t + Window)
    <3>1. GrantedUpTo(u, t + Window - 1) - GrantedUpTo(u, t - 1) <= Burst
      BY DEF BurstBound, Burst
    <3>2. /\ GrantedUpTo(u, t + Window - 1)' = GrantedUpTo(u, t + Window - 1)
          /\ GrantedUpTo(u, t - 1)' = GrantedUpTo(u, t - 1)
      <4>1. CASE UNCHANGED total
        BY <4>1 DEF GrantedUpTo
      <4>2. ASSUME NEW c \in Calls, Grant(c)
            PROVE  /\ GrantedUpTo(u, t + Window - 1)' = GrantedUpTo(u, t + Window - 1)
                   /\ GrantedUpTo(u, t - 1)' = GrantedUpTo(u, t - 1)
        <5>1. PICK v \in Users : v = caller[c]
          BY DEF IInv, TypeOK
        <5>2. now' = now
          BY <4>2 DEF Grant
        <5>3. t + Window - 1 < now /\ t - 1 < now
          BY <2>1, <2>3, <5>2
        <5>4. CASE u = v
          BY <2>1, <4>2, <5>1, <5>3, <5>4, SumsAfterGrant
        <5>5. CASE u # v
          BY <2>1, <4>2, <5>1, <5>5, SumsAfterGrant
        <5>6. QED
          BY <5>4, <5>5
      <4>3. QED
        BY <4>1, <4>2, CallStep DEF Next, Tick, vars
    <3>3. Burst' = Burst
      BY DEF Burst
    <3>4. QED
      BY <3>1, <3>2, <3>3
  <2>4. QED
    BY <2>2, <2>3
<1>3. QED
  BY <1>1, <1>2, BurstWhileOpen, Invariant, PTL DEF Spec
=============================================================================
