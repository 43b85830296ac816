-------------------------- MODULE LedColour_proofs --------------------------
(***************************************************************************)
(* Theorems about LedColour: the scaling of colours keeps to the limit and *)
(* to the proportions asked for, for every request and every sequence of   *)
(* changes, and what a round makes of them keeps to the limit as well.     *)
(***************************************************************************)
EXTENDS LedColour, TLAPS

-----------------------------------------------------------------------------
(* Arithmetic.                                                             *)

LEMMA Quotient ==
  ASSUME NEW a \in Nat, NEW b \in Nat \ {0}
  PROVE  a \div b \in Nat /\ b * (a \div b) <= a
OBVIOUS

LEMMA Remainder ==
  ASSUME NEW a \in Nat, NEW b \in Nat \ {0}
  PROVE  a % b \in Nat /\ a % b <= b - 1
OBVIOUS

LEMMA Cancel ==
  ASSUME NEW a \in Int, NEW b \in Int, NEW c \in Nat, c * a < c * b
  PROVE  a < b
OBVIOUS

LEMMA Monotone ==
  ASSUME NEW a \in Nat, NEW b \in Nat, NEW c \in Nat, a <= b
  PROVE  c * a <= c * b
OBVIOUS

LEMMA Product ==
  ASSUME NEW a \in Nat, NEW b \in Nat
  PROVE  a * b \in Nat
OBVIOUS

\* Three truncated shares of a total that is less than one more than limit
\* sum up to limit at most: x, y, z are the weights.
LEMMA Shares ==
  ASSUME NEW x \in Nat, NEW y \in Nat, NEW z \in Nat,
         NEW W \in Nat \ {0}, W = x + y + z,
         NEW limit \in Nat, NEW d \in Nat \ {0}, NEW f \in Nat, f <= d - 1
  PROVE  LET p == (limit * x + (x * f) \div d) \div W
             q == (limit * y + (y * f) \div d) \div W
             r == (limit * z + (z * f) \div d) \div W
         IN p \in Nat /\ q \in Nat /\ r \in Nat /\ p + q + r <= limit
<1> DEFINE Part(w) == (w * f) \div d
           Share(w) == (limit * w + Part(w)) \div W
<1>1. ASSUME NEW w \in Nat
      PROVE  Part(w) \in Nat /\ d * Part(w) <= w * f
  BY Product, Quotient
<1>2. ASSUME NEW w \in Nat
      PROVE  Share(w) \in Nat /\ W * Share(w) <= limit * w + Part(w)
  <2>1. limit * w + Part(w) \in Nat
    BY <1>1, Product
  <2> HIDE DEF Part
  <2> QED
    BY <2>1, Quotient
<1> HIDE DEF Part, Share
<1> DEFINE parts == Part(x) + Part(y) + Part(z)
           shares == Share(x) + Share(y) + Share(z)
<1>3. parts \in Nat /\ shares \in Nat
  <2>1. Part(x) \in Nat /\ Part(y) \in Nat /\ Part(z) \in Nat
    BY <1>1
  <2>2. Share(x) \in Nat /\ Share(y) \in Nat /\ Share(z) \in Nat
    BY <1>2
  <2> QED
    BY <2>1, <2>2
<1>4. d * parts <= W * f
  <2>1. d * parts = d * Part(x) + d * Part(y) + d * Part(z)
    BY <1>1
  <2>2. W * f = x * f + y * f + z * f
    OBVIOUS
  <2>3. /\ d * Part(x) <= x * f /\ d * Part(y) <= y * f /\ d * Part(z) <= z * f
        /\ x * f \in Nat /\ y * f \in Nat /\ z * f \in Nat
        /\ d * Part(x) \in Nat /\ d * Part(y) \in Nat /\ d * Part(z) \in Nat
    BY <1>1, Product
  <2> QED
    BY <2>1, <2>2, <2>3
<1>5. parts < W
  <2>1. W * f <= W * (d - 1)
    BY Monotone
  <2>2. W * (d - 1) = d * W - W
    OBVIOUS
  <2>3. d * parts < d * W
    <3>1. d * W \in Nat /\ d * parts \in Nat /\ W * f \in Nat
      BY <1>3, Product
    <3> QED
      BY <1>4, <2>1, <2>2, <3>1
  <2> QED
    BY <1>3, <2>3, Cancel
<1>6. W * shares <= limit * W + parts
  <2>1. W * shares = W * Share(x) + W * Share(y) + W * Share(z)
    BY <1>2
  <2>2. limit * W = limit * x + limit * y + limit * z
    OBVIOUS
  <2>3. /\ W * Share(x) <= limit * x + Part(x)
        /\ W * Share(y) <= limit * y + Part(y)
        /\ W * Share(z) <= limit * z + Part(z)
        /\ W * Share(x) \in Nat /\ W * Share(y) \in Nat /\ W * Share(z) \in Nat
        /\ limit * x \in Nat /\ limit * y \in Nat /\ limit * z \in Nat
    BY <1>2, Product
  <2> QED
    BY <1>1, <2>1, <2>2, <2>3
<1>7. W * shares < W * (limit + 1)
  <2>1. W * (limit + 1) = limit * W + W
    OBVIOUS
  <2>2. limit * W \in Nat /\ W * shares \in Nat
    BY <1>3, Product
  <2> QED
    BY <1>3, <1>5, <1>6, <2>1, <2>2
<1>8. shares < limit + 1
  BY <1>3, <1>7, Cancel
<1> QED
  BY <1>2, <1>3, <1>8 DEF Share, Part

Triples == [Channels -> Nat]

\* What Fit returns keeps to the limit, whatever the weights and the unit.
LEMMA FitWithinLimit ==
  ASSUME NEW w \in Triples, NEW u \in Nat \ {0}, NEW d \in Nat \ {0}
  PROVE  Fit(w, u, d) \in Triples /\ Total(Fit(w, u, d)) <= LIMIT
<1> DEFINE W == Total(w)
           f == (u * W) % d
<1>1. w[1] \in Nat /\ w[2] \in Nat /\ w[3] \in Nat /\ W \in Nat
  BY DEF Triples, Channels, Total
<1>2. u * W \in Nat
  BY <1>1, Product
<1>3. CASE u * W <= LIMIT * d
  <2>1. Fit(w, u, d) = [i \in Channels |-> (u * w[i]) \div d]
    BY <1>3 DEF Fit
  <2>2. ASSUME NEW i \in Channels
        PROVE  /\ (u * w[i]) \div d \in Nat
               /\ d * ((u * w[i]) \div d) <= u * w[i]
    <3>1. w[i] \in Nat
      BY DEF Triples
    <3> QED
      BY <3>1, Product, Quotient
  <2> DEFINE q(i) == (u * w[i]) \div d
  <2>3. /\ q(1) \in Nat /\ q(2) \in Nat /\ q(3) \in Nat
        /\ d * q(1) <= u * w[1] /\ d * q(2) <= u * w[2] /\ d * q(3) <= u * w[3]
    BY <2>2 DEF Channels
  <2>4. Total(Fit(w, u, d)) = q(1) + q(2) + q(3)
    BY <2>1 DEF Total, Channels
  <2>5. Fit(w, u, d) \in Triples
    BY <2>1, <2>2 DEF Triples
  <2> HIDE DEF q
  <2>6. d * (q(1) + q(2) + q(3)) <= u * W
    <3>1. u * W = u * w[1] + u * w[2] + u * w[3]
      BY <1>1 DEF Total
    <3>2. d * (q(1) + q(2) + q(3)) = d * q(1) + d * q(2) + d * q(3)
      BY <2>3
    <3>3. /\ d * q(1) \in Nat /\ d * q(2) \in Nat /\ d * q(3) \in Nat
          /\ u * w[1] \in Nat /\ u * w[2] \in Nat /\ u * w[3] \in Nat
      BY <1>1, <2>3, Product
    <3> HIDE DEF W
    <3> QED
      BY <2>3, <3>1, <3>2, <3>3
  <2>7. d * (q(1) + q(2) + q(3)) < d * (LIMIT + 1)
    BY <1>2, <1>3, <2>3, <2>6 DEF LIMIT
  <2>8. q(1) + q(2) + q(3) < LIMIT + 1
    BY <2>3, <2>7, Cancel DEF LIMIT
  <2> QED
    BY <2>3, <2>4, <2>5, <2>8 DEF LIMIT
<1>4. CASE u * W > LIMIT * d
  <2>1. Fit(w, u, d) =
          [i \in Channels |-> (LIMIT * w[i] + (w[i] * f) \div d) \div W]
    BY <1>2, <1>4 DEF Fit, LIMIT
  <2>2. W # 0
    BY <1>4 DEF LIMIT
  <2>3. f \in Nat /\ f <= d - 1
    BY <1>2, Remainder
  <2>4. W = w[1] + w[2] + w[3]
    BY DEF Total
  <2> HIDE DEF W, f
  <2> DEFINE p(i) == (LIMIT * w[i] + (w[i] * f) \div d) \div W
  <2>5. p(1) \in Nat /\ p(2) \in Nat /\ p(3) \in Nat /\ p(1) + p(2) + p(3) <= LIMIT
    <3>1. LIMIT \in Nat
      BY DEF LIMIT
    <3> QED
      BY <1>1, <2>2, <2>3, <2>4, <3>1, Shares
  <2>6. \A i \in Channels : Fit(w, u, d)[i] = p(i)
    BY <2>1
  <2>7. Fit(w, u, d) = [i \in Channels |-> p(i)]
    BY <2>1
  <2> HIDE DEF p
  <2> QED
    BY <2>5, <2>6, <2>7 DEF Total, Channels, Triples
<1> QED
  BY <1>2, <1>3, <1>4 DEF LIMIT

-----------------------------------------------------------------------------
(* The tables.                                                             *)

LEMMA ScaledColourFits ==
  ASSUME NEW c \in Requests
  PROVE  ScaledColour(c) \in Triples /\ Total(ScaledColour(c)) <= LIMIT
<1> DEFINE w == [i \in Channels |-> c[i]]
<1>1. w \in Triples
  BY DEF Requests, Triples, Channels
<1>2. Fit(w, 341, 85) = ScaledColour(c)
  BY DEF ScaledColour, Fit, Total, Channels
<1> HIDE DEF w
<1> QED
  BY <1>1, <1>2, FitWithinLimit

LEMMA ScaledStaticFits ==
  ASSUME NEW c \in Triples, NEW i \in Channels, NEW v \in Nat
  PROVE  ScaledStatic(c, i, v) \in Triples /\ Total(ScaledStatic(c, i, v)) <= LIMIT
<1> DEFINE w == [j \in Channels |-> IF j = i THEN LIMIT * v ELSE 127 * c[j]]
<1>1. w \in Triples
  BY DEF Triples, LIMIT
<1> HIDE DEF w
<1>2. Fit(w, 1, 127) \in Triples /\ Total(Fit(w, 1, 127)) <= LIMIT
  BY <1>1, FitWithinLimit
<1> QED
  BY <1>2 DEF ScaledStatic, w

TablesInv ==
  /\ LED_Colour_Values \in [0 .. 2 -> Triples]
  /\ LED_Static_Colour_Values \in Triples
  /\ TablesWithinLimit

LEMMA TablesInit == Init => TablesInv
<1> SUFFICES ASSUME Init PROVE TablesInv
  OBVIOUS
<1>1. \A k \in 0 .. 2 : Default[k] \in Requests
  BY DEF Default, Requests
<1>2. \A k \in 0 .. 2 : /\ ScaledColour(Default[k]) \in Triples
                       /\ Total(ScaledColour(Default[k])) <= LIMIT
  BY <1>1, ScaledColourFits
<1>3. Black \in Triples /\ Total(Black) <= LIMIT
  BY DEF Black, Triples, Total, Channels, LIMIT
<1> QED
  BY <1>2, <1>3 DEF Init, TablesInv, TablesWithinLimit

LEMMA TablesStep == TablesInv /\ [Next]_vars => TablesInv'
<1> SUFFICES ASSUME TablesInv, [Next]_vars PROVE TablesInv'
  OBVIOUS
<1> USE DEF TablesInv, TablesWithinLimit
<1>1. ASSUME NEW k \in SLOTS, NEW c \in COLOURS, LED_Set_Colour_Values(k, c)
      PROVE  TablesInv'
  <2>1. ScaledColour(c) \in Triples /\ Total(ScaledColour(c)) <= LIMIT
    BY ColourAssumption, ScaledColourFits
  <2>2. \A n \in 0 .. 2 : LED_Colour_Values'[n] =
           IF n = k THEN ScaledColour(c) ELSE LED_Colour_Values[n]
    BY <1>1 DEF LED_Set_Colour_Values
  <2>3. LED_Colour_Values' \in [0 .. 2 -> Triples]
    BY <1>1, <2>1 DEF LED_Set_Colour_Values
  <2>4. \A n \in 0 .. 2 : Total(LED_Colour_Values'[n]) <= LIMIT
    BY <2>1, <2>2
  <2> QED
    BY <1>1, <2>3, <2>4 DEF LED_Set_Colour_Values
<1>2. ASSUME NEW i \in Channels, NEW v \in CHANGES, LED_Set_Static_Colour(i, v)
      PROVE  TablesInv'
  <2>1. v \in Nat
    BY ChangeAssumption
  <2>2. /\ LED_Static_Colour_Values' \in Triples
        /\ Total(LED_Static_Colour_Values') <= LIMIT
    BY <1>2, <2>1, ScaledStaticFits DEF LED_Set_Static_Colour
  <2> QED
    BY <1>2, <2>2 DEF LED_Set_Static_Colour
<1>3. CASE UNCHANGED tables
  BY <1>3 DEF tables
<1> QED
  BY <1>1, <1>2, <1>3
     DEF Next, Round, ReadChannel, Show, RoundElse, vars

\* No sequence of HID OUT colours and control changes, of any values, makes a
\* colour whose channels sum up to more than the 1023 of LED.c:210: the total
\* after scaling is less than 1024, and truncation does the rest.
THEOREM TablesCorrect == Spec => []TablesWithinLimit
  BY TablesInit, TablesStep, PTL DEF Spec, TablesInv

-----------------------------------------------------------------------------
(* The round.                                                              *)

LEMMA QuotientFloor ==
  ASSUME NEW a \in Nat, NEW b \in Nat \ {0}
  PROVE  a < b * (a \div b + 1)
OBVIOUS

LEMMA BetweenFacts ==
  ASSUME NEW x \in Nat, NEW y \in Nat, NEW n \in Nat, NEW m \in Nat, n + m = LIMIT
  PROVE  /\ Between(x, y, n) \in Nat
         /\ LIMIT * Between(x, y, n) <= m * x + n * y
         /\ Between(x, y, n) \in x .. y \cup y .. x
<1> DEFINE a == LIMIT * x - n * (x - y)
           q == a \div LIMIT
<1>0. LIMIT \in Nat \ {0}
  BY DEF LIMIT
<1>1. a = m * x + n * y
  <2>1. LIMIT * x = n * x + m * x
    BY <1>0
  <2>2. n * (x - y) = n * x - n * y
    OBVIOUS
  <2>3. n * x \in Nat /\ m * x \in Nat /\ n * y \in Nat
    BY Product
  <2> QED
    BY <2>1, <2>2, <2>3
<1>2. a \in Nat
  BY <1>1, Product
<1>3. q \in Nat /\ LIMIT * q <= a /\ a < LIMIT * (q + 1)
  BY <1>0, <1>2, Quotient, QuotientFloor
<1>4. Between(x, y, n) = q
  BY DEF Between
<1> HIDE DEF q, a
<1>5. CASE x <= y
  <2>1. n * x <= n * y /\ m * x <= m * y
    BY <1>5, Monotone
  <2>2. LIMIT * x = n * x + m * x /\ LIMIT * y = n * y + m * y
    BY <1>0
  <2>3. LIMIT * x <= a /\ a <= LIMIT * y
    BY <1>1, <2>1, <2>2, Product
  <2>4. LIMIT * x < LIMIT * (q + 1) /\ LIMIT * q < LIMIT * (y + 1)
    <3>1. LIMIT * (y + 1) = LIMIT * y + LIMIT
      BY <1>0
    <3>2. LIMIT * x \in Nat /\ LIMIT * y \in Nat /\ LIMIT * q \in Nat
          /\ LIMIT * (q + 1) \in Nat
      BY <1>0, <1>3, Product
    <3> QED
      BY <1>0, <1>2, <1>3, <2>3, <3>1, <3>2
  <2>5. x < q + 1 /\ q < y + 1
    BY <1>0, <1>3, <2>4, Cancel
  <2> QED
    BY <1>1, <1>3, <1>4, <2>5
<1>6. CASE y <= x
  <2>1. n * y <= n * x /\ m * y <= m * x
    BY <1>6, Monotone
  <2>2. LIMIT * x = n * x + m * x /\ LIMIT * y = n * y + m * y
    BY <1>0
  <2>3. LIMIT * y <= a /\ a <= LIMIT * x
    BY <1>1, <2>1, <2>2, Product
  <2>4. LIMIT * y < LIMIT * (q + 1) /\ LIMIT * q < LIMIT * (x + 1)
    <3>1. LIMIT * (x + 1) = LIMIT * x + LIMIT
      BY <1>0
    <3>2. LIMIT * x \in Nat /\ LIMIT * y \in Nat /\ LIMIT * q \in Nat
          /\ LIMIT * (q + 1) \in Nat
      BY <1>0, <1>3, Product
    <3> QED
      BY <1>0, <1>2, <1>3, <2>3, <3>1, <3>2
  <2>5. y < q + 1 /\ q < x + 1
    BY <1>0, <1>3, <2>4, Cancel
  <2> QED
    BY <1>1, <1>3, <1>4, <2>5
<1> QED
  BY <1>5, <1>6

\* A mixture of two colours within the limit is within it.
LEMMA BetweenWithinLimit ==
  ASSUME NEW b \in Triples, NEW c \in Triples, NEW n \in 0 .. LIMIT,
         Total(b) <= LIMIT, Total(c) <= LIMIT
  PROVE  Between(b[1], c[1], n) + Between(b[2], c[2], n) + Between(b[3], c[3], n) <= LIMIT
<1> DEFINE q(i) == Between(b[i], c[i], n)
<1>0. LIMIT \in Nat \ {0} /\ n \in Nat
  BY DEF LIMIT
<1>1. PICK m \in Nat : n + m = LIMIT
  <2>1. LIMIT - n \in Nat
    BY DEF LIMIT
  <2> QED
    BY <1>0, <2>1
<1>2. /\ b[1] \in Nat /\ b[2] \in Nat /\ b[3] \in Nat
      /\ c[1] \in Nat /\ c[2] \in Nat /\ c[3] \in Nat
  BY DEF Triples, Channels
<1>3. /\ q(1) \in Nat /\ LIMIT * q(1) <= m * b[1] + n * c[1]
      /\ q(2) \in Nat /\ LIMIT * q(2) <= m * b[2] + n * c[2]
      /\ q(3) \in Nat /\ LIMIT * q(3) <= m * b[3] + n * c[3]
  BY <1>0, <1>1, <1>2, BetweenFacts
<1> HIDE DEF q
<1>4. LIMIT * (q(1) + q(2) + q(3)) <= m * Total(b) + n * Total(c)
  <2>1. /\ m * Total(b) = m * b[1] + m * b[2] + m * b[3]
        /\ n * Total(c) = n * c[1] + n * c[2] + n * c[3]
    BY <1>0, <1>1, <1>2 DEF Total
  <2>2. LIMIT * (q(1) + q(2) + q(3)) = LIMIT * q(1) + LIMIT * q(2) + LIMIT * q(3)
    BY <1>0, <1>3
  <2>3. /\ m * b[1] \in Nat /\ m * b[2] \in Nat /\ m * b[3] \in Nat
        /\ n * c[1] \in Nat /\ n * c[2] \in Nat /\ n * c[3] \in Nat
        /\ LIMIT * q(1) \in Nat /\ LIMIT * q(2) \in Nat /\ LIMIT * q(3) \in Nat
    BY <1>0, <1>1, <1>2, <1>3, Product
  <2> QED
    BY <1>3, <2>1, <2>2, <2>3
<1>5. Total(b) \in Nat /\ Total(c) \in Nat
  BY <1>2 DEF Total
<1>6. m * Total(b) <= m * LIMIT /\ n * Total(c) <= n * LIMIT
  BY <1>0, <1>1, <1>5, Monotone
<1>7. m * LIMIT + n * LIMIT = LIMIT * LIMIT
  BY <1>0, <1>1
<1> DEFINE total == q(1) + q(2) + q(3)
<1>8. total \in Nat
  BY <1>3
<1> HIDE DEF total
<1>9. LIMIT * total < LIMIT * (LIMIT + 1)
  <2>1. LIMIT * (LIMIT + 1) = LIMIT * LIMIT + LIMIT
    BY <1>0
  <2>2. /\ m * Total(b) \in Nat /\ n * Total(c) \in Nat /\ m * LIMIT \in Nat
        /\ n * LIMIT \in Nat /\ LIMIT * LIMIT \in Nat /\ LIMIT * total \in Nat
    BY <1>0, <1>1, <1>5, <1>8, Product
  <2> QED
    BY <1>0, <1>4, <1>6, <1>7, <2>1, <2>2 DEF total
<1> QED
  BY <1>0, <1>8, <1>9, Cancel DEF total, q

LEMMA PlaceFacts ==
  /\ \A sum \in Nat : Place(sum) \in 0 .. LIMIT
  /\ \A sum \in Nat : Low(sum) \in 0 .. 1 /\ (~Upper(sum) => Low(sum) = 0)
BY DEF Place, Upper, Doubled, Low, LIMIT

RoundTypes ==
  /\ pc \in RoundStart .. RoundShow
  /\ led_sum \in Nat /\ prev_led_sum \in Nat
  /\ colour \in [Channels -> Nat]

\* The channels read so far are what the round computes from the tables as
\* they still are, unless the round is exposed.
DonePart ==
  pc \in {2, 3} /\ ~exposed =>
    ~Uncomputed /\ \A i \in Channels : i < pc => colour[i] \in NewChannel(i)

RoundInv == TablesInv /\ RoundTypes /\ DonePart

LEMMA InputTypes ==
  /\ \A g \in GARBAGE : g \in Nat
  /\ \A s \in SUMS : s \in Nat
<1>1. ASSUME NEW g \in GARBAGE PROVE g \in Nat
  <2>1. g \in Words
    BY <1>1, GarbageAssumption
  <2> QED
    BY <2>1 DEF Words
<1>2. ASSUME NEW s \in SUMS PROVE s \in Nat
  <2>1. s \in Sums
    BY <1>2, SumAssumption
  <2> QED
    BY <2>1 DEF Sums
<1> QED
  BY <1>1, <1>2

LEMMA ChannelTypes ==
  ASSUME TablesInv, RoundTypes, NEW i \in Channels
  PROVE  \A n \in NewChannel(i) : n \in Nat
<1>2. LED_Colour_Values[0][i] \in Nat
  BY DEF TablesInv, Triples
<1>3. Faded(i) \in Nat
  <2>1. Low(led_sum) \in 0 .. 1 /\ Place(led_sum) \in 0 .. LIMIT
    BY PlaceFacts DEF RoundTypes
  <2>2. /\ LED_Colour_Values[Low(led_sum)][i] \in Nat
        /\ LED_Colour_Values[Low(led_sum) + 1][i] \in Nat
    BY <2>1 DEF TablesInv, Triples
  <2>3. PICK m \in Nat : Place(led_sum) + m = LIMIT
    <3>1. LIMIT - Place(led_sum) \in Nat /\ LIMIT \in Nat
      BY <2>1 DEF LIMIT
    <3> QED
      BY <2>1, <3>1
  <2>4. Place(led_sum) \in Nat
    BY <2>1
  <2> QED
    BY <2>2, <2>3, <2>4, BetweenFacts DEF Faded
<1> QED
  BY <1>2, <1>3, InputTypes DEF NewChannel

\* Reading a channel adds it to those that are what the round computes.
LEMMA ReadFacts ==
  ASSUME RoundInv, ReadChannel
  PROVE  /\ RoundTypes'
         /\ Uncomputed' = Uncomputed /\ \A i \in Channels : NewChannel(i)' = NewChannel(i)
         /\ ~exposed' => /\ ~Uncomputed
                         /\ \A i \in Channels : i < pc' => colour'[i] \in NewChannel(i)
<1>1. PICK n \in NewChannel(pc) : colour' = [colour EXCEPT ![pc] = n]
  BY DEF ReadChannel
<1>2. pc \in Channels /\ pc' = pc + 1 /\ pc \in {1, 2, 3}
  BY DEF ReadChannel, Reading, Channels
<1>3. n \in Nat
  BY <1>1, <1>2, ChannelTypes DEF RoundInv
<1>4. RoundTypes'
  BY <1>1, <1>2, <1>3 DEF ReadChannel, RoundInv, RoundTypes, RoundStart, RoundShow
<1>5. Uncomputed' = Uncomputed /\ \A i \in Channels : NewChannel(i)' = NewChannel(i)
  BY DEF ReadChannel, tables, NewChannel, Uncomputed, Faded
<1>6. ~exposed' => ~Uncomputed
  BY DEF ReadChannel
<1>7. ASSUME ~exposed', NEW i \in Channels, i < pc'
      PROVE  colour'[i] \in NewChannel(i)
  <2>1. CASE i = pc
    BY <1>1, <1>2, <2>1 DEF RoundInv, RoundTypes
  <2>2. CASE i # pc
    <3>1. i < pc /\ pc \in {2, 3}
      BY <1>2, <1>7, <2>2 DEF Channels
    <3>2. ~exposed
      BY <1>7 DEF ReadChannel
    <3>3. colour'[i] = colour[i]
      BY <1>1, <2>2 DEF RoundInv, RoundTypes
    <3> QED
      BY <3>1, <3>2, <3>3 DEF RoundInv, DonePart
  <2> QED
    BY <2>1, <2>2
<1> QED
  BY <1>4, <1>5, <1>6, <1>7

LEMMA RoundStep == RoundInv /\ [Next]_vars => RoundInv'
<1> SUFFICES ASSUME RoundInv, [Next]_vars PROVE RoundTypes' /\ DonePart'
  BY TablesStep DEF RoundInv
<1> USE DEF RoundStart, RoundShow, main, tables
<1>0. RoundTypes /\ DonePart
  BY DEF RoundInv
<1>1. CASE \E k \in SLOTS, c \in COLOURS : LED_Set_Colour_Values(k, c)
  <2>1. UNCHANGED main /\ exposed' = (exposed \/ Reading)
    BY <1>1 DEF LED_Set_Colour_Values
  <2>2. pc \in {2, 3} => Reading
    BY DEF Reading, Channels
  <2> QED
    BY <1>0, <2>1, <2>2 DEF RoundTypes, DonePart
<1>2. CASE \E i \in Channels, v \in CHANGES : LED_Set_Static_Colour(i, v)
  BY <1>0, <1>2 DEF LED_Set_Static_Colour, RoundTypes, DonePart, Uncomputed, NewChannel, Faded
<1>3. CASE Round
  <2>1. led_sum' \in Nat
    BY <1>3, InputTypes DEF Round
  <2> QED
    BY <1>0, <1>3, <2>1 DEF Round, RoundTypes, DonePart
<1>4. CASE ReadChannel
  BY <1>4, ReadFacts DEF DonePart
<1>5. CASE Show
  <2>1. prev_led_sum' \in Nat
    <3>1. Place(led_sum) \in Nat
      BY <1>0, PlaceFacts DEF RoundTypes
    <3> QED
      BY <1>0, <1>5, <3>1 DEF Show, RoundTypes
  <2>2. colour' \in [Channels -> Nat]
    BY <1>5 DEF Show, Black
  <2> QED
    BY <1>0, <1>5, <2>1, <2>2 DEF Show, RoundTypes, DonePart
<1>6. CASE RoundElse
  <2>1. prev_led_sum' \in Nat
    BY <1>6, InputTypes DEF RoundElse
  <2> QED
    BY <1>0, <1>6, <2>1 DEF RoundElse, RoundTypes, DonePart
<1>7. CASE UNCHANGED vars
  BY <1>0, <1>7 DEF vars, RoundTypes, DonePart, Uncomputed, NewChannel, Faded
<1> QED
  BY <1>1, <1>2, <1>3, <1>4, <1>5, <1>6, <1>7 DEF Next

LEMMA RoundInit == Init => RoundInv
<1> SUFFICES ASSUME Init PROVE RoundTypes /\ DonePart
  BY TablesInit DEF RoundInv
<1>1. Black \in [Channels -> Nat]
  BY DEF Black
<1> QED
  BY <1>1 DEF Init, RoundTypes, DonePart, RoundStart, RoundShow

\* A round that read its colours undisturbed, and computed them at all, sends
\* channels between those of the two colours, and within the limit: a mixture
\* of two colours within the limit is within it, also after truncation.
THEOREM RoundCorrect == Spec => RoundWithinLimit
<1> DEFINE Good ==
      /\ Total(colour') <= LIMIT
      /\ by_pressure => \A i \in Channels :
           LET a == LED_Colour_Values[Low(led_sum)][i]
               b == LED_Colour_Values[Low(led_sum) + 1][i]
           IN colour'[i] \in a .. b \cup b .. a
<1>1. ASSUME RoundInv, [Next]_vars
      PROVE  [pc' = RoundShow /\ pc # RoundShow /\ ~exposed' => Good]_vars
  <2> SUFFICES ASSUME Next, pc' = RoundShow, pc # RoundShow, ~exposed' PROVE Good
    BY <1>1
  <2>1. ReadChannel
    BY DEF Next, LED_Set_Colour_Values, LED_Set_Static_Colour,
           Round, Show, RoundElse, main, RoundShow, RoundStart
  <2>2. ~Uncomputed /\ \A i \in Channels : colour'[i] \in NewChannel(i)
    <3>1. \A i \in Channels : i < pc'
      BY DEF RoundShow, Channels
    <3> QED
      BY <1>1, <2>1, <3>1, ReadFacts
  <2>3. Low(led_sum) \in 0 .. 1 /\ Place(led_sum) \in 0 .. LIMIT
    BY <1>1, PlaceFacts DEF RoundInv, RoundTypes
  <2>4. /\ LED_Colour_Values[Low(led_sum)] \in Triples
        /\ LED_Colour_Values[Low(led_sum) + 1] \in Triples
        /\ Total(LED_Colour_Values[Low(led_sum)]) <= LIMIT
        /\ Total(LED_Colour_Values[Low(led_sum) + 1]) <= LIMIT
        /\ LED_Colour_Values[0] \in Triples
        /\ Total(LED_Colour_Values[0]) <= LIMIT
    BY <1>1, <2>3 DEF RoundInv, TablesInv, TablesWithinLimit
  <2>5. CASE by_pressure /\ prev_led_sum > 0
    <3>1. \A i \in Channels : colour'[i] = Faded(i)
      BY <2>2, <2>5 DEF NewChannel
    <3>2. Total(colour') <= LIMIT
      BY <2>3, <2>4, <3>1, BetweenWithinLimit DEF Total, Faded, Channels
    <3>3. PICK m \in Nat : Place(led_sum) + m = LIMIT
      <4>1. LIMIT - Place(led_sum) \in Nat /\ LIMIT \in Nat
        BY <2>3 DEF LIMIT
      <4> QED
        BY <2>3, <4>1
    <3>4. ASSUME NEW i \in Channels
          PROVE  LET a == LED_Colour_Values[Low(led_sum)][i]
                     b == LED_Colour_Values[Low(led_sum) + 1][i]
                 IN colour'[i] \in a .. b \cup b .. a
      <4> DEFINE x == LED_Colour_Values[Low(led_sum)][i]
                 y == LED_Colour_Values[Low(led_sum) + 1][i]
      <4>1. x \in Nat /\ y \in Nat /\ Place(led_sum) \in Nat
        BY <2>3, <2>4 DEF Triples
      <4>2. colour'[i] = Between(x, y, Place(led_sum))
        BY <3>1 DEF Faded
      <4> HIDE DEF x, y
      <4>3. Between(x, y, Place(led_sum)) \in x .. y \cup y .. x
        BY <3>3, <4>1, BetweenFacts
      <4> QED
        BY <4>2, <4>3 DEF x, y
    <3> QED
      BY <3>2, <3>4
  <2>6. CASE ~(by_pressure /\ prev_led_sum > 0)
    <3>1. \A i \in Channels : colour'[i] = LED_Colour_Values[0][i]
      BY <2>2, <2>6 DEF NewChannel
    <3>2. Total(colour') <= LIMIT
      BY <2>4, <3>1 DEF Total, Channels
    <3>3. by_pressure => Low(led_sum) = 0
      <4>1. by_pressure => ~Upper(led_sum)
        BY <1>1, <2>2, <2>6 DEF Uncomputed, RoundInv, RoundTypes
      <4> QED
        BY <1>1, <4>1, PlaceFacts DEF RoundInv, RoundTypes
    <3>4. ASSUME by_pressure, NEW i \in Channels
          PROVE  LET a == LED_Colour_Values[Low(led_sum)][i]
                     b == LED_Colour_Values[Low(led_sum) + 1][i]
                 IN colour'[i] \in a .. b \cup b .. a
      <4> DEFINE x == LED_Colour_Values[0][i]
                 y == LED_Colour_Values[Low(led_sum) + 1][i]
      <4>1. x \in Nat /\ y \in Nat
        BY <2>4 DEF Triples
      <4>2. colour'[i] = x /\ LED_Colour_Values[Low(led_sum)][i] = x
        BY <3>1, <3>3, <3>4
      <4> HIDE DEF x
      <4>3. x \in x .. y \cup y .. x
        BY <4>1
      <4> QED
        BY <4>2, <4>3
    <3> QED
      BY <3>2, <3>4
  <2> QED
    BY <2>5, <2>6
<1> QED
  BY <1>1, RoundInit, RoundStep, PTL DEF Spec, RoundWithinLimit

-----------------------------------------------------------------------------
(* Proportions.                                                            *)

LEMMA CancelWeak ==
  ASSUME NEW a \in Int, NEW b \in Int, NEW c \in Nat \ {0}, c * a <= c * b
  PROVE  a <= b
OBVIOUS

\* A channel with weight x is the truncation of K * x / D, whether the colour
\* was capped or not.
Truncates(v, x, K, D) == D * v <= K * x /\ K * x < D * (v + 1)

LEMMA QuotientTruncates ==
  ASSUME NEW x \in Nat, NEW u \in Nat, NEW d \in Nat \ {0}
  PROVE  Truncates((u * x) \div d, x, u, d)
<1>1. u * x \in Nat
  BY Product
<1> QED
  BY <1>1, Quotient, QuotientFloor DEF Truncates

LEMMA ShareTruncates ==
  ASSUME NEW x \in Nat, NEW W \in Nat \ {0}, NEW limit \in Nat,
         NEW d \in Nat \ {0}, NEW f \in Nat
  PROVE  Truncates((limit * x + (x * f) \div d) \div W, x, limit * d + f, d * W)
<1> DEFINE part == (x * f) \div d
           a == limit * x + part
           v == a \div W
<1>1. part \in Nat /\ d * part <= x * f /\ x * f < d * (part + 1)
  BY Product, Quotient, QuotientFloor
<1>2. a \in Nat
  BY <1>1, Product
<1> HIDE DEF part
<1>3. v \in Nat /\ W * v <= a /\ a < W * (v + 1)
  <2> HIDE DEF a
  <2> QED
    BY <1>2, Quotient, QuotientFloor
<1> HIDE DEF v
<1>4. (limit * d + f) * x = d * (limit * x) + x * f
  OBVIOUS
<1>5. (d * W) * v <= (limit * d + f) * x
  <2>1. d * (W * v) <= d * a
    BY <1>2, <1>3, Product, Monotone
  <2>2. (d * W) * v = d * (W * v) /\ d * a = d * (limit * x) + d * part
    BY <1>1, <1>3
  <2>3. /\ d * (W * v) \in Nat /\ d * (limit * x) \in Nat /\ d * part \in Nat
        /\ x * f \in Nat
    BY <1>1, <1>3, Product
  <2> QED
    BY <1>1, <1>4, <2>1, <2>2, <2>3
<1>6. (limit * d + f) * x < (d * W) * (v + 1)
  <2>1. W * (v + 1) \in Nat /\ a + 1 <= W * (v + 1)
    <3>1. W * (v + 1) \in Nat
      BY <1>3, Product
    <3> HIDE DEF a
    <3> QED
      BY <1>2, <1>3, <3>1
  <2>2. d * (a + 1) <= d * (W * (v + 1))
    BY <1>2, <2>1, Monotone
  <2>3. (d * W) * (v + 1) = d * (W * (v + 1))
    BY <1>3
  <2>4. d * (a + 1) = d * (limit * x) + d * (part + 1)
    BY <1>1
  <2>5. /\ d * (W * (v + 1)) \in Nat /\ d * (limit * x) \in Nat
        /\ d * (part + 1) \in Nat /\ x * f \in Nat
    BY <1>1, <1>3, <2>1, Product
  <2> QED
    BY <1>1, <1>4, <2>2, <2>3, <2>4, <2>5
<1> QED
  BY <1>5, <1>6 DEF Truncates, v, a, part

\* Truncations of weights in one proportion are in it to within themselves.
LEMMA Proportion ==
  ASSUME NEW x \in Nat, NEW y \in Nat, NEW p \in Nat, NEW q \in Nat,
         NEW K \in Nat, NEW D \in Nat \ {0},
         Truncates(p, x, K, D), Truncates(q, y, K, D)
  PROVE  p * y <= q * x + x
<1>1. y * (D * p) <= y * (K * x)
  BY Product, Monotone DEF Truncates
<1>2. x * (K * y) <= x * (D * (q + 1))
  <2>1. K * y \in Nat /\ D * (q + 1) \in Nat /\ K * y <= D * (q + 1)
    BY Product DEF Truncates
  <2> QED
    BY <2>1, Monotone
<1>3. y * (K * x) = x * (K * y)
  OBVIOUS
<1>4. y * (D * p) = D * (p * y) /\ x * (D * (q + 1)) = D * (q * x + x)
  OBVIOUS
<1>5. /\ p * y \in Nat /\ q * x + x \in Nat /\ D * (p * y) \in Nat
      /\ D * (q * x + x) \in Nat /\ x * (K * y) \in Nat
  BY Product
<1>6. D * (p * y) <= D * (q * x + x)
  BY <1>1, <1>2, <1>3, <1>4, <1>5
<1> QED
  BY <1>5, <1>6, CancelWeak

LEMMA FitTruncates ==
  ASSUME NEW w \in Triples, NEW u \in Nat \ {0}, NEW d \in Nat \ {0}
  PROVE  \E K \in Nat, D \in Nat \ {0} :
           /\ \A i \in Channels : Truncates(Fit(w, u, d)[i], w[i], K, D)
           /\ u * Total(w) >= LIMIT * d => K * Total(w) >= LIMIT * D
<1> DEFINE W == Total(w)
           f == (u * W) % d
<1>1. W \in Nat /\ \A i \in Channels : w[i] \in Nat
  BY DEF Triples, Channels, Total
<1>2. u * W \in Nat
  BY <1>1, Product
<1>3. CASE u * W <= LIMIT * d
  <2>1. \A i \in Channels : Fit(w, u, d)[i] = (u * w[i]) \div d
    BY <1>3 DEF Fit
  <2>2. \A i \in Channels : Truncates(Fit(w, u, d)[i], w[i], u, d)
    BY <1>1, <2>1, QuotientTruncates
  <2> QED
    BY <2>2
<1>4. CASE u * W > LIMIT * d
  <2>1. \A i \in Channels :
          Fit(w, u, d)[i] = (LIMIT * w[i] + (w[i] * f) \div d) \div W
    BY <1>2, <1>4 DEF Fit, LIMIT
  <2>2. W \in Nat \ {0} /\ LIMIT \in Nat
    BY <1>1, <1>4 DEF LIMIT
  <2>3. f \in Nat
    BY <1>2, Remainder
  <2> HIDE DEF W, f
  <2> DEFINE K == LIMIT * d + f
             D == d * W
  <2>4. \A i \in Channels : Truncates(Fit(w, u, d)[i], w[i], K, D)
    BY <1>1, <2>1, <2>2, <2>3, ShareTruncates
  <2>5. K \in Nat /\ D \in Nat \ {0}
    BY <2>2, <2>3, Product
  <2>6. K * W >= LIMIT * D
    <3>1. K * W = LIMIT * D + f * W
      BY <2>2, <2>3
    <3>2. f * W \in Nat /\ LIMIT * D \in Nat
      BY <2>2, <2>3, <2>5, Product
    <3> HIDE DEF K, D
    <3> QED
      BY <3>1, <3>2
  <2> HIDE DEF K, D
  <2> QED
    BY <2>4, <2>5, <2>6 DEF W
<1> QED
  BY <1>2, <1>3, <1>4 DEF LIMIT

\* The two parts of ColoursScaled, of one request and its colour.
Scaled(a, v) ==
  /\ Total(a) >= 255 => Total(v) > LIMIT - 3
  /\ \A i, j \in Channels : v[i] * a[j] - v[j] * a[i] \in (- a[j]) .. a[i]

LEMMA FitScaled ==
  ASSUME NEW w \in Triples
  PROVE  Scaled(w, Fit(w, 341, 85))
<1> DEFINE v == Fit(w, 341, 85)
           W == Total(w)
<1>1. v \in Triples
  BY FitWithinLimit
<1>2. PICK K \in Nat, D \in Nat \ {0} :
        /\ \A i \in Channels : Truncates(v[i], w[i], K, D)
        /\ 341 * W >= LIMIT * 85 => K * W >= LIMIT * D
  BY FitTruncates
<1> HIDE DEF v
<1>3. \A i \in Channels : w[i] \in Nat /\ v[i] \in Nat
  BY <1>1 DEF Triples
<1>4. ASSUME NEW i \in Channels, NEW j \in Channels
      PROVE  v[i] * w[j] - v[j] * w[i] \in (- w[j]) .. w[i]
  <2>1. v[i] * w[j] <= v[j] * w[i] + w[i]
    BY <1>2, <1>3, Proportion
  <2>2. v[j] * w[i] <= v[i] * w[j] + w[j]
    BY <1>2, <1>3, Proportion
  <2>3. /\ v[i] * w[j] \in Nat /\ v[j] * w[i] \in Nat
        /\ w[i] \in Nat /\ w[j] \in Nat
    BY <1>3, Product
  <2> QED
    BY <2>1, <2>2, <2>3
<1>5. ASSUME W >= 255
      PROVE  Total(v) > LIMIT - 3
  <2>0. 1 \in Channels /\ 2 \in Channels /\ 3 \in Channels
    BY DEF Channels
  <2>1. /\ w[1] \in Nat /\ w[2] \in Nat /\ w[3] \in Nat
        /\ v[1] \in Nat /\ v[2] \in Nat /\ v[3] \in Nat
    BY <1>3, <2>0
  <2>2. K * W >= LIMIT * D
    BY <1>2, <1>5, <2>1 DEF Total, LIMIT
  <2>3. /\ K * w[1] < D * (v[1] + 1) /\ K * w[2] < D * (v[2] + 1)
        /\ K * w[3] < D * (v[3] + 1)
    BY <1>2, <2>0 DEF Truncates
  <2>4. K * W = K * w[1] + K * w[2] + K * w[3]
    BY <2>1 DEF Total
  <2> DEFINE t == Total(v)
  <2>5. t \in Nat /\ t = v[1] + v[2] + v[3]
    BY <2>1 DEF Total
  <2>6. D * (t + 3) = D * (v[1] + 1) + D * (v[2] + 1) + D * (v[3] + 1)
    BY <2>1, <2>5
  <2> HIDE DEF t, W
  <2>7. /\ K * w[1] \in Nat /\ K * w[2] \in Nat /\ K * w[3] \in Nat
        /\ D * (v[1] + 1) \in Nat /\ D * (v[2] + 1) \in Nat /\ D * (v[3] + 1) \in Nat
        /\ LIMIT * D \in Nat /\ LIMIT \in Nat /\ D * (t + 3) \in Nat
    <3>1. LIMIT \in Nat /\ v[1] + 1 \in Nat /\ v[2] + 1 \in Nat /\ v[3] + 1 \in Nat /\ t + 3 \in Nat
      BY <2>1, <2>5 DEF LIMIT
    <3> QED
      BY <2>1, <3>1, Product
  <2>8. LIMIT * D < D * (t + 3)
    <3>1. K * W < D * (t + 3)
      BY <2>3, <2>4, <2>6, <2>7
    <3>2. K * W \in Nat
      BY <2>4, <2>7
    <3> QED
      BY <2>2, <2>7, <3>1, <3>2
  <2>9. LIMIT < t + 3
    <3>1. D * LIMIT < D * (t + 3)
      BY <2>7, <2>8
    <3> QED
      BY <2>5, <2>7, <3>1, Cancel
  <2> QED
    BY <2>5, <2>7, <2>9 DEF t
<1> QED
  BY <1>4, <1>5 DEF Scaled, v

LEMMA ScaledColourScaled ==
  ASSUME NEW c \in Requests
  PROVE  Scaled(c, ScaledColour(c))
<1> DEFINE w == [i \in Channels |-> c[i]]
<1>1. w \in Triples
  BY DEF Requests, Triples, Channels
<1>2. Fit(w, 341, 85) = ScaledColour(c)
  BY DEF ScaledColour, Fit, Total, Channels
<1>3. Total(w) = Total(c) /\ \A i \in Channels : w[i] = c[i]
  BY DEF Total, Channels
<1> HIDE DEF w
<1> QED
  BY <1>1, <1>2, <1>3, FitScaled DEF Scaled

\* The table holds the scaled colour of the request recorded with it.
AskedInv ==
  /\ asked \in [0 .. 2 -> Requests]
  /\ \A k \in 0 .. 2 : LED_Colour_Values[k] = ScaledColour(asked[k])

LEMMA AskedInit == Init => AskedInv
<1> SUFFICES ASSUME Init PROVE AskedInv
  OBVIOUS
<1>1. Default \in [0 .. 2 -> Requests]
  BY DEF Default, Requests
<1> QED
  BY <1>1 DEF Init, AskedInv

LEMMA AskedStep == TablesInv /\ AskedInv /\ [Next]_vars => AskedInv'
<1> SUFFICES ASSUME TablesInv, AskedInv, [Next]_vars PROVE AskedInv'
  OBVIOUS
<1>1. ASSUME NEW k \in SLOTS, NEW c \in COLOURS, LED_Set_Colour_Values(k, c)
      PROVE  AskedInv'
  <2>1. c \in Requests /\ k \in 0 .. 2
    BY ColourAssumption, SlotAssumption
  <2>2. asked' = [asked EXCEPT ![k] = c] /\ asked' \in [0 .. 2 -> Requests]
    BY <1>1, <2>1 DEF LED_Set_Colour_Values, AskedInv
  <2>3. ASSUME NEW n \in 0 .. 2
        PROVE  LED_Colour_Values'[n] = ScaledColour(asked'[n])
    <3>1. LED_Colour_Values'[n] = IF n = k THEN ScaledColour(c) ELSE LED_Colour_Values[n]
      BY <1>1, <2>1 DEF LED_Set_Colour_Values, TablesInv
    <3>2. asked'[n] = IF n = k THEN c ELSE asked[n]
      BY <2>1, <2>2 DEF AskedInv
    <3> QED
      BY <3>1, <3>2 DEF AskedInv
  <2> QED
    BY <2>2, <2>3 DEF AskedInv
<1>2. ASSUME UNCHANGED <<LED_Colour_Values, asked>>
      PROVE  AskedInv'
  BY <1>2 DEF AskedInv
<1> QED
  BY <1>1, <1>2
     DEF Next, LED_Set_Static_Colour, Round, ReadChannel, Show, RoundElse, vars, tables

\* LED.c:211-218: whatever colours the host asks for, in whatever order, each
\* is as bright as the limit allows and in the proportions asked for, to
\* within the truncation of a channel.
THEOREM ScaledCorrect == Spec => []ColoursScaled
<1>1. AskedInv => ColoursScaled
  BY ScaledColourScaled DEF AskedInv, ColoursScaled, Scaled
<1> QED
  BY <1>1, TablesInit, TablesStep, AskedInit, AskedStep, PTL DEF Spec

-----------------------------------------------------------------------------
(* Types.                                                                  *)

Limits == 0 .. LIMIT

MainOK ==
  /\ pc \in RoundStart .. RoundShow /\ by_pressure \in BOOLEAN
  /\ led_sum \in Sums /\ prev_led_sum \in Sums
  /\ colour \in [Channels -> Words]
  /\ exposed \in BOOLEAN

LEMMA RangeFacts ==
  /\ \A n \in Limits : n \in Nat /\ n \in Words /\ n \in Sums
  /\ \A x, y \in Limits : \A n \in x .. y \cup y .. x : n \in Limits
  /\ \A n \in Nat : n <= LIMIT => n \in Limits
  /\ \A n \in Sums : n \in Nat
  /\ 0 \in Sums /\ 0 \in Words /\ SUMS \subseteq Sums
<1>1. \A n \in Limits : n \in Nat /\ n \in Words /\ n \in Sums
  <2>1. \A n \in 0 .. LIMIT : n \in Nat
    BY DEF LIMIT
  <2>2. \A n \in 0 .. LIMIT : n \in Words
    BY DEF LIMIT, Words
  <2>3. \A n \in 0 .. LIMIT : n \in Sums
    BY DEF LIMIT, Sums
  <2> QED
    BY <2>1, <2>2, <2>3 DEF Limits
<1>2. ASSUME NEW x \in Limits, NEW y \in Limits, NEW n \in x .. y \cup y .. x
      PROVE  n \in Limits
  <2>1. x \in Nat /\ x <= LIMIT /\ y \in Nat /\ y <= LIMIT /\ LIMIT \in Nat
    BY DEF Limits, LIMIT
  <2>2. n \in Nat /\ n <= LIMIT
    BY <2>1
  <2> QED
    BY <2>1, <2>2 DEF Limits
<1>3. \A n \in Nat : n <= LIMIT => n \in Limits
  BY DEF Limits
<1>4. \A n \in Sums : n \in Nat
  BY DEF Sums
<1>5. 0 \in Sums /\ 0 \in Words
  BY DEF Sums, Words
<1> QED
  BY <1>1, <1>2, <1>3, <1>4, <1>5, SumAssumption

LEMMA TriplesAreColours ==
  ASSUME NEW c \in Triples, Total(c) <= LIMIT
  PROVE  c \in Colours
<1>1. c[1] \in Nat /\ c[2] \in Nat /\ c[3] \in Nat
  BY DEF Triples, Channels
<1>2. c[1] <= LIMIT /\ c[2] <= LIMIT /\ c[3] <= LIMIT
  BY <1>1 DEF Total, LIMIT
<1>3. \A i \in Channels : i = 1 \/ i = 2 \/ i = 3
  BY DEF Channels
<1>4. \A i \in Channels : c[i] \in Limits
  BY <1>1, <1>2, <1>3, RangeFacts
<1> QED
  BY <1>4 DEF Triples, Colours, Limits

LEMMA ColourTablesOK ==
  TablesInv => /\ LED_Colour_Values \in [0 .. 2 -> Colours]
               /\ LED_Static_Colour_Values \in Colours
<1> SUFFICES ASSUME TablesInv
             PROVE  /\ LED_Colour_Values \in [0 .. 2 -> Colours]
                    /\ LED_Static_Colour_Values \in Colours
  OBVIOUS
<1>1. \A k \in 0 .. 2 : LED_Colour_Values[k] \in Colours
  BY TriplesAreColours DEF TablesInv, TablesWithinLimit
<1>2. LED_Static_Colour_Values \in Colours
  BY TriplesAreColours DEF TablesInv, TablesWithinLimit
<1> QED
  BY <1>1, <1>2 DEF TablesInv

\* A computed channel is within the limit, an uninitialized one is a word.
LEMMA NewChannelWords ==
  ASSUME TablesInv, MainOK, NEW i \in Channels
  PROVE  NewChannel(i) \subseteq Words
<1>1. \A k \in 0 .. 2 : LED_Colour_Values[k][i] \in Limits
  BY ColourTablesOK DEF Colours, Limits
<1>2. Faded(i) \in Words
  <2>1. Low(led_sum) \in 0 .. 1 /\ Place(led_sum) \in Limits
    BY PlaceFacts, RangeFacts DEF MainOK, Limits
  <2> DEFINE x == LED_Colour_Values[Low(led_sum)][i]
             y == LED_Colour_Values[Low(led_sum) + 1][i]
  <2>2. x \in Limits /\ y \in Limits
    <3>1. Low(led_sum) \in 0 .. 2 /\ Low(led_sum) + 1 \in 0 .. 2
      BY <2>1
    <3> QED
      BY <1>1, <3>1
  <2>3. PICK m \in Nat : Place(led_sum) + m = LIMIT
    <3>1. LIMIT - Place(led_sum) \in Nat /\ LIMIT \in Nat /\ Place(led_sum) \in Nat
      BY <2>1 DEF LIMIT, Limits
    <3> QED
      BY <3>1
  <2>4. Faded(i) = Between(x, y, Place(led_sum))
    BY DEF Faded
  <2> HIDE DEF x, y
  <2>5. Faded(i) \in x .. y \cup y .. x
    <3>1. x \in Nat /\ y \in Nat /\ Place(led_sum) \in Nat
      BY <2>1, <2>2, RangeFacts
    <3> QED
      BY <2>3, <2>4, <3>1, BetweenFacts
  <2> QED
    BY <2>2, <2>5, RangeFacts
<1>3. LED_Colour_Values[0][i] \in Words
  BY <1>1, RangeFacts
<1> QED
  BY <1>2, <1>3, GarbageAssumption DEF NewChannel

LEMMA MainStep == TablesInv /\ MainOK /\ [Next]_vars => MainOK'
<1> SUFFICES ASSUME TablesInv, MainOK, [Next]_vars PROVE MainOK'
  OBVIOUS
<1> USE DEF MainOK, main, tables
<1>1. CASE \E k \in SLOTS, c \in COLOURS : LED_Set_Colour_Values(k, c)
  <2>1. UNCHANGED main /\ exposed' = (exposed \/ Reading)
    BY <1>1 DEF LED_Set_Colour_Values
  <2>2. exposed' \in BOOLEAN
    BY <2>1, Zenon
  <2> QED
    BY <2>1, <2>2
<1>2. CASE \E i \in Channels, v \in CHANGES : LED_Set_Static_Colour(i, v)
  BY <1>2 DEF LED_Set_Static_Colour
<1>3. CASE Round
  <2>1. pc' \in RoundStart .. RoundShow
    BY <1>3 DEF Round, RoundStart, RoundShow
  <2> QED
    BY <1>3, <2>1, RangeFacts DEF Round
<1>4. CASE ReadChannel
  <2>1. pc \in Channels /\ pc' \in RoundStart .. RoundShow
    BY <1>4 DEF ReadChannel, Reading, Channels, RoundStart, RoundShow
  <2>2. PICK n \in NewChannel(pc) : colour' = [colour EXCEPT ![pc] = n]
    BY <1>4 DEF ReadChannel
  <2>3. n \in Words
    BY <2>1, <2>2, NewChannelWords
  <2>4. colour' \in [Channels -> Words]
    BY <2>1, <2>2, <2>3
  <2>5. exposed' = (exposed \/ Uncomputed)
    BY <1>4 DEF ReadChannel
  <2>6. exposed' \in BOOLEAN
    BY <2>5, Zenon
  <2> QED
    BY <1>4, <2>1, <2>4, <2>6 DEF ReadChannel
<1>5. CASE Show
  <2>1. prev_led_sum' \in Sums
    <3>1. Place(led_sum) \in Sums
      BY PlaceFacts, RangeFacts DEF Limits
    <3> QED
      BY <1>5, <3>1 DEF Show
  <2>2. colour' \in [Channels -> Words]
    BY <1>5, RangeFacts DEF Show, Black
  <2>3. pc' \in RoundStart .. RoundShow
    BY <1>5 DEF Show, RoundStart, RoundShow
  <2> QED
    BY <1>5, <2>1, <2>2, <2>3, RangeFacts DEF Show
<1>6. CASE RoundElse
  BY <1>6, RangeFacts DEF RoundElse
<1>7. CASE UNCHANGED vars
  BY <1>7 DEF vars
<1> QED
  BY <1>1, <1>2, <1>3, <1>4, <1>5, <1>6, <1>7 DEF Next

LEMMA MainInit == Init => MainOK
<1>1. 0 \in RoundStart .. RoundShow
  BY DEF RoundStart, RoundShow
<1> QED
  BY <1>1, RangeFacts DEF Init, MainOK, RoundStart, Black

\* Every colour is within the LED's range and everything main computes fits
\* its 16 bits, whatever the uninitialized channels hold.
THEOREM TypeCorrect == Spec => []TypeOK
<1>1. TablesInv /\ AskedInv /\ MainOK => TypeOK
  <2> SUFFICES ASSUME TablesInv, AskedInv, MainOK PROVE TypeOK
    OBVIOUS
  <2>1. /\ LED_Colour_Values \in [0 .. 2 -> Colours]
        /\ LED_Static_Colour_Values \in Colours
    BY ColourTablesOK
  <2> QED
    BY <2>1, Zenon DEF AskedInv, MainOK, TypeOK
<1> QED
  BY <1>1, TablesInit, TablesStep, AskedInit, AskedStep, MainInit, MainStep, PTL DEF Spec
=============================================================================
