--------------------------- MODULE ProgramProofs ----------------------------
(***************************************************************************)
(* The exercise programs with several processes or threads, for any range  *)
(* of numbers, any output and any number of workers: the primes come out   *)
(* exactly once, and the parts of the output come out in order.            *)
(***************************************************************************)
EXTENDS PrimePools, OrderedOutput, SequenceTheorems, WellFoundedInduction, TLAPS

(* The prime programs: what their test decides. *)

(* The least-number principle, from the library's well-founded relations.  *)
LEMMA LeastNumber == ASSUME NEW T \in SUBSET Nat, T # {} PROVE \E n \in T : \A k \in T : n <= k
<1> DEFINE R == OpToRel(<, Nat)
<1>1. IsWellFoundedOn(R, Nat)
  BY NatLessThanWellFounded
<1>2. \A x, y \in Nat : <<x, y>> \in R <=> x < y
  BY DEF OpToRel
<1> HIDE DEF R
<1>3. PICK n \in T : \A k \in T : ~(<<k, n>> \in R)
  BY <1>1, WFMin
<1>4. \A k \in T : ~(k < n)
  BY <1>2, <1>3, Zenon
<1>5. \A k \in T : n <= k
  BY <1>4
<1> QED
  BY <1>5, Zenon

LEMMA Division ==
  ASSUME NEW n \in Nat, NEW i \in Nat \ {0}
  PROVE  n = i * (n \div i) + (n % i) /\ n \div i \in Nat /\ n % i \in 0 .. i - 1
  OBVIOUS

LEMMA Quotient ==
  ASSUME NEW i \in Nat \ {0}, NEW q \in Nat
  PROVE  (i * q) \div i = q /\ (i * q) % i = 0
  OBVIOUS

LEMMA Algebra ==
  /\ \A a, b \in Nat : a * b \in Nat /\ a * b = b * a
  /\ \A a, b, c \in Nat : (a * b) * c = a * (b * c) /\ a * (b + c) = a * b + a * c
  /\ \A a, b, c \in Nat : a # 0 /\ a * b = a * c => b = c
  /\ \A a, b, c \in Nat : b < c /\ a # 0 => a * b < a * c
  OBVIOUS

Divides(i, n) == \E q \in Nat : n = i * q

LEMMA DividesIsRest == ASSUME NEW n \in Nat, NEW i \in Nat \ {0} PROVE n % i = 0 <=> Divides(i, n)
<1>1. ASSUME n % i = 0 PROVE Divides(i, n)
  <2>1. n = i * (n \div i) + (n % i) /\ n \div i \in Nat
    BY Division
  <2>2. n = i * (n \div i)
    BY <1>1, <2>1
  <2> QED
    BY <2>1, <2>2 DEF Divides
<1>2. ASSUME NEW q \in Nat, n = i * q PROVE n % i = 0
  BY <1>2, Quotient
<1> QED
  BY <1>1, <1>2 DEF Divides

(* A divisor strictly between has a partner. *)
LEMMA Partner ==
  ASSUME NEW n \in Nat, NEW d \in 2 .. n - 1, n % d = 0
  PROVE  \E q \in 2 .. n - 1 : n = d * q /\ n = q * d
<1>1. d \in Nat \ {0}
  OBVIOUS
<1>2. PICK q \in Nat : n = d * q
  BY <1>1, DividesIsRest DEF Divides
<1>3. q # 0 /\ q # 1
  BY <1>2
<1>4. q < n
  <2>1. q * 1 < q * d
    BY <1>1, <1>3
  <2> QED
    BY <1>2, <2>1
<1> QED
  BY <1>2, <1>3, <1>4

(* The test of the loop at i, when n is a product. *)
LEMMA AtFactor ==
  ASSUME NEW n \in Nat, NEW i \in Nat \ {0}, NEW q \in Nat, n = i * q
  PROVE  n \div i = q /\ n % i = 0
  BY Quotient

LEMMA PrimeFactors ==
  ASSUME NEW n \in Nat, IsPrime(n), NEW a \in 2 .. n - 1, NEW b \in Nat
  PROVE  n # a * b
<1> SUFFICES ASSUME n = a * b PROVE FALSE
  OBVIOUS
<1>1. a \in Nat \ {0}
  OBVIOUS
<1>2. n % a = 0
  BY <1>1, AtFactor
<1> QED
  BY <1>2 DEF IsPrime

LEMMA NotPrime ==
  ASSUME NEW n \in Nat, n > 1, ~IsPrime(n)
  PROVE  \E d, q \in 2 .. n - 1 : n = d * q /\ n = q * d
<1>1. PICK d \in 2 .. n - 1 : n % d = 0
  BY DEF IsPrime
<1> QED
  BY <1>1, Partner

(* Looking for divisors up to the root finds one if there is any. *)
LEMMA UpToRoot ==
  ASSUME NEW n \in Nat, n > 1
  PROVE  (\A i \in 2 .. n : i <= n \div i => n % i # 0) <=> IsPrime(n)
<1>1. ASSUME IsPrime(n), NEW i \in 2 .. n, i <= n \div i PROVE n % i # 0
  <2>1. i # n
    <3>1. n \div n = 1
      OBVIOUS
    <3> QED
      BY <1>1, <3>1
  <2> QED
    BY <1>1, <2>1 DEF IsPrime
<1>2. ASSUME ~IsPrime(n), \A i \in 2 .. n : i <= n \div i => n % i # 0 PROVE FALSE
  <2>1. PICK d, q \in 2 .. n - 1 : n = d * q /\ n = q * d
    BY <1>2, NotPrime
  <2>2. d \in Nat \ {0} /\ q \in Nat \ {0} /\ d \in 2 .. n /\ q \in 2 .. n
    OBVIOUS
  <2>3. n \div d = q /\ n % d = 0 /\ n \div q = d /\ n % q = 0
    BY <2>1, <2>2, AtFactor
  <2>4. d <= q \/ q <= d
    BY <2>2
  <2> QED
    BY <1>2, <2>2, <2>3, <2>4
<1> QED
  BY <1>1, <1>2

(* Euclid: a prime that divides a product, and not the smaller factor,     *)
(* divides the other.                                                      *)
LEMMA Euclid ==
  ASSUME NEW p \in Nat, IsPrime(p), NEW i \in 1 .. p - 1, NEW q \in Nat, Divides(p, i * q)
  PROVE  Divides(p, q)
<1> DEFINE T == {k \in Nat : k # 0 /\ Divides(p, k * q)}
<1>0. p > 1 /\ i \in Nat \ {0}
  BY DEF IsPrime
<1>1. i \in T /\ T \in SUBSET Nat
  BY <1>0
<1>2. PICK k \in T : \A m \in T : k <= m
  <2> HIDE DEF T
  <2> QED
    BY <1>1, LeastNumber
<1>3. k \in Nat /\ k # 0 /\ k <= i /\ Divides(p, k * q)
  BY <1>1, <1>2
<1> DEFINE a == p \div k
           r == p % k
<1>4. a \in Nat /\ r \in Nat /\ r < k /\ p = k * a + r
  <2>1. k \in Nat \ {0}
    BY <1>3
  <2>2. p = k * (p \div k) + (p % k) /\ p \div k \in Nat /\ p % k \in 0 .. k - 1
    BY <2>1, Division
  <2> QED
    BY <2>1, <2>2
<1>5. k = 1
  <2> SUFFICES ASSUME k # 1 PROVE FALSE
    OBVIOUS
  <2>1. r # 0
    <3>1. k \in 2 .. p - 1
      BY <1>0, <1>3
    <3> QED
      BY <3>1 DEF IsPrime
  <2> HIDE DEF a, r
  <2>2. Divides(p, r * q)
    <3>1. PICK m \in Nat : k * q = p * m
      BY <1>3 DEF Divides
    <3>2. p * q = (k * a) * q + r * q
      BY <1>3, <1>4
    <3>3. (k * a) * q = p * (m * a)
      <4>1. (k * a) * q = (k * q) * a
        BY <1>3, <1>4
      <4>2. (p * m) * a = p * (m * a)
        BY <1>4
      <4> QED
        BY <3>1, <4>1, <4>2
    <3>4. r * q = p * (q - m * a)
      <4>1. r * q \in Nat /\ p * q \in Nat /\ p * (m * a) \in Nat /\ m * a \in Nat
        BY <1>4
      <4>2. p * (q - m * a) = p * q - p * (m * a)
        BY <4>1
      <4> QED
        BY <3>2, <3>3, <4>1, <4>2, <1>3, <1>4
    <3>5. q - m * a \in Nat
      <4> DEFINE x == m * a
      <4>1. x \in Nat /\ r * q \in Nat /\ r * q = p * (q - x)
        BY <1>4, <3>4
      <4> HIDE DEF x
      <4>2. q - x >= 0
        <5> SUFFICES ASSUME x - q >= 1 PROVE FALSE
          BY <4>1
        <5>1. p * (q - x) < 0
          BY <1>0, <4>1
        <5> QED
          BY <4>1, <5>1
      <4> QED
        BY <4>1, <4>2 DEF x
    <3> QED
      BY <3>4, <3>5 DEF Divides
  <2>3. r \in T
    BY <1>4, <2>1, <2>2
  <2> QED
    BY <1>2, <1>3, <1>4, <2>3
<1>6. k * q = q
  BY <1>5
<1> QED
  BY <1>3, <1>6

(* 02few/07prime.c stops before the root: it misses squares of primes.     *)
LEMMA BeforeRoot ==
  ASSUME NEW n \in Nat, n > 1
  PROVE  (n \in {2, 3} \/ \A i \in 2 .. n : i < n \div i => n % i # 0) <=> (IsPrime(n) \/ SquareOfPrime(n))
<1>1. n \in {2, 3} => IsPrime(n)
  BY DEF IsPrime
<1>2. ASSUME IsPrime(n), NEW i \in 2 .. n, i < n \div i PROVE n % i # 0
  <2>1. \A j \in 2 .. n : j <= n \div j => n % j # 0
    BY <1>2, UpToRoot
  <2>2. n \div i \in Int
    BY Division
  <2> QED
    BY <1>2, <2>1, <2>2
<1>3. ASSUME SquareOfPrime(n), NEW i \in 2 .. n, i < n \div i, n % i = 0 PROVE FALSE
  <2>1. PICK p \in 2 .. n : p * p = n /\ IsPrime(p)
    BY <1>3 DEF SquareOfPrime
  <2>2. i \in Nat \ {0} /\ p \in Nat /\ p > 1
    OBVIOUS
  <2>3. PICK q \in Nat : n = i * q
    BY <1>3, <2>2, DividesIsRest DEF Divides
  <2>4. n \div i = q
    BY <2>2, <2>3, AtFactor
  <2>5. i < p
    <3> SUFFICES ASSUME p <= i PROVE FALSE
      BY <2>2
    <3>1. p < q
      BY <1>3, <2>2, <2>4
    <3>2. p * p < p * q
      BY <2>2, <3>1
    <3>3. p * q <= i * q
      BY <2>2
    <3>4. p * p \in Nat /\ p * q \in Nat /\ i * q \in Nat
      BY <2>2
    <3> QED
      BY <2>1, <2>3, <3>2, <3>3, <3>4
  <2>6. Divides(p, q)
    <3>1. Divides(p, i * q)
      BY <2>1, <2>2, <2>3 DEF Divides
    <3>2. i \in 1 .. p - 1
      BY <2>2, <2>5
    <3> QED
      BY <2>1, <2>2, <3>1, <3>2, Euclid
  <2>7. PICK m \in Nat : q = p * m
    BY <2>6 DEF Divides
  <2>8. p * p = p * (i * m)
    <3>1. i * (p * m) = p * (i * m)
      BY <2>2
    <3> QED
      BY <2>1, <2>3, <2>7, <3>1
  <2>9. p = i * m
    <3>1. i * m \in Nat
      BY <2>2
    <3> QED
      BY <2>2, <2>8, <3>1, Algebra
  <2>10. i \in 2 .. p - 1
    BY <2>2, <2>5
  <2> QED
    BY <2>1, <2>2, <2>9, <2>10, PrimeFactors
<1>4. ASSUME \A i \in 2 .. n : i < n \div i => n % i # 0, ~IsPrime(n) PROVE SquareOfPrime(n)
  <2>1. PICK d, q \in 2 .. n - 1 : n = d * q /\ n = q * d
    BY <1>4, NotPrime
  <2>2. d \in Nat \ {0} /\ q \in Nat \ {0} /\ d \in 2 .. n /\ q \in 2 .. n
    OBVIOUS
  <2>3. n \div d = q /\ n % d = 0 /\ n \div q = d /\ n % q = 0
    BY <2>1, <2>2, AtFactor
  <2>4. d = q
    BY <1>4, <2>2, <2>3
  <2>5. IsPrime(d)
    <3> SUFFICES ASSUME ~IsPrime(d) PROVE FALSE
      OBVIOUS
    <3>1. PICK a, b \in 2 .. d - 1 : d = a * b
      BY <2>2, NotPrime
    <3>2. a \in Nat \ {0} /\ b \in Nat \ {0} /\ b * d \in Nat /\ a \in 2 .. n
      BY <2>2
    <3>3. n = a * (b * d)
      <4>1. (a * b) * d = a * (b * d)
        BY <2>2, <3>2
      <4> QED
        BY <2>1, <2>4, <3>1, <4>1
    <3>4. n \div a = b * d /\ n % a = 0
      BY <3>2, <3>3, AtFactor
    <3>5. a < b * d
      <4>1. 1 * d < b * d
        BY <2>2
      <4> QED
        BY <2>2, <3>2, <4>1
    <3> QED
      BY <1>4, <3>2, <3>4, <3>5
  <2> QED
    BY <2>1, <2>2, <2>4, <2>5 DEF SquareOfPrime
<1> QED
  BY <1>1, <1>2, <1>3, <1>4
-----------------------------------------------------------------------------
WorkerLabels == {"none", "choose", "lock", "look", "take", "unlock", "test", "ended"}

(* Whose number n is where numbers are allotted beforehand. *)
OwnerOf == [n \in MIN .. MAX |-> IF pprog.allots = "own" THEN n - MIN ELSE n % NUM]

(* Where they are shared: n has been taken, and w has it. *)
Taken == {n \in MIN .. MAX : IF pprog.allots = "counter" THEN n < job ELSE n < next /\ n # job}
Carries(w, n) == wpc[w] \in {"unlock", "test"} /\ num[w] = n

(* Nobody will test n any more. *)
Done(n) ==
  IF Shares THEN n \in Taken /\ \A w \in CrewOf : ~Carries(w, n)
  ELSE n < num[OwnerOf[n]] \/ (n = num[OwnerOf[n]] /\ wpc[OwnerOf[n]] # "test")

(* No worker was killed, and main did not give up. *)
Good == lost = FALSE /\ ~(boss = "exit" /\ created < NUM)

Printing ==
  /\ \A n \in MIN .. MAX : printed[n] \in {0, 1} /\ (printed[n] = 1 => Done(n) /\ is_prime(n))
  /\ Good => \A n \in MIN .. MAX : Done(n) /\ is_prime(n) => printed[n] = 1

Allotted ==
  ~Shares =>
    /\ \A w \in CrewOf :
         /\ wpc[w] \in {"none", "choose", "test", "ended"}
         /\ num[w] = 0 \/ (num[w] \in MIN .. MAX /\ OwnerOf[num[w]] = w)
         /\ wpc[w] = "test" => num[w] # 0
    /\ Good => \A n \in MIN .. MAX : wpc[OwnerOf[n]] = "ended" => n <= num[OwnerOf[n]]

Locked ==
  /\ \A w \in CrewOf : wpc[w] \in {"look", "take", "unlock"} => owner = w
  /\ boss = "hand" => owner = MainThread

JobInv ==
  /\ pprog.allots = "counter" => job \in MIN .. MAX + 1
  /\ pprog.allots = "handed" => /\ job <= 0 \/ (job = next - 1 /\ job \in MIN .. MAX)
                                /\ job = -1 => next = MAX + 2
                                /\ boss \in {"create", "lock", "hand"} => next <= MAX + 1
  /\ pprog.allots # "handed" => boss \in {"create", "wait", "exit"}

Sharing ==
  Shares =>
    /\ \A w \in CrewOf :
         /\ wpc[w] \in {"none", "lock", "look", "take", "unlock", "test", "ended"}
         /\ wpc[w] = "take" => num[w] = job /\ job \in MIN .. MAX
         /\ wpc[w] \in {"unlock", "test"} => num[w] \in MIN .. MAX /\ num[w] \in Taken
    /\ \A v, w \in CrewOf : v # w /\ wpc[v] \in {"unlock", "test"} /\ wpc[w] \in {"unlock", "test"} => num[v] # num[w]
    /\ Good => \A w \in CrewOf : wpc[w] = "ended" => Over

BossInv ==
  /\ boss \in {"lock", "hand", "wait"} => created = NUM
  /\ boss = "create" => \A w \in CrewOf : w >= created => wpc[w] = "none"
  /\ boss = "exit" /\ created = NUM => \A w \in CrewOf : wpc[w] = "ended"

PrimeInv == PrimeTypeOK /\ Printing /\ Allotted /\ Locked /\ JobInv /\ Sharing /\ BossInv
-----------------------------------------------------------------------------
LEMMA PrimeBasics ==
  ASSUME PrimeTypeOK
  PROVE  /\ MIN \in Nat \ {0} /\ MAX \in Nat /\ MIN <= MAX
         /\ pprog \in PrimePrograms /\ pprog.allots \in {"own", "remainder", "counter", "handed"}
         /\ pprog.upto \in {"less", "equal"}
         /\ NUM \in Nat \ {0} /\ CrewOf = 0 .. NUM - 1
         /\ \A n \in MIN .. MAX : OwnerOf[n] \in CrewOf
<1>1. MIN \in Nat \ {0} /\ MAX \in Nat /\ MIN <= MAX /\ Crew \in Nat \ {0}
  BY PrimeAssumption
<1>2. pprog \in PrimePrograms
  BY Zenon DEF PrimeTypeOK
<1>3. pprog \in {fork_each, thread_each, prime_con, prime_sem, prime_ptd, prime_mutex}
  BY <1>2, PrimeAssumption, Zenon
<1>4. pprog.allots \in {"own", "remainder", "counter", "handed"} /\ pprog.upto \in {"less", "equal"}
  BY <1>3 DEF fork_each, thread_each, prime_con, prime_sem, prime_ptd, prime_mutex
<1>5. NUM \in Nat \ {0} /\ CrewOf = 0 .. NUM - 1 /\ (pprog.allots = "own" => NUM = MAX - MIN + 1)
  BY <1>1 DEF NUM, CrewOf
<1>6. ASSUME NEW n \in MIN .. MAX PROVE OwnerOf[n] \in CrewOf
  <2>1. CASE pprog.allots = "own"
    BY <1>1, <1>5, <2>1 DEF OwnerOf
  <2>2. CASE pprog.allots # "own"
    <3>1. n % NUM \in 0 .. NUM - 1
      BY <1>1, <1>5
    <3> QED
      BY <1>5, <2>2, <3>1 DEF OwnerOf
  <2> QED
    BY <2>1, <2>2
<1> QED
  BY <1>1, <1>2, <1>4, <1>5, <1>6

LEMMA PrimeTyped ==
  ASSUME PrimeTypeOK
  PROVE  /\ created \in 0 .. NUM /\ next \in MIN .. MAX + 2 /\ job \in -1 .. MAX + 1
         /\ owner \in CrewOf \cup {Free, MainThread}
         /\ boss \in {"create", "lock", "hand", "wait", "exit"}
         /\ wpc \in [CrewOf -> WorkerLabels] /\ num \in [CrewOf -> 0 .. MAX]
         /\ printed \in [MIN .. MAX -> Nat]
  BY Zenon DEF PrimeTypeOK, WorkerLabels

(* The program does not change while it runs. *)
LEMMA PrimeFixed ==
  ASSUME pprog' = pprog
  PROVE  /\ NUM' = NUM /\ CrewOf' = CrewOf /\ (Shares' <=> Shares)
         /\ OwnerOf' = OwnerOf /\ \A n : (is_prime(n)' <=> is_prime(n))
  BY DEF NUM, CrewOf, Shares, OwnerOf, is_prime

LEMMA PrimeTypesAgain ==
  ASSUME PrimeTypeOK, pprog' = pprog, lost' \in BOOLEAN,
         created' \in 0 .. NUM, next' \in MIN .. MAX + 2, job' \in -1 .. MAX + 1,
         owner' \in CrewOf \cup {Free, MainThread}, boss' \in {"create", "lock", "hand", "wait", "exit"},
         wpc' \in [CrewOf -> WorkerLabels], num' \in [CrewOf -> 0 .. MAX], printed' \in [MIN .. MAX -> Nat]
  PROVE  PrimeTypeOK'
<1>1. NUM' = NUM /\ CrewOf' = CrewOf /\ Free' = Free /\ MainThread' = MainThread
  BY PrimeFixed DEF Free, MainThread
<1> QED
  BY <1>1, Zenon DEF PrimeTypeOK, WorkerLabels

(* What a step does that prints nothing. *)
LEMMA PrintingFrame ==
  ASSUME PrimeInv, pprog' = pprog, printed' = printed, Good' => Good,
         \A n \in MIN .. MAX : Done(n) => Done(n)',
         Good' => \A n \in MIN .. MAX : Done(n)' => Done(n)
  PROVE  Printing'
<1>1. \A n : is_prime(n)' <=> is_prime(n)
  BY PrimeFixed
<1>2. Printing
  BY DEF PrimeInv
<1> QED
  BY <1>1, <1>2, Zenon DEF Printing

LEMMA DoneStays ==
  ASSUME pprog' = pprog, wpc' = wpc, num' = num, NEW n, Taken' = Taken
  PROVE  Done(n)' <=> Done(n)
<1>1. CrewOf' = CrewOf /\ (Shares' <=> Shares) /\ OwnerOf' = OwnerOf
  BY PrimeFixed
<1>2. \A w : Carries(w, n)' <=> Carries(w, n)
  BY DEF Carries
<1> QED
  BY <1>1, <1>2, Zenon DEF Done

LEMMA SameWorkers ==
  ASSUME PrimeInv, pprog' = pprog, wpc' = wpc, num' = num, printed' = printed, Good' => Good,
         Taken' = Taken,
         \A w \in CrewOf : wpc[w] = "take" => job' = job,
         Good' /\ Over => Over'
  PROVE  Printing' /\ Allotted' /\ Sharing'
<1>1. /\ CrewOf' = CrewOf /\ (Shares' <=> Shares)
      /\ OwnerOf' = OwnerOf
  BY PrimeFixed
<1>2. \A n \in MIN .. MAX : Done(n)' <=> Done(n)
  BY DoneStays
<1>3. Printing'
  BY <1>2, PrintingFrame, Zenon
<1>4. Allotted'
  BY <1>1, Zenon DEF PrimeInv, Allotted
<1>5. Sharing'
  <2>1. Sharing
    BY DEF PrimeInv
  <2>2. \A w \in CrewOf : wpc[w] \in {"unlock", "test"} /\ Shares => num[w] \in Taken' /\ num[w] \in MIN .. MAX
    BY <2>1, Zenon DEF Sharing
  <2>3. \A w \in CrewOf : wpc[w] = "take" /\ Shares => num[w] = job' /\ job' \in MIN .. MAX
    BY <2>1, Zenon DEF Sharing
  <2>4. Shares /\ Good' => \A w \in CrewOf : wpc[w] = "ended" => Over'
    BY <2>1, Zenon DEF Sharing
  <2> QED
    BY <1>1, <2>1, <2>2, <2>3, <2>4, Zenon DEF Sharing
<1> QED
  BY <1>3, <1>4, <1>5

LEMMA MainLocks == ASSUME PrimeInv, LockMain PROVE PrimeInv'
<1>1. /\ boss = "lock" /\ owner = Free /\ boss' = "hand" /\ owner' = MainThread
      /\ UNCHANGED <<pprog, created, next, job, wpc, num, printed, lost>>
  BY DEF LockMain
<1>2. PrimeTypeOK /\ CrewOf' = CrewOf /\ NUM' = NUM /\ NUM \in Nat \ {0} /\ CrewOf = 0 .. NUM - 1
  BY <1>1, PrimeFixed, PrimeBasics DEF PrimeInv
<1>3. /\ created \in 0 .. NUM /\ next \in MIN .. MAX + 2 /\ job \in -1 .. MAX + 1
      /\ wpc \in [CrewOf -> WorkerLabels] /\ num \in [CrewOf -> 0 .. MAX] /\ printed \in [MIN .. MAX -> Nat]
  BY <1>2, PrimeTyped
<1>4. PrimeTypeOK'
  <2>1. lost' \in BOOLEAN
    BY <1>1, <1>2, Zenon DEF PrimeTypeOK
  <2> QED
    BY <1>1, <1>2, <1>3, <2>1, PrimeTypesAgain
<1>5. Printing' /\ Allotted' /\ Sharing'
  <2>1. Good' => Good
    BY <1>1, Zenon DEF Good
  <2>2. Taken' = Taken /\ (Over => Over')
    BY <1>1 DEF Taken, Over
  <2> QED
    BY <1>1, <2>1, <2>2, SameWorkers, Zenon
<1>6. Locked'
  <2>1. Free \notin CrewOf
    BY <1>2 DEF Free
  <2>2. \A w \in CrewOf : wpc[w] \in {"look", "take", "unlock"} => owner = w
    BY DEF PrimeInv, Locked
  <2>3. MainThread' = MainThread
    BY DEF MainThread
  <2> QED
    BY <1>1, <1>2, <2>1, <2>2, <2>3 DEF Locked
<1>7. JobInv' /\ BossInv'
  <2>1. JobInv /\ BossInv
    BY DEF PrimeInv
  <2> QED
    BY <1>1, <1>2, <2>1 DEF JobInv, BossInv
<1> QED
  BY <1>4, <1>5, <1>6, <1>7 DEF PrimeInv

LEMMA MainHands == ASSUME PrimeInv, HandOut PROVE PrimeInv'
<1>1. /\ boss = "hand" /\ owner' = Free
      /\ \/ job > 0 /\ boss' = "lock" /\ UNCHANGED <<job, next>>
         \/ ~(job > 0) /\ next <= MAX /\ job' = next /\ next' = next + 1 /\ boss' = "lock"
         \/ ~(job > 0) /\ ~(next <= MAX) /\ job' = -1 /\ next' = next + 1 /\ boss' = "wait"
      /\ UNCHANGED <<pprog, created, wpc, num, printed, lost>>
  BY DEF HandOut
<1>2. /\ PrimeTypeOK /\ CrewOf' = CrewOf /\ NUM' = NUM /\ NUM \in Nat \ {0} /\ CrewOf = 0 .. NUM - 1
      /\ MIN \in Nat \ {0} /\ MAX \in Nat /\ MIN <= MAX
  BY <1>1, PrimeFixed, PrimeBasics DEF PrimeInv
<1>3. /\ created \in 0 .. NUM /\ next \in MIN .. MAX + 2 /\ job \in -1 .. MAX + 1
      /\ wpc \in [CrewOf -> WorkerLabels] /\ num \in [CrewOf -> 0 .. MAX] /\ printed \in [MIN .. MAX -> Nat]
  BY <1>2, PrimeTyped
<1>4. JobInv /\ BossInv /\ Locked
  BY DEF PrimeInv
<1>5. pprog.allots = "handed" /\ next \in MIN .. MAX + 1 /\ job # -1 /\ owner = MainThread
  BY <1>1, <1>2, <1>3, <1>4 DEF JobInv, Locked
<1>6. /\ next' \in MIN .. MAX + 2 /\ job' \in -1 .. MAX + 1
      /\ boss' \in {"lock", "wait"}
  BY <1>1, <1>2, <1>3, <1>5
<1>7. PrimeTypeOK'
  <2>1. lost' \in BOOLEAN
    BY <1>1, <1>2, Zenon DEF PrimeTypeOK
  <2> QED
    BY <1>1, <1>2, <1>3, <1>6, <2>1, PrimeTypesAgain
<1>8. \A w \in CrewOf : wpc[w] \notin {"look", "take", "unlock"}
  <2>1. MainThread \notin CrewOf
    BY <1>2 DEF MainThread
  <2> QED
    BY <1>4, <1>5, <2>1 DEF Locked
<1>9. Printing' /\ Allotted' /\ Sharing'
  <2>1. Good' => Good
    BY <1>1, Zenon DEF Good
  <2>2. Taken' = Taken
    BY <1>1, <1>2, <1>3, <1>5 DEF Taken
  <2>3. ~Over
    BY <1>5 DEF Over
  <2> QED
    BY <1>1, <1>8, <2>1, <2>2, <2>3, SameWorkers, Zenon
<1>10. Locked' /\ BossInv'
  BY <1>1, <1>2, <1>4, <1>6, <1>8 DEF Locked, BossInv
<1>11. JobInv'
  <2>1. job' <= 0 \/ (job' = next' - 1 /\ job' \in MIN .. MAX)
    BY <1>1, <1>2, <1>3, <1>4, <1>5 DEF JobInv
  <2>0. MIN \in Nat \ {0} /\ MAX \in Nat /\ next \in MIN .. MAX + 1 /\ job \in -1 .. MAX + 1
    BY <1>2, <1>3, <1>5
  <2>2. job' = -1 => next' = MAX + 2
    <3>1. CASE job > 0 /\ job' = job
      BY <2>0, <3>1
    <3>2. CASE next <= MAX /\ job' = next
      BY <2>0, <3>2
    <3>3. CASE ~(next <= MAX) /\ next' = next + 1
      BY <2>0, <3>3
    <3> QED
      BY <1>1, <3>1, <3>2, <3>3
  <2>3. boss' \in {"create", "lock", "hand"} => next' <= MAX + 1
    BY <1>1, <1>2, <1>3, <1>5
  <2> QED
    BY <1>1, <1>5, <2>1, <2>2, <2>3 DEF JobInv
<1> QED
  BY <1>7, <1>9, <1>10, <1>11 DEF PrimeInv

LEMMA MainWaits ==
  ASSUME PrimeInv, \/ WaitAll
                   \/ Create /\ ~(created < NUM)
  PROVE  PrimeInv'
<1>1. /\ UNCHANGED <<pprog, created, next, job, owner, wpc, num, printed, lost>>
      /\ \/ boss = "wait" /\ boss' = "exit" /\ \A w \in CrewOf : wpc[w] = "ended"
         \/ boss = "create" /\ ~(created < NUM) /\ boss' = IF pprog.allots = "handed" THEN "lock" ELSE "wait"
  BY DEF WaitAll, Create
<1>2. /\ PrimeTypeOK /\ CrewOf' = CrewOf /\ NUM' = NUM /\ NUM \in Nat \ {0} /\ CrewOf = 0 .. NUM - 1
      /\ MIN \in Nat \ {0} /\ MAX \in Nat /\ MIN <= MAX
  BY <1>1, PrimeFixed, PrimeBasics DEF PrimeInv
<1>3. /\ created \in 0 .. NUM /\ next \in MIN .. MAX + 2 /\ job \in -1 .. MAX + 1
      /\ owner \in CrewOf \cup {Free, MainThread}
      /\ wpc \in [CrewOf -> WorkerLabels] /\ num \in [CrewOf -> 0 .. MAX] /\ printed \in [MIN .. MAX -> Nat]
  BY <1>2, PrimeTyped
<1>4. JobInv /\ BossInv /\ Locked
  BY DEF PrimeInv
<1>5. created = NUM /\ boss # "exit" /\ boss # "hand" /\ boss' # "hand"
  BY <1>1, <1>2, <1>3, <1>4 DEF BossInv
<1>6. PrimeTypeOK'
  <2>1. lost' \in BOOLEAN
    BY <1>1, <1>2, Zenon DEF PrimeTypeOK
  <2> QED
    BY <1>1, <1>2, <1>3, <2>1, PrimeTypesAgain
<1>7. Printing' /\ Allotted' /\ Sharing'
  <2>1. Good' => Good
    BY <1>1, <1>5, Zenon DEF Good
  <2>2. Taken' = Taken /\ (Over => Over')
    BY <1>1 DEF Taken, Over
  <2> QED
    BY <1>1, <2>1, <2>2, SameWorkers, Zenon
<1>8. Locked' /\ BossInv'
  BY <1>1, <1>2, <1>4, <1>5 DEF Locked, BossInv
<1>9. JobInv'
  BY <1>1, <1>4 DEF JobInv
<1> QED
  BY <1>6, <1>7, <1>8, <1>9 DEF PrimeInv
-----------------------------------------------------------------------------
LEMMA BossStays ==
  ASSUME PrimeInv, NEW w \in CrewOf, wpc[w] \notin {"none", "ended"}, UNCHANGED <<pprog, boss, created>>,
         \A v \in CrewOf : v # w => wpc'[v] = wpc[v]
  PROVE  BossInv'
<1>1. BossInv /\ CrewOf' = CrewOf /\ NUM' = NUM
  BY PrimeFixed DEF PrimeInv
<1> QED
  BY <1>1 DEF BossInv

LEMMA WorkerMoves ==
  ASSUME PrimeInv, NEW w \in CrewOf, NEW to \in WorkerLabels, wpc' = [wpc EXCEPT ![w] = to]
  PROVE  /\ wpc' \in [CrewOf -> WorkerLabels] /\ wpc'[w] = to
         /\ \A v \in CrewOf : v # w => wpc'[v] = wpc[v]
<1>1. wpc \in [CrewOf -> WorkerLabels]
  BY PrimeTyped DEF PrimeInv
<1> QED
  BY <1>1

(* A worker of the sharing programs goes on, with the number it carries.   *)
LEMMA SharedWorker ==
  ASSUME PrimeInv, Shares, NEW w \in CrewOf, UNCHANGED <<pprog, boss, created, next, job, printed, lost>>,
         \A v \in CrewOf : v # w => wpc'[v] = wpc[v] /\ num'[v] = num[v],
         \/ /\ wpc[w] \in {"lock", "look"} /\ wpc'[w] \in {"lock", "look", "take", "ended"}
            /\ wpc'[w] = "take" => num'[w] = job /\ job \in MIN .. MAX
            /\ wpc'[w] = "ended" => Over
         \/ wpc[w] = "unlock" /\ wpc'[w] = "test" /\ num'[w] = num[w]
  PROVE  Printing' /\ Allotted' /\ Sharing'
<1>0. CrewOf' = CrewOf /\ NUM' = NUM /\ Shares'
  BY PrimeFixed
<1>1. Taken' = Taken /\ (Over' <=> Over)
  BY DEF Taken, Over
<1>2. Good' <=> Good
  BY <1>0, Zenon DEF Good
<1>3. \A v \in CrewOf, n \in MIN .. MAX : Carries(v, n)' <=> Carries(v, n)
  BY DEF Carries
<1>4. \A n \in MIN .. MAX : Done(n)' <=> Done(n)
  BY <1>0, <1>1, <1>3, Zenon DEF Done
<1>5. Printing'
  BY <1>2, <1>4, PrintingFrame, Zenon
<1>6. Allotted'
  BY <1>0 DEF Allotted
<1>7. Sharing'
  <2>1. Sharing
    BY DEF PrimeInv
  <2>2. \A v \in CrewOf :
          /\ wpc'[v] \in {"none", "lock", "look", "take", "unlock", "test", "ended"}
          /\ wpc'[v] = "take" => num'[v] = job /\ job \in MIN .. MAX
          /\ wpc'[v] \in {"unlock", "test"} => num'[v] = num[v] /\ wpc[v] \in {"unlock", "test"}
          /\ wpc'[v] = "ended" => wpc[v] = "ended" \/ Over
    BY <2>1 DEF Sharing
  <2> QED
    BY <1>0, <1>1, <1>2, <2>1, <2>2 DEF Sharing
<1> QED
  BY <1>5, <1>6, <1>7

LEMMA WorkerLocks == ASSUME PrimeInv, NEW w \in CrewOf, LockShared(w) PROVE PrimeInv'
<1>1. /\ wpc[w] = "lock" /\ wpc' = [wpc EXCEPT ![w] = "look"] /\ owner = Free /\ owner' = w
      /\ UNCHANGED <<pprog, boss, created, next, job, num, printed, lost>>
  BY DEF LockShared, WorkerGoes
<1>2. /\ PrimeTypeOK /\ CrewOf' = CrewOf /\ NUM' = NUM /\ NUM \in Nat \ {0} /\ CrewOf = 0 .. NUM - 1
  BY <1>1, PrimeFixed, PrimeBasics DEF PrimeInv
<1>3. /\ wpc' \in [CrewOf -> WorkerLabels] /\ wpc'[w] = "look"
      /\ \A v \in CrewOf : v # w => wpc'[v] = wpc[v]
  BY <1>1, WorkerMoves DEF WorkerLabels
<1>4. PrimeTypeOK'
  <2>1. lost' \in BOOLEAN
    BY <1>1, <1>2, Zenon DEF PrimeTypeOK
  <2> QED
    BY <1>1, <1>2, <1>3, <2>1, PrimeTyped, PrimeTypesAgain
<1>5. Shares
  BY <1>1 DEF PrimeInv, Allotted
<1>6. Printing' /\ Allotted' /\ Sharing'
  BY <1>1, <1>3, <1>5, SharedWorker
<1>7. Locked'
  <2>1. Free \notin CrewOf /\ Free # MainThread
    BY <1>2 DEF Free, MainThread
  <2>2. Locked
    BY DEF PrimeInv
  <2> QED
    BY <1>1, <1>2, <1>3, <2>1, <2>2 DEF Locked
<1>8. BossInv'
  BY <1>1, <1>3, BossStays
<1>9. JobInv'
  BY <1>1 DEF PrimeInv, JobInv
<1> QED
  BY <1>4, <1>6, <1>7, <1>8, <1>9 DEF PrimeInv

LEMMA WorkerLooks == ASSUME PrimeInv, NEW w \in CrewOf, Look(w) PROVE PrimeInv'
<1>1. /\ wpc[w] = "look" /\ UNCHANGED <<pprog, boss, created, next, job, printed, lost>>
      /\ \/ Over /\ wpc' = [wpc EXCEPT ![w] = "ended"] /\ owner' = Free /\ num' = num
         \/ wpc' = [wpc EXCEPT ![w] = "lock"] /\ owner' = Free /\ num' = num
         \/ ~Over /\ job > 0 /\ wpc' = [wpc EXCEPT ![w] = "take"] /\ num' = [num EXCEPT ![w] = job] /\ owner' = owner
  BY DEF Look, WorkerGoes
<1>2. /\ PrimeTypeOK /\ CrewOf' = CrewOf /\ NUM' = NUM /\ NUM \in Nat \ {0} /\ CrewOf = 0 .. NUM - 1
      /\ pprog.allots \in {"own", "remainder", "counter", "handed"} /\ MIN \in Nat \ {0} /\ MAX \in Nat
  BY <1>1, PrimeFixed, PrimeBasics DEF PrimeInv
<1>3. owner = w /\ Shares
  BY <1>1 DEF PrimeInv, Allotted, Locked
<1>4. ~Over /\ job > 0 => job \in MIN .. MAX
  <2>1. /\ pprog.allots = "counter" => job \in MIN .. MAX + 1
        /\ pprog.allots = "handed" => job <= 0 \/ job \in MIN .. MAX
    BY DEF PrimeInv, JobInv
  <2>2. pprog.allots = "counter" \/ pprog.allots = "handed"
    BY <1>3 DEF Shares
  <2>3. job \in -1 .. MAX + 1 /\ MIN \in Nat /\ MAX \in Nat
    BY <1>2, PrimeTyped
  <2>4. CASE pprog.allots = "counter"
    BY <2>1, <2>3, <2>4 DEF Over
  <2>5. CASE pprog.allots = "handed"
    BY <2>1, <2>3, <2>5
  <2> QED
    BY <2>2, <2>4, <2>5
<1>5. num \in [CrewOf -> 0 .. MAX] /\ num' \in [CrewOf -> 0 .. MAX] /\ \A v \in CrewOf : v # w => num'[v] = num[v]
  <2>1. num \in [CrewOf -> 0 .. MAX]
    BY <1>2, PrimeTyped
  <2>2. CASE num' = num
    BY <2>1, <2>2
  <2>3. CASE ~Over /\ job > 0 /\ num' = [num EXCEPT ![w] = job]
    <3>1. job \in 0 .. MAX
      BY <1>2, <1>4, <2>3
    <3> QED
      BY <2>1, <2>3, <3>1
  <2> QED
    BY <1>1, <2>1, <2>2, <2>3
<1>6. /\ wpc' \in [CrewOf -> WorkerLabels] /\ wpc'[w] \in {"lock", "take", "ended"}
      /\ \A v \in CrewOf : v # w => wpc'[v] = wpc[v]
  <2>1. PICK to \in {"lock", "take", "ended"} : wpc' = [wpc EXCEPT ![w] = to]
    BY <1>1, Zenon
  <2>2. to \in WorkerLabels
    BY DEF WorkerLabels
  <2> QED
    BY <2>1, <2>2, WorkerMoves
<1>7. wpc \in [CrewOf -> WorkerLabels]
  BY <1>2, PrimeTyped
<1>8. /\ wpc'[w] = "ended" => Over /\ owner' = Free
      /\ wpc'[w] = "lock" => owner' = Free
      /\ wpc'[w] = "take" => num'[w] = job /\ job \in MIN .. MAX /\ owner' = w
  BY <1>1, <1>3, <1>4, <1>5, <1>7
<1>9. PrimeTypeOK'
  <2>1. lost' \in BOOLEAN
    BY <1>1, <1>2, Zenon DEF PrimeTypeOK
  <2>2. owner' \in CrewOf \cup {Free, MainThread}
    BY <1>3, <1>6, <1>8
  <2> QED
    BY <1>1, <1>2, <1>5, <1>6, <2>1, <2>2, PrimeTyped, PrimeTypesAgain
<1>10. Printing' /\ Allotted' /\ Sharing'
  BY <1>1, <1>3, <1>5, <1>6, <1>8, SharedWorker
<1>11. Locked'
  <2>1. MainThread \notin CrewOf /\ MainThread' = MainThread
    BY <1>2 DEF MainThread
  <2>2. Locked
    BY DEF PrimeInv
  <2> QED
    BY <1>1, <1>2, <1>3, <1>6, <1>8, <2>1, <2>2 DEF Locked
<1>12. BossInv'
  BY <1>1, <1>6, BossStays
<1>13. JobInv'
  BY <1>1 DEF PrimeInv, JobInv
<1> QED
  BY <1>9, <1>10, <1>11, <1>12, <1>13 DEF PrimeInv

LEMMA WorkerUnlocks == ASSUME PrimeInv, NEW w \in CrewOf, UnlockShared(w) PROVE PrimeInv'
<1>1. /\ wpc[w] = "unlock" /\ wpc' = [wpc EXCEPT ![w] = "test"] /\ owner' = Free
      /\ UNCHANGED <<pprog, boss, created, next, job, num, printed, lost>>
  BY DEF UnlockShared, WorkerGoes
<1>2. /\ PrimeTypeOK /\ CrewOf' = CrewOf /\ NUM' = NUM /\ NUM \in Nat \ {0} /\ CrewOf = 0 .. NUM - 1
  BY <1>1, PrimeFixed, PrimeBasics DEF PrimeInv
<1>3. /\ wpc' \in [CrewOf -> WorkerLabels] /\ wpc'[w] = "test"
      /\ \A v \in CrewOf : v # w => wpc'[v] = wpc[v]
  BY <1>1, WorkerMoves DEF WorkerLabels
<1>4. PrimeTypeOK'
  <2>1. lost' \in BOOLEAN
    BY <1>1, <1>2, Zenon DEF PrimeTypeOK
  <2> QED
    BY <1>1, <1>2, <1>3, <2>1, PrimeTyped, PrimeTypesAgain
<1>5. Shares /\ owner = w
  BY <1>1 DEF PrimeInv, Allotted, Locked
<1>6. Printing' /\ Allotted' /\ Sharing'
  BY <1>1, <1>3, <1>5, SharedWorker
<1>7. Locked'
  <2>1. MainThread \notin CrewOf
    BY <1>2 DEF MainThread
  <2>2. Locked
    BY DEF PrimeInv
  <2> QED
    BY <1>1, <1>2, <1>3, <1>5, <2>1, <2>2 DEF Locked
<1>8. BossInv'
  BY <1>1, <1>3, BossStays
<1>9. JobInv'
  BY <1>1 DEF PrimeInv, JobInv
<1> QED
  BY <1>4, <1>6, <1>7, <1>8, <1>9 DEF PrimeInv

(* The next number is taken: it is carried from now on, and not done.      *)
LEMMA WorkerTakes == ASSUME PrimeInv, NEW w \in CrewOf, TakeShared(w) PROVE PrimeInv'
<1>1. /\ wpc[w] = "take" /\ wpc' = [wpc EXCEPT ![w] = "unlock"]
      /\ job' = IF pprog.allots = "counter" THEN job + 1 ELSE 0
      /\ UNCHANGED <<pprog, boss, created, next, owner, num, printed, lost>>
  BY DEF TakeShared, WorkerGoes
<1>2. /\ PrimeTypeOK /\ CrewOf' = CrewOf /\ NUM' = NUM /\ NUM \in Nat \ {0} /\ CrewOf = 0 .. NUM - 1
      /\ MIN \in Nat \ {0} /\ MAX \in Nat
  BY <1>1, PrimeFixed, PrimeBasics DEF PrimeInv
<1>3. /\ wpc' \in [CrewOf -> WorkerLabels] /\ wpc'[w] = "unlock"
      /\ \A v \in CrewOf : v # w => wpc'[v] = wpc[v]
  BY <1>1, WorkerMoves DEF WorkerLabels
<1>4. Sharing /\ Shares /\ owner = w /\ num[w] = job /\ job \in MIN .. MAX
  <2>1. Sharing /\ Shares /\ owner = w
    BY <1>1 DEF PrimeInv, Allotted, Locked
  <2> QED
    BY <1>1, <2>1 DEF Sharing
<1>5. Shares'
  BY <1>1, <1>4, PrimeFixed
<1>6. pprog.allots = "counter" \/ (pprog.allots = "handed" /\ job = next - 1)
  <2>1. JobInv
    BY DEF PrimeInv
  <2>2. pprog.allots = "counter" \/ pprog.allots = "handed"
    BY <1>4 DEF Shares
  <2>3. ~(job <= 0)
    BY <1>2, <1>4
  <2> QED
    BY <2>1, <2>2, <2>3 DEF JobInv
<1>7. next \in MIN .. MAX + 2
  BY <1>2, PrimeTyped
<1>8. job \notin Taken /\ Taken' = Taken \cup {job}
  <2>1. job \notin Taken
    BY <1>2, <1>4, <1>6 DEF Taken
  <2>2. CASE pprog.allots = "counter"
    BY <1>1, <1>2, <1>4, <2>2 DEF Taken
  <2>3. CASE pprog.allots = "handed" /\ job = next - 1
    BY <1>1, <1>2, <1>4, <1>7, <2>3 DEF Taken
  <2> QED
    BY <1>6, <2>1, <2>2, <2>3
<1>9. PrimeTypeOK'
  <2>1. lost' \in BOOLEAN
    BY <1>1, <1>2, Zenon DEF PrimeTypeOK
  <2>2. job' \in -1 .. MAX + 1
    BY <1>1, <1>2, <1>4
  <2> QED
    BY <1>1, <1>2, <1>3, <2>1, <2>2, PrimeTyped, PrimeTypesAgain
<1>10. Good' <=> Good
  BY <1>1, <1>2, Zenon DEF Good
<1>11. Printing'
  <2>1. \A v \in CrewOf : \A n : v # w => (Carries(v, n)' <=> Carries(v, n))
    BY <1>1, <1>3 DEF Carries
  <2>2. \A n : ~Carries(w, n) /\ (Carries(w, n)' <=> n = job)
    BY <1>1, <1>3, <1>4 DEF Carries
  <2>3. ASSUME NEW n \in MIN .. MAX PROVE Done(n)' <=> Done(n)
    <3>1. CASE n = job
      BY <1>4, <1>5, <1>8, <2>2, <3>1, <1>2, Zenon DEF Done
    <3>2. CASE n # job
      <4>1. n \in Taken' <=> n \in Taken
        BY <1>8, <3>2
      <4>2. \A v \in CrewOf : Carries(v, n)' <=> Carries(v, n)
        BY <2>1, <2>2, <3>2, Zenon
      <4> QED
        BY <1>2, <1>4, <1>5, <4>1, <4>2, Zenon DEF Done
    <3> QED
      BY <3>1, <3>2
  <2> QED
    BY <1>1, <1>10, <2>3, PrintingFrame, Zenon
<1>12. Allotted'
  BY <1>5 DEF Allotted
<1>13. Sharing'
  <2>1. \A v \in CrewOf :
          /\ wpc'[v] \in {"none", "lock", "look", "take", "unlock", "test", "ended"}
          /\ wpc'[v] = "take" => FALSE
    <3>1. \A v \in CrewOf : wpc[v] = "take" => v = w
      BY <1>4 DEF PrimeInv, Locked
    <3> QED
      BY <1>3, <1>4, <3>1 DEF Sharing
  <2>2. \A v \in CrewOf : wpc'[v] \in {"unlock", "test"} => num[v] \in MIN .. MAX /\ num[v] \in Taken'
    BY <1>3, <1>4, <1>8 DEF Sharing
  <2>3. \A v \in CrewOf : wpc[v] \in {"unlock", "test"} => num[v] # job
    BY <1>4, <1>8 DEF Sharing
  <2>4. \A u, v \in CrewOf : u # v /\ wpc'[u] \in {"unlock", "test"} /\ wpc'[v] \in {"unlock", "test"} => num[u] # num[v]
    <3> SUFFICES ASSUME NEW u \in CrewOf, NEW v \in CrewOf, u # v,
                        wpc'[u] \in {"unlock", "test"}, wpc'[v] \in {"unlock", "test"}
                 PROVE  num[u] # num[v]
      OBVIOUS
    <3>1. CASE u = w
      BY <1>3, <1>4, <2>3, <3>1
    <3>2. CASE v = w
      BY <1>3, <1>4, <2>3, <3>2
    <3>3. CASE u # w /\ v # w
      BY <1>3, <1>4, <3>3 DEF Sharing
    <3> QED
      BY <3>1, <3>2, <3>3
  <2>5. Over => Over'
    <3>1. ~Over
      BY <1>2, <1>4 DEF Over
    <3> QED
      BY <3>1
  <2>6. Good => \A v \in CrewOf : wpc'[v] = "ended" => Over'
    BY <1>3, <1>4, <2>5 DEF Sharing
  <2> QED
    BY <1>1, <1>2, <1>5, <1>10, <2>1, <2>2, <2>4, <2>6 DEF Sharing
<1>14. Locked'
  BY <1>1, <1>2, <1>3, <1>4 DEF PrimeInv, Locked, MainThread
<1>15. BossInv'
  BY <1>1, <1>3, BossStays
<1>16. JobInv'
  <2>1. JobInv
    BY DEF PrimeInv
  <2>2. CASE pprog.allots = "counter"
    BY <1>1, <1>2, <1>4, <2>1, <2>2 DEF JobInv
  <2>3. CASE pprog.allots = "handed"
    BY <1>1, <2>1, <2>3 DEF JobInv
  <2> QED
    BY <1>6, <2>2, <2>3
<1> QED
  BY <1>9, <1>11, <1>12, <1>13, <1>14, <1>15, <1>16 DEF PrimeInv

(* The test: the number was not printed before, and nobody else has it.    *)
LEMMA WorkerPrints == ASSUME PrimeInv, NEW w \in CrewOf, PrintIfPrime(w) PROVE PrimeInv'
<1> PICK m : m = num[w]
  OBVIOUS
<1> DEFINE to == IF Shares THEN "lock" ELSE "choose"
<1>1. /\ wpc[w] = "test" /\ wpc' = [wpc EXCEPT ![w] = to]
      /\ printed' = IF is_prime(m) THEN [printed EXCEPT ![m] = @ + 1] ELSE printed
      /\ UNCHANGED <<pprog, boss, created, next, job, owner, num, lost>>
  BY DEF PrintIfPrime, WorkerGoes
<1>2. /\ PrimeTypeOK /\ CrewOf' = CrewOf /\ NUM' = NUM /\ (Shares' <=> Shares) /\ OwnerOf' = OwnerOf
      /\ MIN \in Nat \ {0} /\ MAX \in Nat /\ \A n \in MIN .. MAX : OwnerOf[n] \in CrewOf
  BY <1>1, PrimeFixed, PrimeBasics DEF PrimeInv
<1>3. /\ wpc' \in [CrewOf -> WorkerLabels] /\ wpc'[w] = to
      /\ \A v \in CrewOf : v # w => wpc'[v] = wpc[v]
  <2>1. to \in WorkerLabels
    BY DEF WorkerLabels
  <2> HIDE DEF to
  <2> QED
    BY <1>1, <2>1, WorkerMoves
<1>4. to \in {"lock", "choose"} /\ (Shares => to = "lock") /\ (~Shares => to = "choose")
  OBVIOUS
<1> HIDE DEF to
<1>5. Sharing /\ Allotted /\ Printing /\ JobInv /\ Locked
  BY DEF PrimeInv
<1>6. m \in MIN .. MAX /\ (~Shares => OwnerOf[m] = w) /\ (Shares => m \in Taken)
  BY <1>1, <1>5 DEF Sharing, Allotted
<1>7. ~Done(m) /\ Done(m)'
  <2>1. CASE Shares
    <3>1. Carries(w, m) /\ \A v \in CrewOf : ~Carries(v, m)'
      BY <1>1, <1>3, <1>4, <1>5, <2>1 DEF Carries, Sharing
    <3>2. Taken' = Taken
      BY <1>1 DEF Taken
    <3> QED
      BY <1>1, <1>2, <1>6, <2>1, <3>1, <3>2 DEF Done
  <2>2. CASE ~Shares
    BY <1>1, <1>2, <1>3, <1>4, <1>6, <2>2 DEF Done
  <2> QED
    BY <2>1, <2>2
<1>8. ASSUME NEW n \in MIN .. MAX, n # m PROVE Done(n)' <=> Done(n)
  <2>1. CASE Shares
    <3>1. \A v \in CrewOf : Carries(v, n)' <=> Carries(v, n)
      BY <1>1, <1>3, <1>4, <1>8, <2>1 DEF Carries
    <3>2. Taken' = Taken
      BY <1>1 DEF Taken
    <3> QED
      BY <1>2, <2>1, <3>1, <3>2, Zenon DEF Done
  <2>2. CASE ~Shares /\ OwnerOf[n] # w
    BY <1>1, <1>2, <1>3, <2>2 DEF Done
  <2>3. CASE ~Shares /\ OwnerOf[n] = w
    BY <1>1, <1>2, <1>3, <1>8, <2>3 DEF Done
  <2> QED
    BY <2>1, <2>2, <2>3
<1>9. Good' <=> Good
  BY <1>1, <1>2, Zenon DEF Good
<1>10. \A n : is_prime(n)' <=> is_prime(n)
  BY <1>1, PrimeFixed
<1>11. printed \in [MIN .. MAX -> Nat]
  BY <1>2, PrimeTyped
<1>12. printed[m] = 0
  BY <1>5, <1>6, <1>7 DEF Printing
<1>13. /\ printed' \in [MIN .. MAX -> Nat]
       /\ is_prime(m) => printed'[m] = 1
       /\ ~is_prime(m) => printed'[m] = 0
       /\ \A n \in MIN .. MAX : n # m => printed'[n] = printed[n]
  <2>1. CASE is_prime(m)
    <3>1. printed' = [printed EXCEPT ![m] = 0 + 1]
      BY <1>1, <1>12, <2>1
    <3> QED
      BY <1>6, <1>11, <2>1, <3>1
  <2>2. CASE ~is_prime(m)
    BY <1>1, <1>11, <1>12, <2>2
  <2> QED
    BY <2>1, <2>2
<1>14. Printing'
  <2>1. \A n \in MIN .. MAX : printed'[n] \in {0, 1} /\ (printed'[n] = 1 => Done(n)' /\ is_prime(n))
    <3> SUFFICES ASSUME NEW n \in MIN .. MAX
                 PROVE  printed'[n] \in {0, 1} /\ (printed'[n] = 1 => Done(n)' /\ is_prime(n))
      OBVIOUS
    <3>1. CASE n = m
      BY <1>7, <1>13, <3>1
    <3>2. CASE n # m
      BY <1>5, <1>8, <1>13, <3>2 DEF Printing
    <3> QED
      BY <3>1, <3>2
  <2>2. Good => \A n \in MIN .. MAX : Done(n)' /\ is_prime(n) => printed'[n] = 1
    BY <1>5, <1>6, <1>7, <1>8, <1>13 DEF Printing
  <2> QED
    BY <1>9, <1>10, <2>1, <2>2, Zenon DEF Printing
<1>15. PrimeTypeOK'
  <2>1. lost' \in BOOLEAN
    BY <1>1, <1>2, Zenon DEF PrimeTypeOK
  <2> QED
    BY <1>1, <1>2, <1>3, <1>13, <2>1, PrimeTyped, PrimeTypesAgain
<1>16. Allotted'
  <2>1. CASE Shares
    BY <1>2, <2>1 DEF Allotted
  <2>2. CASE ~Shares
    <3>1. \A v \in CrewOf : wpc'[v] \in {"none", "choose", "test", "ended"} /\ (wpc'[v] = "test" => wpc[v] = "test")
      BY <1>3, <1>4, <1>5, <2>2 DEF Allotted
    <3>2. \A v \in CrewOf : wpc'[v] = "ended" => wpc[v] = "ended"
      BY <1>3, <1>4
    <3> QED
      BY <1>1, <1>2, <1>5, <1>9, <2>2, <3>1, <3>2 DEF Allotted
  <2> QED
    BY <2>1, <2>2
<1>17. Sharing'
  <2>1. CASE ~Shares
    BY <1>2, <2>1 DEF Sharing
  <2>2. CASE Shares
    <3>1. \A v \in CrewOf :
            /\ wpc'[v] \in {"none", "lock", "look", "take", "unlock", "test", "ended"}
            /\ wpc'[v] \in {"take", "unlock", "test", "ended"} => wpc'[v] = wpc[v]
      BY <1>3, <1>4, <1>5, <2>2 DEF Sharing
    <3>2. Taken' = Taken /\ (Over' <=> Over)
      BY <1>1 DEF Taken, Over
    <3> QED
      BY <1>1, <1>2, <1>5, <1>9, <2>2, <3>1, <3>2 DEF Sharing
  <2> QED
    BY <2>1, <2>2
<1>18. Locked'
  BY <1>1, <1>2, <1>3, <1>4, <1>5 DEF Locked, MainThread
<1>19. BossInv'
  BY <1>1, <1>3, BossStays
<1>20. JobInv'
  BY <1>1, <1>5 DEF JobInv
<1> QED
  BY <1>14, <1>15, <1>16, <1>17, <1>18, <1>19, <1>20 DEF PrimeInv

(* The next number of a worker that has its own: all before are done.      *)
LEMMA WorkerChooses == ASSUME PrimeInv, NEW w \in CrewOf, Choose(w) PROVE PrimeInv'
<1> DEFINE Mine == {n \in MIN .. MAX : n > num[w] /\ IF pprog.allots = "own" THEN n = MIN + w ELSE n % NUM = w}
<1>1. /\ wpc[w] = "choose" /\ UNCHANGED <<pprog, boss, created, next, job, owner, printed, lost>>
      /\ \/ Mine = {} /\ wpc' = [wpc EXCEPT ![w] = "ended"] /\ num' = num
         \/ \E n \in Mine : /\ \A k \in Mine : n <= k
                            /\ wpc' = [wpc EXCEPT ![w] = "test"] /\ num' = [num EXCEPT ![w] = n]
  BY DEF Choose, WorkerGoes
<1>2. /\ PrimeTypeOK /\ CrewOf' = CrewOf /\ NUM' = NUM /\ (Shares' <=> Shares) /\ OwnerOf' = OwnerOf
      /\ MIN \in Nat \ {0} /\ MAX \in Nat /\ \A n \in MIN .. MAX : OwnerOf[n] \in CrewOf
      /\ CrewOf = 0 .. NUM - 1 /\ NUM \in Nat \ {0}
  BY <1>1, PrimeFixed, PrimeBasics DEF PrimeInv
<1>3. Sharing /\ Allotted /\ Printing /\ JobInv /\ Locked
  BY DEF PrimeInv
<1>4. ~Shares
  BY <1>1, <1>3 DEF Sharing
<1>5. num \in [CrewOf -> 0 .. MAX] /\ wpc \in [CrewOf -> WorkerLabels]
  BY <1>2, PrimeTyped
<1>6. \A n \in MIN .. MAX : n \in Mine <=> n > num[w] /\ OwnerOf[n] = w
  BY <1>2 DEF OwnerOf
<1> HIDE DEF Mine
<1>7. Mine \subseteq MIN .. MAX
  BY DEF Mine
<1>8. Good' <=> Good
  BY <1>1, <1>2, Zenon DEF Good
<1>9. PICK to \in {"ended", "test"} :
        /\ wpc' = [wpc EXCEPT ![w] = to]
        /\ to = "ended" => Mine = {} /\ num' = num
        /\ to = "test" => \E n \in Mine : (\A k \in Mine : n <= k) /\ num' = [num EXCEPT ![w] = n]
  BY <1>1, Zenon
<1>10. /\ wpc' \in [CrewOf -> WorkerLabels] /\ wpc'[w] = to
       /\ \A v \in CrewOf : v # w => wpc'[v] = wpc[v]
  <2>1. to \in WorkerLabels
    BY DEF WorkerLabels
  <2> QED
    BY <1>9, <2>1, WorkerMoves
<1>11. /\ num' \in [CrewOf -> 0 .. MAX] /\ \A v \in CrewOf : v # w => num'[v] = num[v]
       /\ to = "ended" => num'[w] = num[w] /\ \A n \in MIN .. MAX : OwnerOf[n] = w => n <= num[w]
       /\ to = "test" => /\ num'[w] \in MIN .. MAX /\ OwnerOf[num'[w]] = w /\ num'[w] > num[w]
                         /\ \A n \in MIN .. MAX : OwnerOf[n] = w /\ n > num[w] => num'[w] <= n
  <2>1. CASE to = "ended"
    <3>1. num[w] \in Int
      BY <1>2, <1>5
    <3> QED
      BY <1>5, <1>6, <1>9, <2>1, <3>1
  <2>2. CASE to = "test"
    <3>1. PICK n \in Mine : (\A k \in Mine : n <= k) /\ num' = [num EXCEPT ![w] = n]
      BY <1>9, <2>2
    <3>2. n \in MIN .. MAX /\ n \in 0 .. MAX /\ n > num[w] /\ OwnerOf[n] = w
      BY <1>2, <1>6, <1>7
    <3>3. num'[w] = n /\ num' \in [CrewOf -> 0 .. MAX] /\ \A v \in CrewOf : v # w => num'[v] = num[v]
      BY <1>5, <3>1, <3>2
    <3>4. \A k \in MIN .. MAX : OwnerOf[k] = w /\ k > num[w] => n <= k
      BY <1>6, <3>1
    <3> QED
      BY <2>2, <3>2, <3>3, <3>4
  <2> QED
    BY <2>1, <2>2
<1>12. PrimeTypeOK'
  <2>1. lost' \in BOOLEAN
    BY <1>1, <1>2, Zenon DEF PrimeTypeOK
  <2> QED
    BY <1>1, <1>2, <1>10, <1>11, <2>1, PrimeTyped, PrimeTypesAgain
<1>13. \A n \in MIN .. MAX : Done(n)' <=> Done(n)
  <2> SUFFICES ASSUME NEW n \in MIN .. MAX PROVE Done(n)' <=> Done(n)
    OBVIOUS
  <2>0. /\ Done(n)' <=> n < num'[OwnerOf[n]] \/ (n = num'[OwnerOf[n]] /\ wpc'[OwnerOf[n]] # "test")
        /\ Done(n) <=> n < num[OwnerOf[n]] \/ (n = num[OwnerOf[n]] /\ wpc[OwnerOf[n]] # "test")
    BY <1>2, <1>4 DEF Done
  <2>1. CASE OwnerOf[n] # w
    BY <1>2, <1>10, <1>11, <2>0, <2>1
  <2>2. CASE OwnerOf[n] = w
    <3>1. num[w] \in Int /\ num'[w] \in Int /\ n \in Int
      BY <1>2, <1>5, <1>11
    <3>2. CASE to = "ended"
      BY <1>1, <1>10, <1>11, <2>0, <2>2, <3>1, <3>2
    <3>3. CASE to = "test"
      BY <1>1, <1>10, <1>11, <2>0, <2>2, <3>1, <3>3
    <3> QED
      BY <3>2, <3>3
  <2> QED
    BY <2>1, <2>2
<1>14. Printing'
  BY <1>1, <1>8, <1>13, PrintingFrame, Zenon
<1>15. Allotted'
  <2>1. \A v \in CrewOf :
          /\ wpc'[v] \in {"none", "choose", "test", "ended"}
          /\ num'[v] = 0 \/ (num'[v] \in MIN .. MAX /\ OwnerOf[num'[v]] = v)
          /\ wpc'[v] = "test" => num'[v] # 0
    <3> SUFFICES ASSUME NEW v \in CrewOf
                 PROVE  /\ wpc'[v] \in {"none", "choose", "test", "ended"}
                        /\ num'[v] = 0 \/ (num'[v] \in MIN .. MAX /\ OwnerOf[num'[v]] = v)
                        /\ wpc'[v] = "test" => num'[v] # 0
      OBVIOUS
    <3>1. CASE v # w
      BY <1>3, <1>4, <1>10, <1>11, <3>1 DEF Allotted
    <3>2. CASE v = w /\ to = "ended"
      BY <1>3, <1>4, <1>10, <1>11, <3>2 DEF Allotted
    <3>3. CASE v = w /\ to = "test"
      BY <1>2, <1>10, <1>11, <3>3
    <3> QED
      BY <3>1, <3>2, <3>3
  <2>2. Good => \A n \in MIN .. MAX : wpc'[OwnerOf[n]] = "ended" => n <= num'[OwnerOf[n]]
    BY <1>2, <1>3, <1>4, <1>10, <1>11 DEF Allotted
  <2> QED
    BY <1>2, <1>8, <2>1, <2>2 DEF Allotted
<1>16. Sharing'
  BY <1>2, <1>4 DEF Sharing
<1>17. Locked'
  BY <1>1, <1>2, <1>3, <1>10 DEF Locked, MainThread
<1>18. BossInv'
  BY <1>1, <1>10, BossStays
<1>19. JobInv'
  BY <1>1, <1>3 DEF JobInv
<1> QED
  BY <1>12, <1>14, <1>15, <1>16, <1>17, <1>18, <1>19 DEF PrimeInv
-----------------------------------------------------------------------------
(* Workers end where they are: nothing more can be said of completeness,   *)
(* but nothing is printed twice.                                           *)
LEMMA WorkersEnd ==
  ASSUME PrimeInv, UNCHANGED <<pprog, next, job, num, printed>>, ~Good',
         \A v \in CrewOf : wpc'[v] = wpc[v] \/ wpc'[v] = "ended"
  PROVE  Printing' /\ Allotted' /\ Sharing'
<1>1. /\ CrewOf' = CrewOf /\ (Shares' <=> Shares) /\ OwnerOf' = OwnerOf
      /\ \A n \in MIN .. MAX : OwnerOf[n] \in CrewOf
  BY PrimeFixed, PrimeBasics DEF PrimeInv
<1>2. Taken' = Taken
  BY DEF Taken
<1>3. ASSUME NEW n \in MIN .. MAX, Done(n) PROVE Done(n)'
  <2>1. CASE Shares
    <3>1. \A v \in CrewOf : Carries(v, n)' => Carries(v, n)
      BY DEF Carries
    <3> QED
      BY <1>1, <1>2, <1>3, <2>1, <3>1, Zenon DEF Done
  <2>2. CASE ~Shares
    BY <1>1, <1>3, <2>2 DEF Done
  <2> QED
    BY <2>1, <2>2
<1>4. Printing'
  BY <1>3, PrintingFrame, Zenon
<1>5. Sharing /\ Allotted
  BY DEF PrimeInv
<1>6. Allotted'
  BY <1>1, <1>5 DEF Allotted
<1>7. Sharing'
  BY <1>1, <1>2, <1>5 DEF Sharing
<1> QED
  BY <1>4, <1>6, <1>7

LEMMA WorkerKilled == ASSUME PrimeInv, NEW w \in CrewOf, KillWorker(w) PROVE PrimeInv'
<1>1. /\ wpc[w] \notin {"none", "ended"} /\ wpc' = [wpc EXCEPT ![w] = "ended"]
      /\ owner' = IF owner = w THEN Free ELSE owner
      /\ lost' = TRUE /\ UNCHANGED <<pprog, boss, created, next, job, num, printed>>
  BY DEF KillWorker
<1>2. /\ PrimeTypeOK /\ CrewOf' = CrewOf /\ CrewOf = 0 .. NUM - 1 /\ NUM \in Nat \ {0}
  BY <1>1, PrimeFixed, PrimeBasics DEF PrimeInv
<1>3. /\ wpc' \in [CrewOf -> WorkerLabels] /\ wpc'[w] = "ended"
      /\ \A v \in CrewOf : v # w => wpc'[v] = wpc[v]
  BY <1>1, WorkerMoves DEF WorkerLabels
<1>4. PrimeTypeOK'
  <2>1. lost' \in BOOLEAN
    BY <1>1, Zenon
  <2>2. owner' \in CrewOf \cup {Free, MainThread}
    BY <1>1, <1>2, PrimeTyped
  <2> QED
    BY <1>1, <1>2, <1>3, <2>1, <2>2, PrimeTyped, PrimeTypesAgain
<1>5. Printing' /\ Allotted' /\ Sharing'
  <2>1. ~Good'
    BY <1>1, Zenon DEF Good
  <2> QED
    BY <1>1, <1>3, <2>1, WorkersEnd
<1>6. Locked'
  <2>1. MainThread \notin CrewOf /\ MainThread' = MainThread
    BY <1>2 DEF MainThread
  <2>2. Locked
    BY DEF PrimeInv
  <2> QED
    BY <1>1, <1>2, <1>3, <2>1, <2>2 DEF Locked
<1>7. BossInv'
  BY <1>1, <1>3, BossStays
<1>8. JobInv'
  BY <1>1 DEF PrimeInv, JobInv
<1> QED
  BY <1>4, <1>5, <1>6, <1>7, <1>8 DEF PrimeInv

LEMMA MainFails == ASSUME PrimeInv, CreateFails PROVE PrimeInv'
<1>1. /\ boss = "create" /\ created < NUM /\ boss' = "exit"
      /\ wpc' = IF pprog.threads THEN [w \in CrewOf |-> "ended"] ELSE wpc
      /\ UNCHANGED <<pprog, created, next, job, owner, num, printed, lost>>
  BY DEF CreateFails
<1>2. /\ PrimeTypeOK /\ CrewOf' = CrewOf /\ NUM' = NUM /\ NUM \in Nat \ {0}
  BY <1>1, PrimeFixed, PrimeBasics DEF PrimeInv
<1>3. wpc' \in [CrewOf -> WorkerLabels] /\ \A v \in CrewOf : wpc'[v] = wpc[v] \/ wpc'[v] = "ended"
  <2>1. wpc \in [CrewOf -> WorkerLabels] /\ "ended" \in WorkerLabels
    BY <1>2, PrimeTyped DEF WorkerLabels
  <2> QED
    BY <1>1, <2>1
<1>4. PrimeTypeOK'
  <2>1. lost' \in BOOLEAN
    BY <1>1, <1>2, Zenon DEF PrimeTypeOK
  <2> QED
    BY <1>1, <1>2, <1>3, <2>1, PrimeTyped, PrimeTypesAgain
<1>5. Printing' /\ Allotted' /\ Sharing'
  <2>1. ~Good'
    BY <1>1, <1>2, Zenon DEF Good
  <2> QED
    BY <1>1, <1>3, <2>1, WorkersEnd
<1>6. Locked'
  BY <1>1, <1>2, <1>3 DEF PrimeInv, Locked
<1>7. BossInv'
  <2>1. created # NUM
    BY <1>1, <1>2
  <2> QED
    BY <1>1, <1>2, <2>1 DEF BossInv
<1>8. JobInv'
  BY <1>1 DEF PrimeInv, JobInv
<1> QED
  BY <1>4, <1>5, <1>6, <1>7, <1>8 DEF PrimeInv

LEMMA MainCreates == ASSUME PrimeInv, Create, created < NUM PROVE PrimeInv'
<1> PICK w : w = created
  OBVIOUS
<1> DEFINE to == IF Shares THEN "lock" ELSE "choose"
<1>1. /\ boss = "create" /\ created' = created + 1 /\ wpc' = [wpc EXCEPT ![w] = to] /\ boss' = boss
      /\ UNCHANGED <<pprog, next, job, owner, num, printed, lost>>
  BY DEF Create
<1>2. /\ PrimeTypeOK /\ CrewOf' = CrewOf /\ NUM' = NUM /\ (Shares' <=> Shares) /\ OwnerOf' = OwnerOf
      /\ MIN \in Nat \ {0} /\ MAX \in Nat /\ \A n \in MIN .. MAX : OwnerOf[n] \in CrewOf
      /\ CrewOf = 0 .. NUM - 1 /\ NUM \in Nat \ {0}
  BY <1>1, PrimeFixed, PrimeBasics DEF PrimeInv
<1>3. created \in 0 .. NUM
  BY <1>2, PrimeTyped
<1>4. w \in CrewOf
  BY <1>2, <1>3
<1>5. BossInv /\ Locked /\ JobInv /\ Allotted /\ Sharing
  BY DEF PrimeInv
<1>6. wpc[w] = "none"
  BY <1>1, <1>3, <1>4, <1>5 DEF BossInv
<1>7. to \in {"lock", "choose"} /\ (Shares => to = "lock") /\ (~Shares => to = "choose")
  OBVIOUS
<1> HIDE DEF to
<1>8. /\ wpc' \in [CrewOf -> WorkerLabels] /\ wpc'[w] = to
      /\ \A v \in CrewOf : v # w => wpc'[v] = wpc[v]
  <2>1. to \in WorkerLabels
    BY <1>7 DEF WorkerLabels
  <2> QED
    BY <1>1, <1>4, <2>1, WorkerMoves
<1>9. PrimeTypeOK'
  <2>1. lost' \in BOOLEAN
    BY <1>1, <1>2, Zenon DEF PrimeTypeOK
  <2>2. created' \in 0 .. NUM
    BY <1>1, <1>2, <1>3
  <2> QED
    BY <1>1, <1>2, <1>8, <2>1, <2>2, PrimeTyped, PrimeTypesAgain
<1>10. Good' => Good
  BY <1>1, Zenon DEF Good
<1>11. \A v \in CrewOf : wpc'[v] \in {"look", "take", "unlock", "test", "ended"}
                          \/ wpc[v] \in {"look", "take", "unlock", "test", "ended"} => wpc'[v] = wpc[v]
  BY <1>6, <1>7, <1>8
<1>12. Taken' = Taken /\ (Over' <=> Over)
  BY <1>1 DEF Taken, Over
<1>13. ASSUME NEW n \in MIN .. MAX PROVE Done(n)' <=> Done(n)
  <2>1. \A v \in CrewOf : Carries(v, n)' <=> Carries(v, n)
    BY <1>1, <1>11 DEF Carries
  <2>2. wpc'[OwnerOf[n]] = "test" <=> wpc[OwnerOf[n]] = "test"
    BY <1>2, <1>11
  <2> QED
    BY <1>1, <1>2, <1>12, <2>1, <2>2 DEF Done
<1>14. Printing'
  BY <1>1, <1>10, <1>13, PrintingFrame, Zenon
<1>15. Allotted'
  <2>1. CASE Shares
    BY <1>2, <2>1 DEF Allotted
  <2>2. CASE ~Shares
    BY <1>1, <1>2, <1>5, <1>7, <1>8, <1>10, <1>11, <2>2 DEF Allotted
  <2> QED
    BY <2>1, <2>2
<1>16. Sharing'
  <2>1. CASE ~Shares
    BY <1>2, <2>1 DEF Sharing
  <2>2. CASE Shares
    <3>1. \A v \in CrewOf : wpc'[v] \in {"none", "lock", "look", "take", "unlock", "test", "ended"}
      BY <1>5, <1>7, <1>8, <2>2 DEF Sharing
    <3> QED
      BY <1>1, <1>2, <1>5, <1>10, <1>11, <1>12, <2>2, <3>1 DEF Sharing
  <2> QED
    BY <2>1, <2>2
<1>17. Locked'
  BY <1>1, <1>2, <1>5, <1>11 DEF Locked, MainThread
<1>18. BossInv'
  BY <1>1, <1>2, <1>3, <1>5, <1>8 DEF BossInv
<1>19. JobInv'
  BY <1>1, <1>5 DEF JobInv
<1> QED
  BY <1>9, <1>14, <1>15, <1>16, <1>17, <1>18, <1>19 DEF PrimeInv
-----------------------------------------------------------------------------
LEMMA PrimeStarts == ASSUME PrimeInit PROVE PrimeInv
<1>1. /\ pprog \in PrimePrograms /\ boss = "create" /\ created = 0 /\ next = MIN
      /\ job = (IF pprog.allots = "counter" THEN MIN ELSE 0) /\ owner = Free
      /\ wpc = [w \in CrewOf |-> "none"] /\ num = [w \in CrewOf |-> 0]
      /\ printed = [n \in MIN .. MAX |-> 0] /\ lost = FALSE
  BY DEF PrimeInit
<1>2. MIN \in Nat \ {0} /\ MAX \in Nat /\ MIN <= MAX /\ NUM \in Nat
  BY PrimeAssumption DEF NUM
<1>3. PrimeTypeOK
  <2>1. created \in 0 .. NUM /\ next \in MIN .. MAX + 2 /\ job \in -1 .. MAX + 1
    BY <1>1, <1>2
  <2>2. /\ wpc \in [CrewOf -> {"none", "choose", "lock", "look", "take", "unlock", "test", "ended"}]
        /\ num \in [CrewOf -> 0 .. MAX] /\ printed \in [MIN .. MAX -> Nat]
    BY <1>1, <1>2
  <2> QED
    BY <1>1, <2>1, <2>2, Zenon DEF PrimeTypeOK
<1>4. \A n \in MIN .. MAX : OwnerOf[n] \in CrewOf
  BY <1>3, PrimeBasics
<1>5. \A n \in MIN .. MAX : ~Done(n)
  <2>1. \A n \in MIN .. MAX : n \notin Taken
    BY <1>1, <1>2 DEF Taken
  <2>2. \A n \in MIN .. MAX : num[OwnerOf[n]] = 0
    BY <1>1, <1>4
  <2> QED
    BY <1>2, <2>1, <2>2 DEF Done
<1>6. Printing
  BY <1>1, <1>5 DEF Printing
<1>7. Allotted /\ Sharing
  BY <1>1, <1>4 DEF Allotted, Sharing
<1>8. Locked /\ BossInv
  BY <1>1 DEF Locked, BossInv
<1>9. JobInv
  BY <1>1, <1>2 DEF JobInv
<1> QED
  BY <1>3, <1>6, <1>7, <1>8, <1>9 DEF PrimeInv

LEMMA PrimeStutters == ASSUME PrimeInv, UNCHANGED primeVars PROVE PrimeInv'
<1>1. UNCHANGED <<pprog, boss, created, next, job, owner, wpc, num, printed, lost>>
  BY DEF primeVars
<1>2. CrewOf' = CrewOf /\ NUM' = NUM /\ PrimeTypeOK /\ MainThread' = MainThread
  BY <1>1, PrimeFixed DEF PrimeInv, MainThread
<1>3. PrimeTypeOK'
  <2>1. lost' \in BOOLEAN
    BY <1>1, <1>2, Zenon DEF PrimeTypeOK
  <2> QED
    BY <1>1, <1>2, <2>1, PrimeTyped, PrimeTypesAgain
<1>4. Printing' /\ Allotted' /\ Sharing'
  <2>1. Good' => Good
    BY <1>1, <1>2, Zenon DEF Good
  <2>2. Taken' = Taken /\ (Over => Over')
    BY <1>1 DEF Taken, Over
  <2> QED
    BY <1>1, <2>1, <2>2, SameWorkers, Zenon
<1>5. Locked' /\ BossInv' /\ JobInv'
  BY <1>1, <1>2, Zenon DEF PrimeInv, Locked, BossInv, JobInv
<1> QED
  BY <1>3, <1>4, <1>5 DEF PrimeInv

LEMMA PrimeStep == ASSUME PrimeInv, [PrimeNext]_primeVars PROVE PrimeInv'
<1>1. CASE UNCHANGED primeVars
  BY <1>1, PrimeStutters
<1>2. CASE Create \/ CreateFails \/ LockMain \/ HandOut \/ WaitAll
  BY <1>2, MainCreates, MainFails, MainLocks, MainHands, MainWaits
<1>3. ASSUME NEW w \in CrewOf,
             \/ Choose(w) \/ LockShared(w) \/ Look(w) \/ TakeShared(w)
             \/ UnlockShared(w) \/ PrintIfPrime(w) \/ KillWorker(w)
      PROVE  PrimeInv'
  BY <1>3, WorkerChooses, WorkerLocks, WorkerLooks, WorkerTakes, WorkerUnlocks, WorkerPrints, WorkerKilled
<1> QED
  BY <1>1, <1>2, <1>3 DEF PrimeNext

(* What the loop of is_prime decides. *)
LEMMA TestIsRight ==
  ASSUME PrimeTypeOK, NEW n \in MIN .. MAX
  PROVE  is_prime(n) <=> IsPrime(n) \/ (pprog.upto = "less" /\ SquareOfPrime(n))
<1>1. n \in Nat /\ pprog.upto \in {"less", "equal"}
  BY PrimeBasics
<1>2. CASE ~(n > 1)
  <2>1. ~is_prime(n) /\ ~IsPrime(n)
    BY <1>2 DEF is_prime, IsPrime
  <2>2. ~SquareOfPrime(n)
    BY <1>1, <1>2 DEF SquareOfPrime
  <2> QED
    BY <2>1, <2>2
<1>3. CASE n > 1 /\ pprog.upto = "less"
  <2>1. is_prime(n) <=> (n \in {2, 3} \/ \A i \in 2 .. n : i < n \div i => n % i # 0)
    BY <1>3 DEF is_prime
  <2> QED
    BY <1>1, <1>3, <2>1, BeforeRoot
<1>4. CASE n > 1 /\ pprog.upto = "equal"
  <2>1. \A i \in 2 .. n : n \div i \in Int
    BY <1>1, Division
  <2>2. is_prime(n) <=> (n \in {2, 3} \/ \A i \in 2 .. n : i <= n \div i => n % i # 0)
    <3>1. \A i \in 2 .. n : (i < n \div i \/ (pprog.upto = "equal" /\ i = n \div i)) <=> i <= n \div i
      <4> SUFFICES ASSUME NEW i \in 2 .. n, NEW q \in Int, q = n \div i
                   PROVE  (i < q \/ i = q) <=> i <= q
        BY <1>4, <2>1
      <4> QED
        BY <1>1
    <3> QED
      BY <1>4, <3>1, Zenon DEF is_prime
  <2>3. n \in {2, 3} => IsPrime(n)
    BY DEF IsPrime
  <2> QED
    BY <1>1, <1>4, <2>2, <2>3, UpToRoot
<1> QED
  BY <1>1, <1>2, <1>3, <1>4

(* When everyone has ended every number is done. *)
LEMMA AllDone ==
  ASSUME PrimeInv, Good, \A w \in CrewOf : wpc[w] = "ended"
  PROVE  \A n \in MIN .. MAX : Done(n)
<1>1. /\ MIN \in Nat \ {0} /\ MAX \in Nat /\ NUM \in Nat \ {0} /\ CrewOf = 0 .. NUM - 1
      /\ \A n \in MIN .. MAX : OwnerOf[n] \in CrewOf
  BY PrimeBasics DEF PrimeInv
<1>2. num \in [CrewOf -> 0 .. MAX] /\ job \in -1 .. MAX + 1
  BY PrimeTyped DEF PrimeInv
<1>3. CASE Shares
  <2>1. 0 \in CrewOf
    BY <1>1
  <2>2. Over
    BY <1>3, <2>1 DEF PrimeInv, Sharing
  <2>3. JobInv
    BY DEF PrimeInv
  <2>4. pprog.allots = "counter" \/ pprog.allots = "handed"
    BY <1>3 DEF Shares
  <2>5. \A n \in MIN .. MAX : n \in Taken
    <3>1. CASE pprog.allots = "counter"
      BY <1>1, <1>2, <2>2, <3>1 DEF Over, Taken
    <3>2. CASE pprog.allots = "handed"
      <4>1. job = -1 /\ next = MAX + 2
        BY <2>2, <2>3, <3>2 DEF Over, JobInv
      <4> QED
        BY <1>1, <3>2, <4>1 DEF Taken
    <3> QED
      BY <2>4, <3>1, <3>2
  <2>6. \A w \in CrewOf : \A n : ~Carries(w, n)
    BY DEF Carries
  <2> QED
    BY <1>3, <2>5, <2>6, Zenon DEF Done
<1>4. CASE ~Shares
  <2>1. \A n \in MIN .. MAX : wpc[OwnerOf[n]] = "ended" /\ n <= num[OwnerOf[n]] /\ num[OwnerOf[n]] \in Int /\ n \in Int
    BY <1>1, <1>2, <1>4 DEF PrimeInv, Allotted
  <2> QED
    BY <1>4, <2>1 DEF Done
<1> QED
  BY <1>3, <1>4

(* However the programs share out the numbers, for any range and crew: no  *)
(* number is printed twice, whoever is killed, and when main has created   *)
(* all its workers and none was killed, exactly the primes are printed (by *)
(* 02few/07prime.c also their squares).                                    *)
THEOREM PrimesComeOutOnce == PrimeSpec => []PrimesPrintedOnce
<1>1. PrimeInv => PrimesPrintedOnce
  <2> SUFFICES ASSUME PrimeInv PROVE PrimesPrintedOnce
    OBVIOUS
  <2>1. PrimeTypeOK /\ Printing /\ BossInv
    BY DEF PrimeInv
  <2>2. \A n \in MIN .. MAX : printed[n] <= 1
    BY <2>1 DEF Printing
  <2>3. ASSUME boss = "exit", created = NUM, ~lost, NEW n \in MIN .. MAX
        PROVE  printed[n] = 1 <=> (IsPrime(n) \/ (pprog.upto = "less" /\ SquareOfPrime(n)))
    <3>1. ~(created < NUM)
      <4>1. NUM \in Nat
        BY <2>1, PrimeBasics
      <4> QED
        BY <2>3, <4>1
    <3>2. lost = FALSE
      BY <2>1, <2>3, Zenon DEF PrimeTypeOK
    <3>3. Good
      BY <3>1, <3>2, Zenon DEF Good
    <3>4. Done(n)
      <4>1. \A w \in CrewOf : wpc[w] = "ended"
        BY <2>1, <2>3, Zenon DEF BossInv
      <4> QED
        BY <3>3, <4>1, AllDone
    <3>5. printed[n] = 1 <=> is_prime(n)
      BY <2>1, <3>3, <3>4, Zenon DEF Printing
    <3> QED
      BY <2>1, <3>5, TestIsRight, Zenon
  <2> QED
    BY <2>1, <2>2, <2>3, Zenon DEF PrimesPrintedOnce
<1> QED
  BY <1>1, PrimeStarts, PrimeStep, PTL DEF PrimeSpec
-----------------------------------------------------------------------------
(* The programs that write one output in order. *)

LEMMA MinOfTwo ==
  ASSUME NEW a \in Int, NEW b \in Int
  PROVE  Min({a, b}) \in Int /\ Min({a, b}) <= a /\ Min({a, b}) <= b
<1> DEFINE m == IF a <= b THEN a ELSE b
<1>1. m \in {a, b} /\ \A y \in {a, b} : m <= y
  OBVIOUS
<1>2. Min({a, b}) \in {a, b} /\ \A y \in {a, b} : Min({a, b}) <= y
  <2> HIDE DEF m
  <2> QED
    BY <1>1 DEF Min
<1> QED
  BY <1>2

LEMMA Monotone ==
  ASSUME NEW r \in Nat, NEW a \in Int, NEW b \in Int, a <= b
  PROVE  a * r <= b * r
  OBVIOUS

(* The parts of the file follow one another and end with it. *)
LEMMA Chunks ==
  ASSUME total_size \in Nat, NEW c \in 0 .. CHILD_COUNT - 1
  PROVE  /\ ChunkStart(c) \in 0 .. total_size /\ ChunkEnd(c) \in 0 .. total_size
         /\ ChunkStart(c) <= ChunkEnd(c)
         /\ ChunkStart(0) = 0
         /\ c < CHILD_COUNT - 1 => ChunkStart(c + 1) = ChunkEnd(c)
         /\ c = CHILD_COUNT - 1 => ChunkEnd(c) = total_size
<1> DEFINE s == chunk_size
<1>0. CHILD_COUNT \in Nat \ {0}
  BY OutputAssumption
<1>1. s \in Nat /\ CHILD_COUNT * s <= total_size
  BY <1>0 DEF chunk_size
<1> HIDE DEF s
<1>2. c * s <= CHILD_COUNT * s /\ (c + 1) * s <= CHILD_COUNT * s /\ c * s <= (c + 1) * s
  BY <1>0, <1>1, Monotone
<1>3. 0 <= c * s /\ 0 * s = 0 /\ c * s \in Int /\ (c + 1) * s \in Int /\ CHILD_COUNT * s \in Int
  BY <1>0, <1>1
<1> QED
  BY <1>0, <1>1, <1>2, <1>3 DEF ChunkStart, ChunkEnd, s
-----------------------------------------------------------------------------
(* An output that is ascending and not beyond m; one that is all of the    *)
(* file up to m.                                                           *)
UpTo(s, m) == s \in Seq(1 .. m) /\ \A j, k \in DOMAIN s : j < k => s[j] < s[k]
Whole(s, m) == Len(s) = m /\ \A k \in 1 .. m : s[k] = k

(* Blocks read and not yet written, and the next block to write. *)
Buffered(d) == IF scpc[d] = "write" THEN Len(buf[d]) ELSE 0
Pos(d) == offset[d] - Buffered(d)
InBuffer(d) == \A k \in 1 .. Len(buf[d]) : buf[d][k] = Pos(d) + k

LEMMA WriteExtends ==
  ASSUME NEW m \in Nat, NEW s, UpTo(s, m), NEW q \in Nat, NEW b \in Seq(1 .. q),
         \A k \in 1 .. Len(b) : b[k] = m + k
  PROVE  UpTo(s \o b, m + Len(b)) /\ (Whole(s, m) => Whole(s \o b, m + Len(b)))
<1> DEFINE n == Len(s)
           t == s \o b
<1>0. s \in Seq(1 .. m) /\ n \in Nat /\ DOMAIN s = 1 .. n /\ Len(b) \in Nat
  BY DEF UpTo
<1>1. /\ Len(t) = n + Len(b) /\ DOMAIN t = 1 .. n + Len(b)
      /\ \A k \in 1 .. n : t[k] = s[k]
      /\ \A k \in n + 1 .. n + Len(b) : t[k] = b[k - n]
  BY <1>0
<1>2. \A k \in n + 1 .. n + Len(b) : t[k] = m + k - n
  <2> SUFFICES ASSUME NEW k \in n + 1 .. n + Len(b) PROVE t[k] = m + k - n
    OBVIOUS
  <2>1. k - n \in 1 .. Len(b)
    BY <1>0
  <2> QED
    BY <1>0, <1>1, <2>1
<1>3. \A k \in 1 .. n : s[k] \in 1 .. m
  BY <1>0, ElementOfSeq
<1>4. \A j, k \in 1 .. n : j < k => s[j] < s[k]
  BY <1>0 DEF UpTo
<1>5. \A k \in 1 .. n + Len(b) :
        \/ k \in 1 .. n /\ t[k] = s[k]
        \/ k \in n + 1 .. n + Len(b) /\ t[k] = m + k - n
  BY <1>0, <1>1, <1>2
<1>6. t = [k \in 1 .. n + Len(b) |-> t[k]]
  <2>1. s \in [1 .. n -> Int] /\ b \in [1 .. Len(b) -> Int]
    BY <1>0
  <2>2. s \in Seq(Int) /\ b \in Seq(Int)
    BY <1>0, <2>1
  <2>3. t \in Seq(Int)
    BY <2>2
  <2> HIDE DEF t, n
  <2>4. t \in [1 .. Len(t) -> Int] /\ Len(t) = n + Len(b)
    BY <1>1, <2>3
  <2> QED
    BY <2>4
<1> HIDE DEF n, t
<1>7. UpTo(t, m + Len(b))
  <2>1. \A k \in 1 .. n + Len(b) : t[k] \in 1 .. m + Len(b)
    BY <1>0, <1>3, <1>5
  <2>2. ASSUME NEW j \in 1 .. n + Len(b), NEW k \in 1 .. n + Len(b), j < k PROVE t[j] < t[k]
    <3>1. CASE k \in 1 .. n
      BY <1>0, <1>1, <1>4, <2>2, <3>1
    <3>2. CASE k \in n + 1 .. n + Len(b) /\ j \in 1 .. n
      BY <1>0, <1>1, <1>2, <1>3, <2>2, <3>2
    <3>3. CASE k \in n + 1 .. n + Len(b) /\ j \in n + 1 .. n + Len(b)
      BY <1>0, <1>2, <2>2, <3>3
    <3> QED
      BY <1>0, <1>5, <3>1, <3>2, <3>3
  <2>3. t \in Seq(1 .. m + Len(b))
    <3>1. t \in [1 .. n + Len(b) -> 1 .. m + Len(b)] /\ n + Len(b) \in Nat
      BY <1>0, <1>6, <2>1
    <3> QED
      BY <3>1
  <2> QED
    BY <1>1, <2>2, <2>3 DEF UpTo
<1>8. ASSUME Whole(s, m) PROVE Whole(t, m + Len(b))
  <2>1. n = m /\ \A k \in 1 .. n : s[k] = k
    BY <1>8 DEF Whole, n
  <2>2. \A k \in 1 .. n + Len(b) : t[k] = k
    BY <1>0, <1>5, <2>1
  <2> QED
    BY <1>1, <2>1, <2>2 DEF Whole
<1> QED
  BY <1>7, <1>8 DEF t

LEMMA UpToGrows ==
  ASSUME NEW m \in Int, NEW q \in Int, m <= q, NEW s, UpTo(s, m)
  PROVE  UpTo(s, q)
<1>1. s \in Seq(1 .. m) /\ 1 .. m \subseteq 1 .. q
  BY DEF UpTo
<1>2. s \in Seq(1 .. q)
  <2>1. \A k \in 1 .. Len(s) : s[k] \in 1 .. m
    BY <1>1, ElementOfSeq
  <2>2. \A k \in 1 .. Len(s) : s[k] \in 1 .. q
    BY <1>1, <2>1
  <2>3. s \in [1 .. Len(s) -> 1 .. q] /\ Len(s) \in Nat
    BY <1>1, <2>2
  <2> QED
    BY <2>3
<1> QED
  BY <1>2 DEF UpTo
-----------------------------------------------------------------------------
ScribeLabels ==
  {"none", "sem_wait", "open", "P", "read", "write", "post", "V", "last V", "lock", "cond_wait", "ended"}
ChainLabels == {"none", "sem_wait", "open", "read", "write", "post", "ended"}
MutexLabels == {"none", "P", "read", "write", "V", "last V", "ended"}
TurnLabels == {"none", "lock", "cond_wait", "ended"}

OutTypes ==
  /\ oprog \in OutputPrograms /\ total_size \in Sizes
  /\ forked \in -1 .. CHILD_COUNT + 1
  /\ scpc \in [Scribes -> ScribeLabels]
  /\ gate \in [Scribes -> 0 .. 1] /\ inside \in Scribes \cup {-1} /\ turn \in 0 .. CHILD_COUNT - 1
  /\ offset \in [Scribes -> 0 .. total_size] /\ buf \in [Scribes -> Seq(1 .. total_size)]
  /\ broken \in BOOLEAN

(* 09mycat_sem.  The child in front has its semaphore posted, or is        *)
(* copying: there is one at most, the children after it have not begun,    *)
(* and the output is what comes before its place in the file, all of it if *)
(* nothing failed.                                                         *)
Front(d) == gate[d] = 1 \/ scpc[d] \in {"open", "read", "write", "post"}
ChainAt(d) ==
  /\ \A e \in Scribes : Front(e) => e = d
  /\ \A e \in Scribes : e > d => offset[e] = ChunkStart(e) /\ (broken = FALSE => scpc[e] # "ended")
  /\ ChunkStart(d) <= offset[d] /\ offset[d] <= ChunkEnd(d) /\ Pos(d) \in Nat
  /\ gate[d] = 1 \/ scpc[d] = "open" => offset[d] = ChunkStart(d)
  /\ gate[d] = 1 /\ broken = FALSE => scpc[d] # "ended"
  /\ scpc[d] = "write" => InBuffer(d)
  /\ scpc[d] = "post" /\ broken = FALSE => offset[d] = ChunkEnd(d)
  /\ UpTo(shown, Pos(d)) /\ (broken = FALSE => Whole(shown, Pos(d)))
ChainInv ==
  /\ scpc \in [Scribes -> ChainLabels]
  /\ \A d \in Scribes : scpc[d] \in {"open", "read", "write", "post"} => gate[d] = 0
  /\ \A d \in Scribes : Front(d) => ChainAt(d)
  /\ UpTo(shown, total_size) /\ (broken = FALSE => Whole(shown, total_size) \/ \E d \in Scribes : Front(d))

(* 10mycat_sem.  Whoever reads or writes is inside, the offset is one for  *)
(* all, and the output is what was read, but for the blocks in the buffer  *)
(* of the one that is about to write.                                      *)
MutexInv ==
  /\ scpc \in [Scribes -> MutexLabels]
  /\ \A d \in Scribes : scpc[d] \in {"read", "write", "V", "last V"} => inside = d
  /\ \A d, e \in Scribes : offset[d] = offset[e]
  /\ UpTo(shown, offset[0]) /\ (broken = FALSE /\ (\A d \in Scribes : scpc[d] # "write") => Whole(shown, offset[0]))
  /\ \A d \in Scribes : scpc[d] = "write" =>
       Pos(d) \in Nat /\ InBuffer(d) /\ UpTo(shown, Pos(d)) /\ (broken = FALSE => Whole(shown, Pos(d)))
  /\ broken = FALSE => \A d \in Scribes : scpc[d] \in {"last V", "ended"} => offset[d] = total_size

(* 09homework. *)
TurnInv ==
  /\ scpc \in [Scribes -> TurnLabels]
  /\ shown \in Seq(Scribes) /\ \A k \in DOMAIN shown : shown[k] = (k - 1) % CHILD_COUNT
  /\ turn = Len(shown) % CHILD_COUNT
  /\ scpc[turn] # "cond_wait"

(* Writers are created in order. *)
NotYet == forked >= 0 => \A d \in Scribes : d >= forked => scpc[d] = "none"

OutInv ==
  /\ OutTypes /\ NotYet
  /\ oprog.order = "chain" => ChainInv
  /\ oprog.order = "mutex" => MutexInv
  /\ oprog.order = "turn" => TurnInv

(* What the steps of a program do not change. *)
LEMMA Fixed ==
  ASSUME OutInv, OutputNext
  PROVE  /\ UNCHANGED <<oprog, total_size>>
         /\ Scribes' = Scribes
         /\ \A c : ChunkStart(c)' = ChunkStart(c) /\ ChunkEnd(c)' = ChunkEnd(c)
<1>1. UNCHANGED <<oprog, total_size>>
  BY DEF OutputNext, Fork, ForkFails, alrm_handler, SemWaitChild, OpenPart, P, Read, ReadEnds, ReadFails,
         Write, PostNext, V, KillScribe, Turn, fixed
<1> QED
  BY <1>1 DEF Scribes, ChunkStart, ChunkEnd, chunk_size

LEMMA Programs ==
  ASSUME OutInv
  PROVE  /\ oprog.order \in {"chain", "mutex", "turn"}
         /\ oprog.threads => oprog.order = "turn"
         /\ total_size \in Nat /\ CHILD_COUNT \in Nat \ {0}
         /\ Scribes = IF oprog.order = "mutex" THEN 0 .. CHILD_COUNT ELSE 0 .. CHILD_COUNT - 1
         /\ 0 \in Scribes
<1>1. /\ oprog.order \in {"chain", "mutex", "turn"}
      /\ oprog.threads => oprog.order = "turn"
      /\ total_size \in Nat /\ CHILD_COUNT \in Nat \ {0}
  BY OutputAssumption, Zenon DEF OutInv, OutTypes
<1>2. Scribes = IF oprog.order = "mutex" THEN 0 .. CHILD_COUNT ELSE 0 .. CHILD_COUNT - 1
  BY DEF Scribes
<1> QED
  BY <1>1, <1>2

LEMMA PartEnds ==
  ASSUME OutInv, NEW c \in Scribes, oprog.order # "turn"
  PROVE  EndOfPart(c) \in 0 .. total_size /\ (oprog.order = "chain" => EndOfPart(c) = ChunkEnd(c))
  BY Programs, Chunks DEF EndOfPart

LEMMA ReadFits ==
  ASSUME OutInv, NEW c \in Scribes, Read(c), NEW n \in 1 .. Min({BLOCKS, EndOfPart(c) - offset[c]})
  PROVE  n \in Nat \ {0} /\ offset[c] \in Nat /\ offset[c] + n <= EndOfPart(c) /\ offset[c] + n <= total_size
<1>1. scpc[c] = "read" /\ offset[c] < EndOfPart(c)
  BY DEF Read, ScribeGoes
<1>2. oprog.order # "turn"
  BY <1>1 DEF OutInv, TurnInv, TurnLabels
<1>3. EndOfPart(c) \in 0 .. total_size /\ offset[c] \in 0 .. total_size /\ total_size \in Nat
  BY <1>2, PartEnds, Programs DEF OutInv, OutTypes
<1>4. BLOCKS \in Int /\ EndOfPart(c) - offset[c] \in Int
  BY <1>3, OutputAssumption
<1>5. /\ Min({BLOCKS, EndOfPart(c) - offset[c]}) \in Int
      /\ Min({BLOCKS, EndOfPart(c) - offset[c]}) <= EndOfPart(c) - offset[c]
  BY <1>4, MinOfTwo
<1> QED
  BY <1>3, <1>5

LEMMA TypesStep == ASSUME OutInv, OutputNext PROVE OutTypes'
<1>0. /\ oprog \in OutputPrograms /\ total_size \in Sizes
      /\ forked \in -1 .. CHILD_COUNT + 1
      /\ scpc \in [Scribes -> ScribeLabels]
      /\ gate \in [Scribes -> 0 .. 1] /\ inside \in Scribes \cup {-1} /\ turn \in 0 .. CHILD_COUNT - 1
      /\ offset \in [Scribes -> 0 .. total_size] /\ buf \in [Scribes -> Seq(1 .. total_size)]
      /\ broken \in BOOLEAN
  BY DEF OutInv, OutTypes
<1>1. UNCHANGED <<oprog, total_size>> /\ Scribes' = Scribes
  BY Fixed
<1> USE Programs
<1>2. scpc' \in [Scribes -> ScribeLabels]
  BY <1>0, ZenonT(40) DEF OutputNext, Fork, ForkFails, alrm_handler, SemWaitChild, OpenPart, P, Read, ReadEnds, ReadFails,
         Write, PostNext, V, KillScribe, Turn, ScribeGoes, FirstStep, ScribeLabels
<1>3. broken' \in BOOLEAN
  BY <1>0, Zenon DEF OutputNext, Fork, ForkFails, alrm_handler, SemWaitChild, OpenPart, P, Read, ReadEnds, ReadFails,
         Write, PostNext, V, KillScribe, Turn
<1>4. forked' \in -1 .. CHILD_COUNT + 1
  <2>1. forked' = forked \/ forked' = -1 \/ (forked \in Scribes /\ forked' = forked + 1)
    BY Zenon DEF OutputNext, Fork, ForkFails, alrm_handler, SemWaitChild, OpenPart, P, Read, ReadEnds, ReadFails,
             Write, PostNext, V, KillScribe, Turn
  <2>2. \A c \in Scribes : c \in 0 .. CHILD_COUNT
    OBVIOUS
  <2> QED
    BY <1>0, <2>1, <2>2, SMTT(20)
<1>5. inside' \in Scribes \cup {-1}
  BY <1>0 DEF OutputNext, Fork, ForkFails, alrm_handler, SemWaitChild, OpenPart, P, Read, ReadEnds, ReadFails,
             Write, PostNext, V, KillScribe, Turn
<1>6. turn' \in 0 .. CHILD_COUNT - 1
  <2>1. turn' = turn \/ turn' = (turn + 1) % CHILD_COUNT
    BY Zenon DEF OutputNext, Fork, ForkFails, alrm_handler, SemWaitChild, OpenPart, P, Read, ReadEnds, ReadFails,
             Write, PostNext, V, KillScribe, Turn
  <2>2. (turn + 1) % CHILD_COUNT \in 0 .. CHILD_COUNT - 1
    BY <1>0
  <2> QED
    BY <1>0, <2>1, <2>2
<1>7. gate' \in [Scribes -> 0 .. 1]
  <2>1. gate' = gate \/ (\E c \in Scribes : SemWaitChild(c)) \/ (\E c \in Scribes : PostNext(c))
    BY Zenon DEF OutputNext, Fork, ForkFails, alrm_handler, SemWaitChild, OpenPart, P, Read, ReadEnds, ReadFails,
             Write, PostNext, V, KillScribe, Turn
  <2>2. ASSUME NEW c \in Scribes, SemWaitChild(c) PROVE gate' \in [Scribes -> 0 .. 1]
    BY <1>0, <2>2 DEF SemWaitChild
  <2>3. ASSUME NEW c \in Scribes, PostNext(c) PROVE gate' \in [Scribes -> 0 .. 1]
    <3>1. scpc[c] = "post"
      BY <2>3 DEF PostNext, ScribeGoes
    <3>2. oprog.order = "chain"
      BY <3>1 DEF OutInv, MutexInv, TurnInv, MutexLabels, TurnLabels
    <3>3. ChainAt(c)
      BY <3>1, <3>2 DEF OutInv, ChainInv, Front
    <3>4. c < CHILD_COUNT - 1 => c + 1 \in Scribes /\ gate[c + 1] = 0
      <4> SUFFICES ASSUME c < CHILD_COUNT - 1 PROVE c + 1 \in Scribes /\ gate[c + 1] = 0
        OBVIOUS
      <4>1. c + 1 \in Scribes /\ c + 1 # c
        BY <3>2
      <4>2. gate[c + 1] # 1
        BY <3>3, <4>1 DEF ChainAt, Front
      <4> QED
        BY <1>0, <4>1, <4>2
    <3> QED
      BY <1>0, <2>3, <3>4 DEF PostNext
  <2> QED
    BY <1>0, <2>1, <2>2, <2>3
<1>8. offset' \in [Scribes -> 0 .. total_size] /\ buf' \in [Scribes -> Seq(1 .. total_size)]
  <2>1. \/ UNCHANGED <<offset, buf>> \/ (\E c \in Scribes : Read(c)) \/ (\E c \in Scribes : Write(c))
    BY Zenon DEF OutputNext, Fork, ForkFails, alrm_handler, SemWaitChild, OpenPart, P, Read, ReadEnds, ReadFails,
             Write, PostNext, V, KillScribe, Turn
  <2>2. ASSUME NEW c \in Scribes, Read(c)
        PROVE  offset' \in [Scribes -> 0 .. total_size] /\ buf' \in [Scribes -> Seq(1 .. total_size)]
    <3>1. PICK n \in 1 .. Min({BLOCKS, EndOfPart(c) - offset[c]}) :
            /\ buf' = [buf EXCEPT ![c] = [k \in 1 .. n |-> offset[c] + k]]
            /\ offset' = [d \in Scribes |-> IF d = c \/ oprog.order = "mutex" THEN offset[c] + n ELSE offset[d]]
      BY <2>2 DEF Read
    <3>2. n \in Nat /\ offset[c] \in Nat /\ offset[c] + n <= total_size
      BY <1>0, <2>2, ReadFits
    <3>3. [k \in 1 .. n |-> offset[c] + k] \in Seq(1 .. total_size)
      <4>1. \A k \in 1 .. n : offset[c] + k \in 1 .. total_size
        BY <3>2
      <4> QED
        BY <3>2, <4>1
    <3>4. offset[c] + n \in 0 .. total_size
      BY <3>2
    <3>5. offset' \in [Scribes -> 0 .. total_size]
      BY <1>0, <3>1, <3>4
    <3>6. buf' \in [Scribes -> Seq(1 .. total_size)]
      <4> DEFINE new == [k \in 1 .. n |-> offset[c] + k]
      <4>1. buf' = [buf EXCEPT ![c] = new] /\ new \in Seq(1 .. total_size)
        BY <3>1, <3>3
      <4> HIDE DEF new
      <4> QED
        BY <1>0, <4>1
    <3> QED
      BY <3>5, <3>6
  <2>3. ASSUME NEW c \in Scribes, Write(c)
        PROVE  offset' \in [Scribes -> 0 .. total_size] /\ buf' \in [Scribes -> Seq(1 .. total_size)]
    BY <1>0, <2>3 DEF Write
  <2> QED
    BY <1>0, <2>1, <2>2, <2>3
<1> QED
  BY <1>0, <1>1, <1>2, <1>3, <1>4, <1>5, <1>6, <1>7, <1>8, Zenon DEF OutTypes

-----------------------------------------------------------------------------
LEMMA NotYetStep == ASSUME OutInv, OutputNext PROVE NotYet'
<1>0. /\ scpc \in [Scribes -> ScribeLabels] /\ forked \in Int /\ Scribes' = Scribes /\ Scribes \subseteq Int
  BY Fixed, Programs DEF OutInv, OutTypes
<1>1. CASE Fork
  <2>1. forked' = forked + 1 /\ \A d \in Scribes : d # forked => scpc'[d] = scpc[d]
    BY <1>0, <1>1 DEF Fork
  <2>2. \A d \in Scribes : forked >= 0 /\ d >= forked + 1 => d >= forked /\ d # forked
    BY <1>0
  <2>3. forked >= 0
    BY <1>1, Programs DEF Fork
  <2> QED
    BY <1>0, <2>1, <2>2, <2>3 DEF OutInv, NotYet
<1>2. CASE ForkFails \/ alrm_handler
  BY <1>2 DEF ForkFails, alrm_handler, NotYet
<1>3. ASSUME NEW c \in Scribes, SemWaitChild(c) \/ OpenPart(c) \/ P(c) \/ Read(c) \/ ReadEnds(c) \/ ReadFails(c)
                                \/ Write(c) \/ PostNext(c) \/ V(c) \/ KillScribe(c) \/ Turn(c)
      PROVE  NotYet'
  <2>1. forked' = forked
    BY <1>3 DEF SemWaitChild, OpenPart, P, Read, ReadEnds, ReadFails, Write, PostNext, V, KillScribe, Turn
  <2>2. \A d \in Scribes : scpc[d] = "none" => scpc'[d] = "none"
    BY <1>0, <1>3 DEF SemWaitChild, OpenPart, P, Read, ReadEnds, ReadFails, Write, PostNext, V, KillScribe, Turn, ScribeGoes
  <2> QED
    BY <1>0, <2>1, <2>2 DEF OutInv, NotYet
<1> QED
  BY <1>1, <1>2, <1>3 DEF OutputNext

LEMMA ChainTypes ==
  ASSUME OutInv, oprog.order = "chain"
  PROVE  /\ Scribes = 0 .. CHILD_COUNT - 1 /\ total_size \in Nat /\ CHILD_COUNT \in Nat \ {0}
         /\ gate \in [Scribes -> 0 .. 1] /\ scpc \in [Scribes -> ChainLabels]
         /\ offset \in [Scribes -> 0 .. total_size] /\ buf \in [Scribes -> Seq(1 .. total_size)]
         /\ \A c \in Scribes : ChunkStart(c) \in 0 .. total_size /\ ChunkEnd(c) \in 0 .. total_size
<1>1. Scribes = 0 .. CHILD_COUNT - 1 /\ total_size \in Nat /\ CHILD_COUNT \in Nat \ {0}
  BY Programs
<1>2. \A c \in Scribes : ChunkStart(c) \in 0 .. total_size /\ ChunkEnd(c) \in 0 .. total_size
  BY <1>1, Chunks
<1> QED
  BY <1>1, <1>2 DEF OutInv, OutTypes, ChainInv

(* A step that neither reads, writes nor posts, and puts nobody in front. *)
LEMMA ChainFrame ==
  ASSUME OutInv, OutputNext, oprog.order = "chain",
         UNCHANGED <<shown, offset, buf>>, broken' = FALSE => broken = FALSE,
         scpc' \in [Scribes -> ChainLabels],
         \A d \in Scribes : Front(d)' => Front(d) /\ (scpc'[d] = "write" <=> scpc[d] = "write"),
         \A d \in Scribes : scpc'[d] \in {"open", "read", "write", "post"} => gate'[d] = 0,
         \A d \in Scribes : gate'[d] = 1 \/ scpc'[d] = "open" => offset[d] = ChunkStart(d),
         broken' = FALSE => /\ \A d \in Scribes : scpc'[d] = "ended" => scpc[d] = "ended" /\ gate'[d] = gate[d]
                            /\ \A d \in Scribes : scpc'[d] = "post" => offset[d] = ChunkEnd(d)
                            /\ \A d \in Scribes : Front(d) => Front(d)'
  PROVE  ChainInv'
<1>0. /\ UNCHANGED <<oprog, total_size>> /\ Scribes' = Scribes
      /\ \A c : ChunkStart(c)' = ChunkStart(c) /\ ChunkEnd(c)' = ChunkEnd(c)
  BY Fixed
<1>1. ChainInv
  BY DEF OutInv
<1>2. \A d \in Scribes : Front(d)' => Pos(d)' = Pos(d)
  BY DEF Pos, Buffered
<1>5. ASSUME NEW d \in Scribes, Front(d)' PROVE ChainAt(d)'
  <2>1. Front(d) /\ ChainAt(d) /\ Pos(d)' = Pos(d)
    BY <1>1, <1>2, <1>5 DEF ChainInv
  <2>2. \A e \in Scribes' : Front(e)' => e = d
    BY <1>0, <2>1 DEF ChainAt
  <2>3. \A e \in Scribes' : e > d => offset'[e] = ChunkStart(e)' /\ (broken' = FALSE => scpc'[e] # "ended")
    BY <1>0, <2>1 DEF ChainAt
  <2>4. ChunkStart(d)' <= offset'[d] /\ offset'[d] <= ChunkEnd(d)' /\ Pos(d)' \in Nat
    BY <1>0, <2>1 DEF ChainAt
  <2>5. gate'[d] = 1 \/ scpc'[d] = "open" => offset'[d] = ChunkStart(d)'
    BY <1>0
  <2>6. gate'[d] = 1 /\ broken' = FALSE => scpc'[d] # "ended"
    BY <2>1 DEF ChainAt
  <2>7. scpc'[d] = "write" => InBuffer(d)'
    BY <1>5, <2>1 DEF ChainAt, InBuffer
  <2>8. scpc'[d] = "post" /\ broken' = FALSE => offset'[d] = ChunkEnd(d)'
    BY <1>0
  <2>9. UpTo(shown, Pos(d))' /\ (broken' = FALSE => Whole(shown, Pos(d))')
    <3>1. UpTo(shown, Pos(d)) /\ (broken = FALSE => Whole(shown, Pos(d)))
      BY <2>1 DEF ChainAt
    <3> QED
      BY <2>1, <3>1
  <2> QED
    BY <2>2, <2>3, <2>4, <2>5, <2>6, <2>7, <2>8, <2>9 DEF ChainAt
<1>6. UpTo(shown, total_size)' /\ (broken' = FALSE => Whole(shown, total_size)' \/ \E d \in Scribes : Front(d)')
  BY <1>0, <1>1 DEF ChainInv
<1> QED
  BY <1>0, <1>5, <1>6 DEF ChainInv

LEMMA ChainQuietSteps ==
  ASSUME OutInv, OutputNext, oprog.order = "chain",
         Fork \/ ForkFails \/ \E c \in Scribes : SemWaitChild(c) \/ OpenPart(c) \/ ReadEnds(c) \/ ReadFails(c) \/ KillScribe(c)
  PROVE  ChainInv'
<1> USE ChainTypes
<1>0. /\ gate \in [Scribes -> 0 .. 1] /\ scpc \in [Scribes -> ChainLabels]
      /\ Scribes = 0 .. CHILD_COUNT - 1 /\ CHILD_COUNT \in Nat \ {0}
  OBVIOUS
<1>1. ChainInv /\ ~oprog.threads
  BY Programs, Zenon DEF OutInv
<1>2. \A d \in Scribes : scpc[d] \in {"open", "read", "write", "post"} => gate[d] = 0
  BY <1>1 DEF ChainInv
<1>3. \A d \in Scribes : Front(d) => /\ (gate[d] = 1 \/ scpc[d] = "open" => offset[d] = ChunkStart(d))
                                     /\ (scpc[d] = "post" /\ broken = FALSE => offset[d] = ChunkEnd(d))
                                     /\ ChunkStart(d) <= offset[d] /\ offset[d] <= ChunkEnd(d)
                                     /\ (gate[d] = 1 /\ broken = FALSE => scpc[d] # "ended")
  BY <1>1 DEF ChainInv, ChainAt
<1>4. \A d \in Scribes : gate[d] = 1 \/ scpc[d] = "open" => offset[d] = ChunkStart(d)
  BY <1>3 DEF Front
<1>5. broken = FALSE => \A d \in Scribes : scpc[d] = "post" => offset[d] = ChunkEnd(d)
  BY <1>3 DEF Front
<1>6. ASSUME Fork PROVE ChainInv'
  <2>1. forked \in Scribes /\ scpc' = [scpc EXCEPT ![forked] = "sem_wait"] /\ UNCHANGED <<gate, offset, buf, shown, broken>>
    BY <1>6 DEF Fork, FirstStep
  <2>2. scpc' \in [Scribes -> ChainLabels]
    BY <1>0, <2>1 DEF ChainLabels
  <2>3. scpc[forked] = "none"
    BY <1>0, <2>1 DEF OutInv, NotYet
  <2>4. \A d \in Scribes : scpc'[d] = IF d = forked THEN "sem_wait" ELSE scpc[d]
    BY <1>0, <2>1
  <2> QED
    BY <1>2, <1>4, <1>5, <2>1, <2>2, <2>3, <2>4, ChainFrame DEF Front
<1>7. ASSUME ForkFails PROVE ChainInv'
  <2>1. UNCHANGED <<scpc, gate, offset, buf, shown>> /\ broken' = TRUE
    BY <1>1, <1>7, Zenon DEF ForkFails
  <2> QED
    BY <1>0, <1>2, <1>4, <2>1, ChainFrame DEF Front
<1>8. ASSUME NEW c \in Scribes, SemWaitChild(c) PROVE ChainInv'
  <2>1. /\ scpc[c] = "sem_wait" /\ scpc' = [scpc EXCEPT ![c] = "open"] /\ gate[c] > 0 
        /\ gate' = [gate EXCEPT ![c] = @ - 1] /\ UNCHANGED <<offset, buf, shown, broken>>
    BY <1>8 DEF SemWaitChild, ScribeGoes
  <2>2. scpc' \in [Scribes -> ChainLabels] /\ gate[c] = 1
    <3>1. scpc \in [Scribes -> ChainLabels] /\ gate[c] \in 0 .. 1 /\ "open" \in ChainLabels
      BY <1>0 DEF ChainLabels
    <3> QED
      BY <2>1, <3>1
  <2>3. \A d \in Scribes : scpc'[d] = (IF d = c THEN "open" ELSE scpc[d]) /\ gate'[d] = (IF d = c THEN 0 ELSE gate[d])
    BY <1>0, <2>1, <2>2
  <2> QED
    BY <1>2, <1>4, <1>5, <2>1, <2>2, <2>3, ChainFrame DEF Front
<1>9. ASSUME NEW c \in Scribes, OpenPart(c) \/ ReadEnds(c) \/ ReadFails(c) PROVE ChainInv'
  <2>1. PICK to \in {"read", "post"} :
           /\ scpc[c] \in {"open", "read"} /\ scpc' = [scpc EXCEPT ![c] = to]
           /\ (to = "post" /\ broken' = FALSE => ~(offset[c] < ChunkEnd(c)))
    BY <1>9 DEF OpenPart, ReadEnds, ReadFails, ScribeGoes, EndOfPart
  <2>2. UNCHANGED <<gate, offset, buf, shown>> /\ (broken' = FALSE => broken = FALSE)
    BY <1>9 DEF OpenPart, ReadEnds, ReadFails
  <2>3. scpc' \in [Scribes -> ChainLabels]
    BY <1>0, <2>1 DEF ChainLabels
  <2>4. \A d \in Scribes : scpc'[d] = IF d = c THEN to ELSE scpc[d]
    BY <1>0, <2>1
  <2>5. to = "post" /\ broken' = FALSE => offset[c] = ChunkEnd(c)
    BY <1>3, <2>1 DEF Front
  <2> QED
    BY <1>2, <1>4, <1>5, <2>1, <2>2, <2>3, <2>4, <2>5, ChainFrame DEF Front
<1>10. ASSUME NEW c \in Scribes, KillScribe(c) PROVE ChainInv'
  <2>1. scpc' = [scpc EXCEPT ![c] = "ended"] /\ broken' = TRUE /\ UNCHANGED <<gate, offset, buf, shown>>
    BY <1>10 DEF KillScribe
  <2>2. scpc' \in [Scribes -> ChainLabels]
    BY <1>0, <2>1 DEF ChainLabels
  <2>4. \A d \in Scribes : scpc'[d] = IF d = c THEN "ended" ELSE scpc[d]
    BY <1>0, <2>1
  <2> QED
    BY <1>2, <1>4, <1>5, <2>1, <2>2, <2>4, ChainFrame DEF Front
<1> QED
  BY <1>6, <1>7, <1>8, <1>9, <1>10

LEMMA ChainReadStep ==
  ASSUME OutInv, OutputNext, oprog.order = "chain", NEW c \in Scribes, Read(c)
  PROVE  ChainInv'
<1>0. /\ UNCHANGED <<oprog, total_size>> /\ Scribes' = Scribes
      /\ \A d : ChunkStart(d)' = ChunkStart(d) /\ ChunkEnd(d)' = ChunkEnd(d)
  BY Fixed
<1>1. /\ scpc[c] = "read" /\ scpc' = [scpc EXCEPT ![c] = "write"] /\ UNCHANGED <<gate, shown, broken>>
  BY DEF Read, ScribeGoes
<1>2. PICK n \in 1 .. Min({BLOCKS, EndOfPart(c) - offset[c]}) :
        /\ buf' = [buf EXCEPT ![c] = [k \in 1 .. n |-> offset[c] + k]]
        /\ offset' = [d \in Scribes |-> IF d = c \/ oprog.order = "mutex" THEN offset[c] + n ELSE offset[d]]
  BY DEF Read
<1>3. n \in Nat \ {0} /\ offset[c] \in Nat /\ offset[c] + n <= ChunkEnd(c)
  BY ReadFits, PartEnds
<1>4. /\ gate \in [Scribes -> 0 .. 1] /\ scpc \in [Scribes -> ChainLabels]
      /\ offset \in [Scribes -> 0 .. total_size] /\ buf \in [Scribes -> Seq(1 .. total_size)]
      /\ ChunkStart(c) \in Int /\ ChunkEnd(c) \in Int
  BY ChainTypes
<1>5. Front(c) /\ ChainInv /\ gate[c] = 0
  BY <1>1 DEF OutInv, ChainInv, Front
<1>6. ChainAt(c)
  BY <1>5 DEF ChainInv
<1>7. scpc' \in [Scribes -> ChainLabels]
  BY <1>1, <1>4 DEF ChainLabels
<1>8. \A d \in Scribes : /\ scpc'[d] = IF d = c THEN "write" ELSE scpc[d]
                         /\ offset'[d] = IF d = c THEN offset[c] + n ELSE offset[d]
  BY <1>1, <1>2, <1>4
<1>9. \A d \in Scribes : Front(d)' <=> Front(d)
  BY <1>1, <1>8 DEF Front
<1>10. buf'[c] = [k \in 1 .. n |-> offset[c] + k]
  BY <1>2, <1>4
<1>11. Len(buf'[c]) = n /\ \A k \in 1 .. n : buf'[c][k] = offset[c] + k
  BY <1>3, <1>10
<1>12. Pos(c) = offset[c] /\ Pos(c)' = offset[c]
  BY <1>1, <1>3, <1>4, <1>8, <1>11 DEF Pos, Buffered
<1>13. ChainAt(c)'
  <2>1. \A e \in Scribes' : Front(e)' => e = c
    BY <1>0, <1>6, <1>9 DEF ChainAt
  <2>2. \A e \in Scribes' : e > c => offset'[e] = ChunkStart(e)' /\ (broken' = FALSE => scpc'[e] # "ended")
    <3>1. \A e \in Scribes : e > c => e # c
      BY ChainTypes
    <3> QED
      BY <1>0, <1>1, <1>6, <1>8, <3>1 DEF ChainAt
  <2>3. ChunkStart(c)' <= offset'[c] /\ offset'[c] <= ChunkEnd(c)' /\ Pos(c)' \in Nat
    BY <1>0, <1>3, <1>4, <1>6, <1>8, <1>12 DEF ChainAt
  <2>4. InBuffer(c)'
    BY <1>11, <1>12 DEF InBuffer
  <2>5. UpTo(shown, Pos(c))' /\ (broken' = FALSE => Whole(shown, Pos(c))')
    <3>1. UpTo(shown, offset[c]) /\ (broken = FALSE => Whole(shown, offset[c]))
      BY <1>6, <1>12 DEF ChainAt
    <3> QED
      BY <1>1, <1>12, <3>1
  <2> QED
    BY <1>1, <1>5, <1>8, <2>1, <2>2, <2>3, <2>4, <2>5 DEF ChainAt
<1>14. \A d \in Scribes : Front(d)' => d = c
  BY <1>6, <1>9 DEF ChainAt
<1>15. UpTo(shown, total_size)'
  BY <1>0, <1>1, <1>5 DEF ChainInv
<1>16. \A d \in Scribes : scpc'[d] \in {"open", "read", "write", "post"} => gate'[d] = 0
  BY <1>1, <1>5, <1>8 DEF ChainInv
<1> QED
  BY <1>0, <1>5, <1>7, <1>9, <1>13, <1>14, <1>15, <1>16 DEF ChainInv

LEMMA ChainWriteStep ==
  ASSUME OutInv, OutputNext, oprog.order = "chain", NEW c \in Scribes, Write(c)
  PROVE  ChainInv'
<1>0. /\ UNCHANGED <<oprog, total_size>> /\ Scribes' = Scribes
      /\ \A d : ChunkStart(d)' = ChunkStart(d) /\ ChunkEnd(d)' = ChunkEnd(d)
  BY Fixed
<1>1. /\ scpc[c] = "write" /\ scpc' = [scpc EXCEPT ![c] = "read"] /\ UNCHANGED <<gate, offset, broken>>
      /\ shown' = shown \o buf[c]
  BY DEF Write, ScribeGoes
<1>4. /\ gate \in [Scribes -> 0 .. 1] /\ scpc \in [Scribes -> ChainLabels]
      /\ offset[c] \in 0 .. total_size /\ buf[c] \in Seq(1 .. total_size)
      /\ ChunkStart(c) \in Int /\ ChunkEnd(c) \in Int /\ total_size \in Nat
  BY ChainTypes
<1>5. Front(c) /\ ChainInv /\ gate[c] = 0
  BY <1>1 DEF OutInv, ChainInv, Front
<1>6. ChainAt(c)
  BY <1>5 DEF ChainInv
<1>7. scpc' \in [Scribes -> ChainLabels]
  BY <1>1, <1>4 DEF ChainLabels
<1>8. \A d \in Scribes : scpc'[d] = IF d = c THEN "read" ELSE scpc[d]
  BY <1>1, <1>4
<1>9. \A d \in Scribes : Front(d)' <=> Front(d)
  BY <1>1, <1>8 DEF Front
<1>10. Len(buf[c]) \in Nat
  BY <1>4
<1>11. Pos(c) \in Nat /\ Pos(c) + Len(buf[c]) = offset[c] /\ Pos(c)' = offset[c]
  BY <1>1, <1>4, <1>6, <1>8, <1>10 DEF Pos, Buffered, ChainAt
<1>12. UpTo(shown', offset[c]) /\ (broken = FALSE => Whole(shown', offset[c]))
  BY <1>1, <1>4, <1>6, <1>11, WriteExtends DEF ChainAt, InBuffer
<1>13. ChainAt(c)'
  <2>1. \A e \in Scribes' : Front(e)' => e = c
    BY <1>0, <1>6, <1>9 DEF ChainAt
  <2>2. \A e \in Scribes' : e > c => offset'[e] = ChunkStart(e)' /\ (broken' = FALSE => scpc'[e] # "ended")
    <3>1. \A e \in Scribes : e > c => e # c
      BY ChainTypes
    <3> QED
      BY <1>0, <1>1, <1>6, <1>8, <3>1 DEF ChainAt
  <2>3. ChunkStart(c)' <= offset'[c] /\ offset'[c] <= ChunkEnd(c)' /\ Pos(c)' \in Nat
    BY <1>0, <1>1, <1>4, <1>6, <1>11 DEF ChainAt
  <2> QED
    BY <1>1, <1>5, <1>8, <1>11, <1>12, <2>1, <2>2, <2>3 DEF ChainAt
<1>14. \A d \in Scribes : Front(d)' => d = c
  BY <1>6, <1>9 DEF ChainAt
<1>15. UpTo(shown, total_size)'
  BY <1>0, <1>4, <1>12, UpToGrows
<1>16. \A d \in Scribes : scpc'[d] \in {"open", "read", "write", "post"} => gate'[d] = 0
  BY <1>1, <1>5, <1>8 DEF ChainInv
<1> QED
  BY <1>0, <1>5, <1>7, <1>9, <1>13, <1>14, <1>15, <1>16 DEF ChainInv

LEMMA ChainPostStep ==
  ASSUME OutInv, OutputNext, oprog.order = "chain", NEW c \in Scribes, PostNext(c)
  PROVE  ChainInv'
<1>0. /\ UNCHANGED <<oprog, total_size>> /\ Scribes' = Scribes
      /\ \A d : ChunkStart(d)' = ChunkStart(d) /\ ChunkEnd(d)' = ChunkEnd(d)
  BY Fixed
<1>1. /\ scpc[c] = "post" /\ scpc' = [scpc EXCEPT ![c] = "ended"] /\ UNCHANGED <<offset, buf, broken, shown>>
      /\ gate' = IF c < CHILD_COUNT - 1 THEN [gate EXCEPT ![c + 1] = @ + 1] ELSE gate
  BY DEF PostNext, ScribeGoes
<1>4. /\ gate \in [Scribes -> 0 .. 1] /\ scpc \in [Scribes -> ChainLabels]
      /\ offset \in [Scribes -> 0 .. total_size] /\ total_size \in Nat
      /\ \A d \in Scribes : ChunkStart(d) \in 0 .. total_size /\ ChunkEnd(d) \in 0 .. total_size
      /\ Scribes = 0 .. CHILD_COUNT - 1 /\ CHILD_COUNT \in Nat \ {0}
  BY ChainTypes
<1>5. Front(c) /\ ChainInv /\ gate[c] = 0
  BY <1>1 DEF OutInv, ChainInv, Front
<1>6. ChainAt(c)
  BY <1>5 DEF ChainInv
<1>7. scpc' \in [Scribes -> ChainLabels]
  BY <1>1, <1>4 DEF ChainLabels
<1>8. \A d \in Scribes : scpc'[d] = IF d = c THEN "ended" ELSE scpc[d]
  BY <1>1, <1>4
<1>9. \A d \in Scribes : d # c => gate[d] = 0 /\ scpc[d] \notin {"open", "read", "write", "post"}
  BY <1>4, <1>6 DEF ChainAt, Front
<1>10. Pos(c) = offset[c] /\ offset[c] \in Nat
  BY <1>1, <1>4 DEF Pos, Buffered
<1>11. UpTo(shown, offset[c]) /\ (broken = FALSE => Whole(shown, ChunkEnd(c)) /\ offset[c] = ChunkEnd(c))
  BY <1>1, <1>6, <1>10 DEF ChainAt
<1>12. UpTo(shown, ChunkEnd(c)) /\ UpTo(shown, total_size)
  BY <1>4, <1>6, <1>10, <1>11, UpToGrows DEF ChainAt
<1>13. CASE c < CHILD_COUNT - 1
  <2> DEFINE e == c + 1
  <2>1. e \in Scribes /\ e # c /\ e > c /\ \A d \in Scribes : d > e => d > c /\ d # c
    BY <1>4, <1>13
  <2>2. ChunkStart(e) = ChunkEnd(c) /\ ChunkStart(e) <= ChunkEnd(e)
    BY <1>4, <1>13, <2>1, Chunks
  <2> HIDE DEF e
  <2>3. gate' = [gate EXCEPT ![e] = @ + 1]
    BY <1>1, <1>13 DEF e
  <2>4. \A d \in Scribes : gate'[d] = IF d = e THEN 1 ELSE 0
    BY <1>4, <1>5, <1>9, <2>1, <2>3
  <2>5. \A d \in Scribes : Front(d)' <=> d = e
    BY <1>8, <1>9, <2>1, <2>4 DEF Front
  <2>6. offset[e] = ChunkStart(e) /\ (broken = FALSE => scpc[e] # "ended")
    BY <1>6, <2>1 DEF ChainAt
  <2>7. Pos(e)' = ChunkEnd(c)
    BY <1>1, <1>4, <1>8, <1>9, <2>1, <2>2, <2>6 DEF Pos, Buffered
  <2>8. ChainAt(e)'
    <3>1. \A d \in Scribes' : d > e => offset'[d] = ChunkStart(d)' /\ (broken' = FALSE => scpc'[d] # "ended")
      BY <1>0, <1>1, <1>4, <1>6, <1>8, <2>1 DEF ChainAt
    <3>2. ChunkStart(e)' <= offset'[e] /\ offset'[e] <= ChunkEnd(e)' /\ Pos(e)' \in Nat
      BY <1>0, <1>1, <1>4, <2>1, <2>2, <2>6, <2>7
    <3>3. scpc'[e] # "write" /\ scpc'[e] # "post"
      BY <1>8, <1>9, <2>1
    <3>4. UpTo(shown', Pos(e)') /\ (broken' = FALSE => Whole(shown', Pos(e)'))
      BY <1>1, <1>11, <1>12, <2>7
    <3>5. offset'[e] = ChunkStart(e)' /\ (broken' = FALSE => scpc'[e] # "ended")
      BY <1>0, <1>1, <1>8, <2>1, <2>6
    <3> QED
      BY <1>0, <2>5, <3>1, <3>2, <3>3, <3>4, <3>5 DEF ChainAt
  <2>9. \A d \in Scribes : scpc'[d] \in {"open", "read", "write", "post"} => gate'[d] = 0
    BY <1>8, <1>9
  <2> QED
    BY <1>0, <1>1, <1>7, <1>12, <2>1, <2>5, <2>8, <2>9 DEF ChainInv
<1>14. CASE ~(c < CHILD_COUNT - 1)
  <2>1. c = CHILD_COUNT - 1 /\ ChunkEnd(c) = total_size
    BY <1>4, <1>14, Chunks
  <2>2. \A d \in Scribes : ~Front(d)'
    BY <1>1, <1>5, <1>8, <1>9, <1>14 DEF Front
  <2>3. \A d \in Scribes : scpc'[d] \in {"open", "read", "write", "post"} => gate'[d] = 0
    BY <1>8, <1>9
  <2> QED
    BY <1>0, <1>1, <1>7, <1>11, <1>12, <2>1, <2>2, <2>3 DEF ChainInv
<1> QED
  BY <1>13, <1>14

LEMMA ChainStep == ASSUME OutInv, OutputNext, oprog.order = "chain" PROVE ChainInv'
<1>1. /\ ~alrm_handler
      /\ \A c \in Scribes : ~P(c) /\ ~V(c) /\ ~Turn(c)
  <2>1. ~oprog.threads /\ \A c \in Scribes : scpc[c] \in ChainLabels
    BY Programs, ChainTypes, Zenon
  <2> QED
    BY <2>1 DEF alrm_handler, P, V, Turn, ScribeGoes, ChainLabels
<1> QED
  BY <1>1, ChainQuietSteps, ChainReadStep, ChainWriteStep, ChainPostStep DEF OutputNext

-----------------------------------------------------------------------------
LEMMA TurnPasses == ASSUME NEW a \in Nat, NEW m \in Nat \ {0} PROVE ((a % m) + 1) % m = (a + 1) % m
<1> DEFINE q == a \div m
           r == a % m
<1>1. a = m * q + r /\ r \in 0 .. m - 1 /\ q \in Nat
  OBVIOUS
<1> HIDE DEF q, r
<1>2. CASE r + 1 < m
  <2>1. a + 1 = m * q + (r + 1) /\ r + 1 \in 0 .. m - 1
    BY <1>1, <1>2
  <2>2. (a + 1) % m = r + 1 /\ (r + 1) % m = r + 1
    BY <1>1, <2>1
  <2> QED
    BY <2>2 DEF r
<1>3. CASE r + 1 = m
  <2>1. a + 1 = m * (q + 1) + 0
    BY <1>1, <1>3
  <2>2. (a + 1) % m = 0 /\ m % m = 0
    BY <1>1, <2>1
  <2> QED
    BY <1>3, <2>2 DEF r
<1> QED
  BY <1>1, <1>2, <1>3

LEMMA TurnStep == ASSUME OutInv, OutputNext, oprog.order = "turn" PROVE TurnInv'
<1>0. /\ UNCHANGED <<oprog, total_size>> /\ Scribes' = Scribes
  BY Fixed
<1>1. /\ Scribes = 0 .. CHILD_COUNT - 1 /\ CHILD_COUNT \in Nat \ {0}
      /\ scpc \in [Scribes -> TurnLabels] /\ turn \in Scribes /\ TurnInv
  BY Programs DEF OutInv, OutTypes, TurnInv
<1>2. \A c \in Scribes : ~SemWaitChild(c) /\ ~OpenPart(c) /\ ~P(c) /\ ~Read(c) /\ ~ReadEnds(c) /\ ~ReadFails(c)
                         /\ ~Write(c) /\ ~PostNext(c) /\ ~V(c)
  BY <1>1 DEF SemWaitChild, OpenPart, P, Read, ReadEnds, ReadFails, Write, PostNext, V, ScribeGoes, TurnLabels
<1>3. ASSUME UNCHANGED <<turn, shown>>, scpc' \in [Scribes -> TurnLabels], scpc'[turn] # "cond_wait" PROVE TurnInv'
  BY <1>0, <1>1, <1>3 DEF TurnInv
<1>4. CASE Fork
  <2>1. forked \in Scribes /\ scpc' = [scpc EXCEPT ![forked] = "lock"] /\ UNCHANGED <<turn, shown>>
    BY <1>4 DEF Fork, FirstStep
  <2> QED
    BY <1>1, <1>3, <2>1 DEF TurnInv, TurnLabels
<1>5. CASE ForkFails
  <2>1. UNCHANGED <<turn, shown>> /\ (scpc' = scpc \/ scpc' = [c \in Scribes |-> "ended"])
    BY <1>5, Zenon DEF ForkFails
  <2> QED
    BY <1>1, <1>3, <2>1 DEF TurnInv, TurnLabels
<1>6. CASE alrm_handler
  BY <1>1, <1>3, <1>6 DEF alrm_handler, TurnLabels
<1>7. ASSUME NEW c \in Scribes, KillScribe(c) PROVE TurnInv'
  <2>1. scpc' = [scpc EXCEPT ![c] = "ended"] /\ UNCHANGED <<turn, shown>>
    BY <1>7 DEF KillScribe
  <2> QED
    BY <1>1, <1>3, <2>1 DEF TurnInv, TurnLabels
<1>8. ASSUME NEW c \in Scribes, Turn(c), turn # c PROVE TurnInv'
  BY <1>1, <1>3, <1>8 DEF Turn, ScribeGoes, TurnInv, TurnLabels
<1>9. ASSUME NEW c \in Scribes, Turn(c), turn = c PROVE TurnInv'
  <2>1. /\ shown' = Append(shown, c) /\ turn' = (turn + 1) % CHILD_COUNT
        /\ scpc' = [d \in Scribes |-> IF scpc[d] = "cond_wait" THEN "lock" ELSE scpc[d]]
    BY <1>9 DEF Turn
  <2>2. shown \in Seq(Scribes) /\ Len(shown) \in Nat /\ turn = Len(shown) % CHILD_COUNT
    BY <1>1 DEF TurnInv
  <2>3. turn' = (Len(shown) + 1) % CHILD_COUNT /\ turn' \in Scribes
    <3>1. ((Len(shown) % CHILD_COUNT) + 1) % CHILD_COUNT = (Len(shown) + 1) % CHILD_COUNT
      BY <1>1, <2>2, TurnPasses
    <3>2. (Len(shown) + 1) % CHILD_COUNT \in 0 .. CHILD_COUNT - 1
      BY <1>1, <2>2
    <3> QED
      BY <1>1, <2>1, <2>2, <3>1, <3>2
  <2>4. scpc' \in [Scribes -> TurnLabels] /\ scpc'[turn'] # "cond_wait"
    BY <1>1, <2>1, <2>3 DEF TurnLabels
  <2>5. shown' \in Seq(Scribes) /\ Len(shown') = Len(shown) + 1
    BY <2>1, <2>2
  <2>6. \A k \in DOMAIN shown' : shown'[k] = (k - 1) % CHILD_COUNT
    <3> SUFFICES ASSUME NEW k \in 1 .. Len(shown) + 1 PROVE shown'[k] = (k - 1) % CHILD_COUNT
      BY <2>5
    <3>1. CASE k = Len(shown) + 1
      BY <1>9, <2>1, <2>2, <3>1
    <3>2. CASE k \in DOMAIN shown
      <4>1. shown'[k] = shown[k]
        BY <2>1, <2>2, <3>2
      <4>2. \A l \in DOMAIN shown : shown[l] = (l - 1) % CHILD_COUNT
        BY <1>1 DEF TurnInv
      <4> QED
        BY <3>2, <4>1, <4>2
    <3> QED
      BY <2>2, <3>1, <3>2
  <2> QED
    BY <1>0, <2>3, <2>4, <2>5, <2>6 DEF TurnInv
<1> QED
  BY <1>2, <1>4, <1>5, <1>6, <1>7, <1>8, <1>9 DEF OutputNext
-----------------------------------------------------------------------------
LEMMA MutexTypes ==
  ASSUME OutInv, oprog.order = "mutex"
  PROVE  /\ Scribes = 0 .. CHILD_COUNT /\ total_size \in Nat /\ CHILD_COUNT \in Nat \ {0} /\ 0 \in Scribes
         /\ scpc \in [Scribes -> MutexLabels] /\ inside \in Scribes \cup {-1}
         /\ offset \in [Scribes -> 0 .. total_size] /\ buf \in [Scribes -> Seq(1 .. total_size)]
         /\ MutexInv /\ ~oprog.threads
<1>1. /\ Scribes = 0 .. CHILD_COUNT /\ total_size \in Nat /\ CHILD_COUNT \in Nat \ {0} /\ 0 \in Scribes
      /\ ~oprog.threads
  BY Programs, Zenon
<1> QED
  BY <1>1, Zenon DEF OutInv, OutTypes, MutexInv

(* A step that neither reads nor writes. *)
LEMMA MutexFrame ==
  ASSUME OutInv, OutputNext, oprog.order = "mutex",
         UNCHANGED <<shown, offset, buf>>, broken' = FALSE => broken = FALSE,
         scpc' \in [Scribes -> MutexLabels],
         \A d \in Scribes : scpc'[d] \in {"read", "write", "V", "last V"} => inside' = d,
         \A d \in Scribes : scpc'[d] = "write" => scpc[d] = "write",
         broken' = FALSE => /\ \A d \in Scribes : scpc[d] = "write" => scpc'[d] = "write"
                            /\ \A d \in Scribes : scpc'[d] \in {"last V", "ended"} => offset[d] = total_size
  PROVE  MutexInv'
<1>0. UNCHANGED <<oprog, total_size>> /\ Scribes' = Scribes
  BY Fixed
<1>1. MutexInv
  BY DEF OutInv
<1>2. \A d \in Scribes : scpc'[d] = "write" => Pos(d)' = Pos(d) /\ (InBuffer(d) => InBuffer(d)')
  BY DEF Pos, Buffered, InBuffer
<1>3. \A d \in Scribes : scpc'[d] = "write" =>
        Pos(d)' \in Nat /\ InBuffer(d)' /\ UpTo(shown, Pos(d))' /\ (broken' = FALSE => Whole(shown, Pos(d))')
  BY <1>1, <1>2 DEF MutexInv
<1>4. UpTo(shown, offset[0])' /\ (broken' = FALSE /\ (\A d \in Scribes : scpc'[d] # "write") => Whole(shown, offset[0])')
  BY <1>1 DEF MutexInv
<1>5. \A d, e \in Scribes : offset'[d] = offset'[e]
  BY <1>1 DEF MutexInv
<1> QED
  BY <1>0, <1>3, <1>4, <1>5 DEF MutexInv

LEMMA MutexQuietSteps ==
  ASSUME OutInv, OutputNext, oprog.order = "mutex",
         Fork \/ ForkFails \/ \E c \in Scribes : P(c) \/ V(c) \/ ReadEnds(c) \/ ReadFails(c) \/ KillScribe(c)
  PROVE  MutexInv'
<1>0. /\ scpc \in [Scribes -> MutexLabels] /\ Scribes \subseteq Int /\ inside \in Scribes \cup {-1} /\ -1 \notin Scribes
  BY MutexTypes
<1>1. /\ ~oprog.threads
      /\ \A d \in Scribes : scpc[d] \in {"read", "write", "V", "last V"} => inside = d
      /\ broken = FALSE => \A d \in Scribes : scpc[d] \in {"last V", "ended"} => offset[d] = total_size
  BY MutexTypes, Zenon DEF MutexInv
<1>2. ASSUME Fork PROVE MutexInv'
  <2>1. /\ forked \in Scribes /\ scpc' = [scpc EXCEPT ![forked] = "P"] /\ UNCHANGED <<inside, offset, buf, shown, broken>>
    BY <1>2 DEF Fork, FirstStep
  <2>2. scpc[forked] = "none"
    BY <1>0, <2>1, Programs DEF OutInv, NotYet
  <2>3. scpc' \in [Scribes -> MutexLabels] /\ \A d \in Scribes : scpc'[d] = IF d = forked THEN "P" ELSE scpc[d]
    BY <1>0, <2>1 DEF MutexLabels
  <2> QED
    BY <1>1, <2>1, <2>2, <2>3, MutexFrame
<1>3. ASSUME ForkFails PROVE MutexInv'
  <2>1. UNCHANGED <<scpc, inside, offset, buf, shown>> /\ broken' = TRUE
    BY <1>1, <1>3, Zenon DEF ForkFails
  <2> QED
    BY <1>0, <1>1, <2>1, MutexFrame
<1>4. ASSUME NEW c \in Scribes, P(c) PROVE MutexInv'
  <2>1. /\ scpc[c] = "P" /\ scpc' = [scpc EXCEPT ![c] = "read"] /\ inside = -1 /\ inside' = c
        /\ UNCHANGED <<offset, buf, shown, broken>>
    BY <1>4 DEF P, ScribeGoes
  <2>2. scpc' \in [Scribes -> MutexLabels] /\ \A d \in Scribes : scpc'[d] = IF d = c THEN "read" ELSE scpc[d]
    BY <1>0, <2>1 DEF MutexLabels
  <2> QED
    BY <1>0, <1>1, <2>1, <2>2, MutexFrame
<1>5. ASSUME NEW c \in Scribes, V(c) PROVE MutexInv'
  <2>1. PICK to \in {"P", "ended"} :
          /\ scpc[c] = (IF to = "P" THEN "V" ELSE "last V") /\ scpc' = [scpc EXCEPT ![c] = to]
    BY <1>5 DEF V, ScribeGoes
  <2>2. inside' = -1 /\ UNCHANGED <<offset, buf, shown, broken>>
    BY <1>5 DEF V
  <2>3. scpc' \in [Scribes -> MutexLabels] /\ \A d \in Scribes : scpc'[d] = IF d = c THEN to ELSE scpc[d]
    BY <1>0, <2>1 DEF MutexLabels
  <2>4. \A d \in Scribes : d # c => scpc[d] \notin {"read", "write", "V", "last V"}
    BY <1>1, <2>1
  <2> QED
    BY <1>1, <2>1, <2>2, <2>3, <2>4, MutexFrame
<1>6. ASSUME NEW c \in Scribes, ReadEnds(c) \/ ReadFails(c) PROVE MutexInv'
  <2>1. /\ scpc[c] = "read" /\ scpc' = [scpc EXCEPT ![c] = "last V"] /\ UNCHANGED <<inside, offset, buf, shown>>
        /\ (broken' = FALSE => broken = FALSE /\ offset[c] = total_size)
    BY <1>6 DEF ReadEnds, ReadFails, ScribeGoes, EndOfPart
  <2>2. scpc' \in [Scribes -> MutexLabels] /\ \A d \in Scribes : scpc'[d] = IF d = c THEN "last V" ELSE scpc[d]
    BY <1>0, <2>1 DEF MutexLabels
  <2> QED
    BY <1>1, <2>1, <2>2, MutexFrame
<1>7. ASSUME NEW c \in Scribes, KillScribe(c) PROVE MutexInv'
  <2>1. /\ scpc' = [scpc EXCEPT ![c] = "ended"] /\ broken' = TRUE /\ UNCHANGED <<offset, buf, shown>>
        /\ inside' = IF inside = c THEN -1 ELSE inside
    BY <1>7 DEF KillScribe
  <2>2. scpc' \in [Scribes -> MutexLabels] /\ \A d \in Scribes : scpc'[d] = IF d = c THEN "ended" ELSE scpc[d]
    BY <1>0, <2>1 DEF MutexLabels
  <2> QED
    BY <1>1, <2>1, <2>2, MutexFrame
<1> QED
  BY <1>2, <1>3, <1>4, <1>5, <1>6, <1>7

LEMMA MutexReadStep ==
  ASSUME OutInv, OutputNext, oprog.order = "mutex", NEW c \in Scribes, Read(c)
  PROVE  MutexInv'
<1>0. UNCHANGED <<oprog, total_size>> /\ Scribes' = Scribes
  BY Fixed
<1>1. /\ scpc[c] = "read" /\ scpc' = [scpc EXCEPT ![c] = "write"] /\ UNCHANGED <<inside, shown, broken>>
  BY DEF Read, ScribeGoes
<1>2. PICK n \in 1 .. Min({BLOCKS, EndOfPart(c) - offset[c]}) :
        /\ buf' = [buf EXCEPT ![c] = [k \in 1 .. n |-> offset[c] + k]]
        /\ offset' = [d \in Scribes |-> IF d = c \/ oprog.order = "mutex" THEN offset[c] + n ELSE offset[d]]
  BY DEF Read
<1>3. n \in Nat \ {0} /\ offset[c] \in Nat
  BY ReadFits
<1>4. /\ scpc \in [Scribes -> MutexLabels] /\ buf \in [Scribes -> Seq(1 .. total_size)]
      /\ offset[0] = offset[c] /\ 0 \in Scribes /\ MutexInv
      /\ \A d \in Scribes : scpc[d] \in {"read", "write", "V", "last V"} => inside = d
  BY MutexTypes DEF MutexInv
<1>5. scpc' \in [Scribes -> MutexLabels]
  BY <1>1, <1>4 DEF MutexLabels
<1>6. \A d \in Scribes : offset'[d] = offset[c] + n
  BY <1>2
<1>7. \A d \in Scribes : d # c => scpc'[d] = scpc[d] /\ scpc[d] \notin {"read", "write", "V", "last V"}
  BY <1>1, <1>4
<1>8. scpc'[c] = "write" /\ inside' = c
  BY <1>1, <1>4
<1>9. buf'[c] = [k \in 1 .. n |-> offset[c] + k]
  BY <1>2, <1>4
<1>10. Len(buf'[c]) = n /\ \A k \in 1 .. n : buf'[c][k] = offset[c] + k
  BY <1>3, <1>9
<1>11. Pos(c)' = offset[c]
  BY <1>3, <1>6, <1>8, <1>10 DEF Pos, Buffered
<1>12. InBuffer(c)'
  BY <1>10, <1>11 DEF InBuffer
<1>13. UpTo(shown, offset[c]) /\ (broken = FALSE => Whole(shown, offset[c]))
  BY <1>1, <1>4, <1>7 DEF MutexInv
<1>14. UpTo(shown, offset[c] + n)
  BY <1>3, <1>13, UpToGrows
<1>15. broken' = FALSE => \A d \in Scribes : scpc'[d] \in {"last V", "ended"} => offset'[d] = total_size'
  <2>1. offset[c] < total_size
    BY DEF Read, EndOfPart
  <2>2. offset[c] # total_size
    BY <1>3, <2>1
  <2>3. broken = FALSE => \A d \in Scribes : scpc[d] \in {"last V", "ended"} => offset[c] = total_size
    BY <1>4 DEF MutexInv
  <2> QED
    BY <1>1, <1>7, <1>8, <2>2, <2>3
<1>16. \A d \in Scribes : scpc'[d] = "write" => d = c
  BY <1>7
<1>17. /\ \A d \in Scribes : scpc'[d] \in {"read", "write", "V", "last V"} => inside' = d
       /\ \A d, e \in Scribes : offset'[d] = offset'[e]
  BY <1>6, <1>7, <1>8
<1>18. UpTo(shown, offset[0])'
  BY <1>1, <1>4, <1>6, <1>14
<1>19. \A d \in Scribes : scpc'[d] = "write" =>
         Pos(d)' \in Nat /\ InBuffer(d)' /\ UpTo(shown, Pos(d))' /\ (broken' = FALSE => Whole(shown, Pos(d))')
  BY <1>1, <1>3, <1>11, <1>12, <1>13, <1>16
<1> QED
  BY <1>0, <1>5, <1>8, <1>15, <1>17, <1>18, <1>19 DEF MutexInv

LEMMA MutexWriteStep ==
  ASSUME OutInv, OutputNext, oprog.order = "mutex", NEW c \in Scribes, Write(c)
  PROVE  MutexInv'
<1>0. UNCHANGED <<oprog, total_size>> /\ Scribes' = Scribes
  BY Fixed
<1>1. /\ scpc[c] = "write" /\ scpc' = [scpc EXCEPT ![c] = "V"] /\ UNCHANGED <<inside, offset, broken>>
      /\ shown' = shown \o buf[c]
  BY DEF Write, ScribeGoes
<1>2. /\ scpc \in [Scribes -> MutexLabels] /\ buf[c] \in Seq(1 .. total_size) /\ total_size \in Nat
      /\ offset[c] \in 0 .. total_size
      /\ offset[0] = offset[c] /\ 0 \in Scribes /\ MutexInv
      /\ \A d \in Scribes : scpc[d] \in {"read", "write", "V", "last V"} => inside = d
  BY MutexTypes DEF MutexInv
<1>3. scpc' \in [Scribes -> MutexLabels]
  BY <1>1, <1>2 DEF MutexLabels
<1>4. scpc'[c] = "V" /\ \A d \in Scribes : d # c => scpc'[d] = scpc[d] /\ scpc[d] # "write"
  BY <1>1, <1>2
<1>5. Pos(c) \in Nat /\ InBuffer(c) /\ UpTo(shown, Pos(c)) /\ (broken = FALSE => Whole(shown, Pos(c)))
  BY <1>1, <1>2 DEF MutexInv
<1>6. Pos(c) + Len(buf[c]) = offset[c]
  <2>1. buf[c] \in Seq(1 .. total_size) /\ offset[c] \in 0 .. total_size /\ total_size \in Nat
    BY MutexTypes
  <2>2. Len(buf[c]) \in Nat /\ offset[c] \in Nat
    BY <2>1
  <2>3. Pos(c) = offset[c] - Len(buf[c])
    BY <1>1 DEF Pos, Buffered
  <2> QED
    BY <2>2, <2>3
<1>7. UpTo(shown', offset[0]) /\ (broken = FALSE => Whole(shown', offset[0]))
  BY <1>1, <1>2, <1>5, <1>6, WriteExtends DEF InBuffer
<1>8. \A d \in Scribes : scpc'[d] # "write"
  BY <1>4
<1>9. /\ \A d \in Scribes : scpc'[d] \in {"read", "write", "V", "last V"} => inside' = d
      /\ \A d, e \in Scribes : offset'[d] = offset'[e]
      /\ broken' = FALSE => \A d \in Scribes : scpc'[d] \in {"last V", "ended"} => offset'[d] = total_size
  BY <1>1, <1>2, <1>4 DEF MutexInv
<1> QED
  BY <1>0, <1>1, <1>3, <1>7, <1>8, <1>9 DEF MutexInv

LEMMA MutexStep == ASSUME OutInv, OutputNext, oprog.order = "mutex" PROVE MutexInv'
<1>1. /\ ~alrm_handler
      /\ \A c \in Scribes : ~SemWaitChild(c) /\ ~OpenPart(c) /\ ~PostNext(c) /\ ~Turn(c)
  <2>1. ~oprog.threads /\ \A c \in Scribes : scpc[c] \in MutexLabels
    BY MutexTypes
  <2> QED
    BY <2>1 DEF alrm_handler, SemWaitChild, OpenPart, PostNext, Turn, ScribeGoes, MutexLabels
<1> QED
  BY <1>1, MutexQuietSteps, MutexReadStep, MutexWriteStep DEF OutputNext
-----------------------------------------------------------------------------
LEMMA OutputInitInv == ASSUME OutputInit PROVE OutInv
<1>0. /\ oprog \in OutputPrograms /\ total_size \in Sizes /\ CHILD_COUNT \in Nat \ {0} /\ total_size \in Nat
      /\ oprog.order \in {"chain", "mutex", "turn"}
  BY OutputAssumption, Zenon DEF OutputInit
<1>1. /\ Scribes = IF oprog.order = "mutex" THEN 0 .. CHILD_COUNT ELSE 0 .. CHILD_COUNT - 1
      /\ Scribes \subseteq Int /\ 0 \in Scribes
  BY <1>0 DEF Scribes
<1>2. /\ forked = 0 /\ scpc = [c \in Scribes |-> "none"]
      /\ gate = [c \in Scribes |-> IF c = 0 THEN 1 ELSE 0] /\ inside = -1
      /\ offset = [c \in Scribes |-> IF oprog.order = "chain" THEN ChunkStart(c) ELSE 0]
      /\ buf = [c \in Scribes |-> <<>>] /\ turn = 0 /\ shown = <<>> /\ broken = FALSE
  BY DEF OutputInit
<1>3. oprog.order = "chain" => \A c \in Scribes : /\ ChunkStart(c) \in 0 .. total_size /\ ChunkStart(0) = 0
                                                  /\ ChunkStart(c) <= ChunkEnd(c)
  BY <1>0, <1>1, Chunks
<1>4. UpTo(<<>>, 0) /\ Whole(<<>>, 0) /\ UpTo(<<>>, total_size)
  BY DEF UpTo, Whole
<1>5. OutTypes
  <2>1. offset \in [Scribes -> 0 .. total_size]
    BY <1>0, <1>2, <1>3
  <2>2. buf \in [Scribes -> Seq(1 .. total_size)]
    BY <1>2
  <2>3. scpc \in [Scribes -> ScribeLabels] /\ gate \in [Scribes -> 0 .. 1]
    BY <1>2 DEF ScribeLabels
  <2>4. forked \in -1 .. CHILD_COUNT + 1 /\ turn \in 0 .. CHILD_COUNT - 1 /\ inside \in Scribes \cup {-1}
    BY <1>0, <1>2
  <2> QED
    BY <1>0, <1>2, <2>1, <2>2, <2>3, <2>4, Zenon DEF OutTypes
<1>6. NotYet
  BY <1>2 DEF NotYet
<1>7. ASSUME oprog.order = "chain" PROVE ChainInv
  <2>1. \A d \in Scribes : Front(d) <=> d = 0
    BY <1>2 DEF Front
  <2>2. ChainAt(0)
    <3>1. offset[0] = 0 /\ Pos(0) = 0 /\ ChunkStart(0) = 0 /\ 0 <= ChunkEnd(0)
      BY <1>1, <1>2, <1>3, <1>7 DEF Pos, Buffered
    <3> QED
      BY <1>1, <1>2, <1>4, <1>7, <2>1, <3>1 DEF ChainAt
  <2>3. scpc \in [Scribes -> ChainLabels] /\ \A d \in Scribes : scpc[d] = "none"
    BY <1>2 DEF ChainLabels
  <2> QED
    BY <1>1, <1>2, <1>4, <2>1, <2>2, <2>3 DEF ChainInv
<1>8. ASSUME oprog.order = "mutex" PROVE MutexInv
  <2>1. scpc \in [Scribes -> MutexLabels] /\ \A d \in Scribes : scpc[d] = "none" /\ offset[d] = 0
    BY <1>2, <1>8 DEF MutexLabels
  <2> QED
    BY <1>1, <1>2, <1>4, <2>1 DEF MutexInv
<1>9. ASSUME oprog.order = "turn" PROVE TurnInv
  <2>1. 0 % CHILD_COUNT = 0
    BY <1>0
  <2> QED
    BY <1>1, <1>2, <2>1 DEF TurnInv, TurnLabels
<1> QED
  BY <1>5, <1>6, <1>7, <1>8, <1>9 DEF OutInv

LEMMA OutputStep == ASSUME OutInv, [OutputNext]_outputVars PROVE OutInv'
<1>1. CASE UNCHANGED outputVars
  <2> USE <1>1 DEF outputVars
  <2>1. Scribes' = Scribes
    BY DEF Scribes
  <2>2. \A d : Pos(d)' = Pos(d) /\ (InBuffer(d)' <=> InBuffer(d)) /\ (Front(d)' <=> Front(d))
    BY DEF Pos, Buffered, InBuffer, Front
  <2>3. \A d : ChunkStart(d)' = ChunkStart(d) /\ ChunkEnd(d)' = ChunkEnd(d)
    BY DEF ChunkStart, ChunkEnd, chunk_size
  <2>4. \A d : ChainAt(d) => ChainAt(d)'
    BY <2>1, <2>2, <2>3 DEF ChainAt
  <2>5. ChainInv => ChainInv'
    BY <2>1, <2>2, <2>4 DEF ChainInv
  <2>6. MutexInv => MutexInv'
    BY <2>1, <2>2 DEF MutexInv
  <2>7. TurnInv => TurnInv'
    BY <2>1 DEF TurnInv
  <2>8. OutTypes' /\ NotYet'
    BY <2>1, Zenon DEF OutInv, OutTypes, NotYet
  <2> QED
    BY <2>5, <2>6, <2>7, <2>8 DEF OutInv
<1>2. CASE OutputNext
  <2>1. UNCHANGED oprog
    BY <1>2, Fixed
  <2> QED
    BY <1>2, <2>1, TypesStep, NotYetStep, ChainStep, MutexStep, TurnStep DEF OutInv
<1> QED
  BY <1>1, <1>2

(* For any number of writers, sizes and reads, kills and failing calls     *)
(* included: the cats write blocks in the order of the file, the whole of  *)
(* it when nothing failed; the letters come in turn, and the thread whose  *)
(* turn it is never sleeps without being woken.                            *)
THEOREM OutputStaysOrdered == OutputSpec => []OutputInOrder
<1>1. OutInv => OutputInOrder
  <2> SUFFICES ASSUME OutInv PROVE OutputInOrder
    OBVIOUS
  <2>1. oprog.order \in {"chain", "mutex", "turn"} /\ 0 \in Scribes /\ total_size \in Nat
    BY Programs
  <2>2. ASSUME oprog.order # "turn"
        PROVE  /\ UpTo(shown, total_size)
               /\ broken = FALSE /\ (\A c \in Scribes : scpc[c] = "ended") => Whole(shown, total_size)
    <3>1. CASE oprog.order = "chain"
      <4>1. ChainInv
        BY <3>1 DEF OutInv
      <4>2. broken = FALSE /\ (\A c \in Scribes : scpc[c] = "ended") => \A d \in Scribes : ~Front(d)
        BY <4>1 DEF ChainInv, ChainAt, Front
      <4> QED
        BY <4>1, <4>2 DEF ChainInv
    <3>2. CASE oprog.order = "mutex"
      <4>1. MutexInv /\ offset[0] \in 0 .. total_size
        BY <3>2, MutexTypes
      <4>2. UpTo(shown, total_size)
        <5>1. UpTo(shown, offset[0])
          BY <4>1 DEF MutexInv
        <5>2. offset[0] \in 0 .. total_size /\ total_size \in Nat
          BY <2>1, <3>2, MutexTypes
        <5>3. offset[0] \in Int /\ total_size \in Int /\ offset[0] <= total_size
          BY <5>2
        <5> QED
          BY <5>1, <5>3, UpToGrows
      <4> QED
        BY <2>1, <4>1, <4>2 DEF MutexInv
    <3> QED
      BY <2>1, <2>2, <3>1, <3>2
  <2>3. ASSUME oprog.order # "turn"
        PROVE  /\ shown \in Seq(0 .. total_size)
               /\ \A j, k \in DOMAIN shown : j < k => shown[j] < shown[k]
               /\ broken = FALSE /\ (\A c \in Scribes : scpc[c] = "ended") => shown = [k \in 1 .. total_size |-> k]
    <3>1. shown \in Seq(1 .. total_size) /\ \A j, k \in DOMAIN shown : j < k => shown[j] < shown[k]
      BY <2>2, <2>3 DEF UpTo
    <3>2. shown \in Seq(0 .. total_size)
      BY <3>1, <2>1
    <3>3. Whole(shown, total_size) => shown = [k \in 1 .. total_size |-> k]
      BY <2>1, <3>1 DEF Whole
    <3> QED
      BY <2>2, <2>3, <3>1, <3>2, <3>3
  <2>4. ASSUME oprog.order = "turn"
        PROVE  /\ shown \in Seq(Scribes) /\ \A k \in DOMAIN shown : shown[k] = (k - 1) % CHILD_COUNT
               /\ scpc[turn] # "cond_wait"
    BY <2>4 DEF OutInv, TurnInv
  <2>5. OutputTypeOK
    BY <2>3, <2>4, Zenon DEF OutInv, OutTypes, OutputTypeOK, ScribeLabels
  <2>6. ~broken => broken = FALSE
    BY Zenon DEF OutInv, OutTypes
  <2> QED
    BY <2>3, <2>4, <2>5, <2>6, Zenon DEF OutputInOrder
<1> QED
  BY OutputInitInv, OutputStep, <1>1, PTL DEF OutputSpec
=============================================================================
