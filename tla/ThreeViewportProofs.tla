-------------------------- MODULE ThreeViewportProofs -------------------------
(***************************************************************************)
(* Proofs about ThreeViewport, for any list of assets, any capacities and  *)
(* any number of views.                                                    *)
(***************************************************************************)
EXTENDS ThreeViewport, TLAPS

-----------------------------------------------------------------------------
(* The ring buffer.                                                        *)

\* Within two laps the remainder is one subtraction.
LEMMA WrappedOnce ==
  ASSUME NEW i \in 0..(2 * RingCapacity - 1)
  PROVE  /\ Wrapped(i) = IF i < RingCapacity THEN i ELSE i - RingCapacity
         /\ Wrapped(i) \in Slots
<1>1. RingCapacity \in Nat \ {0}  BY RingAssumption
<1>2. CASE i < RingCapacity
  BY <1>1, <1>2, Z3 DEF Wrapped, Slots
<1>3. CASE i >= RingCapacity
  <2>1. (i - RingCapacity) \in 0..(RingCapacity - 1)  BY <1>1, <1>3
  <2>2. i = RingCapacity + (i - RingCapacity)  BY <1>1
  <2>3. i % RingCapacity = i - RingCapacity  BY <1>1, <2>1, <2>2, Z3
  <2> QED  BY <1>1, <1>3, <2>1, <2>3 DEF Wrapped, Slots
<1> QED  BY <1>1, <1>2, <1>3

\* The write position is one past the newest frame.
InStep(r) == r.tail = Wrapped(r.head + r.size)

LEMMA EmptyRingInStep == EmptyRing \in Ring /\ InStep(EmptyRing)
<1>1. RingCapacity \in Nat \ {0}  BY RingAssumption
<1>2. EmptyRing \in Ring  BY <1>1 DEF EmptyRing, Ring, Slots
<1>3. Wrapped(0) = 0  BY <1>1, WrappedOnce
<1> QED  BY <1>2, <1>3 DEF InStep, EmptyRing

\* What push does to the sequence of frames: one more at the end, and when the
\* ring was full the first one gone.
LEMMA PushAppends ==
  ASSUME NEW r \in Ring, InStep(r), NEW f \in Nat
  PROVE  /\ Push(r, f) \in Ring
         /\ InStep(Push(r, f))
         /\ Push(r, f).size = IF r.size = RingCapacity THEN r.size ELSE r.size + 1
         /\ FrameAt(Push(r, f), Push(r, f).size - 1) = f
         /\ \A i \in 0..(Push(r, f).size - 2) :
              FrameAt(Push(r, f), i) =
                FrameAt(r, IF r.size = RingCapacity THEN i + 1 ELSE i)
<1> DEFINE N == RingCapacity
           q == Push(r, f)
<1>1. N \in Nat \ {0}  BY RingAssumption
<1>2. /\ r.slots \in [Slots -> Nat] /\ r.head \in 0..(N - 1)
      /\ r.tail \in 0..(N - 1) /\ r.size \in 0..N
  BY DEF Ring, Slots
<1>3. \A i \in 0..(2 * N - 1) :
        Wrapped(i) = (IF i < N THEN i ELSE i - N) /\ Wrapped(i) \in 0..(N - 1)
  BY WrappedOnce DEF Slots
<1>4. /\ q.slots = [r.slots EXCEPT ![r.tail] = f]
      /\ q.head = IF r.size = N THEN Wrapped(r.head + 1) ELSE r.head
      /\ q.tail = Wrapped(r.tail + 1)
      /\ q.size = IF r.size = N THEN r.size ELSE r.size + 1
      /\ q = [slots |-> q.slots, head |-> q.head, tail |-> q.tail, size |-> q.size]
  BY DEF Push
<1>5. q \in Ring
  <2>1. q.slots \in [Slots -> Nat]  BY <1>2, <1>4
  <2>2. q.head \in Slots /\ q.tail \in Slots  BY <1>1, <1>2, <1>3, <1>4 DEF Slots
  <2>3. q.size \in 0..N  BY <1>1, <1>2, <1>4
  <2> HIDE DEF q
  <2> QED  BY <1>4, <2>1, <2>2, <2>3 DEF Ring
<1>6. r.tail = IF r.head + r.size < N THEN r.head + r.size ELSE r.head + r.size - N
  BY <1>1, <1>2, <1>3 DEF InStep
<1>7. q.tail = Wrapped(q.head + q.size)
  <2>1. CASE r.size = N
    <3>1. r.tail = r.head  BY <1>1, <1>2, <1>6, <2>1
    <3>2. q.tail = q.head /\ q.head \in 0..(N - 1) /\ q.size = N
      BY <1>1, <1>2, <1>3, <1>4, <2>1, <3>1
    <3> QED  BY <1>1, <1>3, <3>2
  <2>2. CASE r.size # N
    <3>1. q.head = r.head /\ q.size = r.size + 1 /\ q.tail = Wrapped(r.tail + 1)
      BY <1>4, <2>2
    <3>2. r.size + 1 <= N /\ r.tail + 1 \in 0..N  BY <1>1, <1>2, <2>2
    <3> QED  BY <1>1, <1>2, <1>3, <1>6, <3>1, <3>2
  <2> QED  BY <2>1, <2>2
<1>8. q.slots[r.tail] = f /\ \A k \in 0..(N - 1) : k # r.tail => q.slots[k] = r.slots[k]
  BY <1>2, <1>4 DEF Slots
<1>9. \A i \in 0..(N - 1) :
        /\ FrameAt(q, i) = q.slots[IF q.head + i < N THEN q.head + i ELSE q.head + i - N]
        /\ FrameAt(r, i) = r.slots[IF r.head + i < N THEN r.head + i ELSE r.head + i - N]
  <2>1. q.head \in 0..(N - 1)  BY <1>1, <1>2, <1>3, <1>4
  <2> HIDE DEF q
  <2> QED  BY <1>1, <1>2, <1>3, <2>1 DEF FrameAt
<1> HIDE DEF q
<1>10. CASE r.size = N
  <2>1. q.size = N /\ r.tail = r.head  BY <1>1, <1>2, <1>4, <1>6, <1>10
  <2>2. q.head = IF r.head + 1 < N THEN r.head + 1 ELSE r.head + 1 - N
    BY <1>1, <1>2, <1>3, <1>4, <1>10
  <2>3. FrameAt(q, N - 1) = f  BY <1>1, <1>2, <1>8, <1>9, <2>1, <2>2
  <2>4. ASSUME NEW i \in 0..(N - 2)  PROVE FrameAt(q, i) = FrameAt(r, i + 1)
    <3> DEFINE k == IF r.head + i + 1 < N THEN r.head + i + 1 ELSE r.head + i + 1 - N
    <3>1. k \in 0..(N - 1) /\ k # r.tail  BY <1>1, <1>2, <2>1
    <3>2. i \in 0..(N - 1) /\ i + 1 \in 0..(N - 1)  BY <1>1
    <3>3. FrameAt(q, i) = q.slots[k]  BY <1>1, <1>2, <1>9, <2>2, <3>2
    <3>4. FrameAt(r, i + 1) = r.slots[k]  BY <1>1, <1>2, <1>9, <3>2
    <3> QED  BY <1>8, <3>1, <3>3, <3>4
  <2> QED  BY <1>4, <1>5, <1>7, <1>10, <2>1, <2>3, <2>4 DEF q, InStep
<1>11. CASE r.size # N
  <2>1. q.size = r.size + 1 /\ q.head = r.head  BY <1>4, <1>11
  <2>2. FrameAt(q, r.size) = f
    <3>1. r.size \in 0..(N - 1)  BY <1>1, <1>2, <1>11
    <3>2. FrameAt(q, r.size) = q.slots[r.tail]  BY <1>6, <1>9, <2>1, <3>1
    <3> QED  BY <1>8, <3>2
  <2>3. ASSUME NEW i \in 0..(r.size - 1)  PROVE FrameAt(q, i) = FrameAt(r, i)
    <3> DEFINE k == IF r.head + i < N THEN r.head + i ELSE r.head + i - N
    <3>1. i \in 0..(N - 1)  BY <1>1, <1>2, <1>11
    <3>2. k \in 0..(N - 1) /\ k # r.tail  BY <1>1, <1>2, <1>6, <1>11
    <3>3. FrameAt(q, i) = q.slots[k] /\ FrameAt(r, i) = r.slots[k]  BY <1>9, <2>1, <3>1
    <3> QED  BY <1>8, <3>2, <3>3
  <2>4. q.size - 1 = r.size /\ q.size - 2 = r.size - 1  BY <1>2, <2>1
  <2> QED  BY <1>4, <1>5, <1>7, <1>11, <2>2, <2>3, <2>4 DEF q, InStep
<1> QED  BY <1>10, <1>11

\* Frames are in the order of their timestamps, none of them later than t.
Sorted(r) ==
  \A i, j \in 0..(r.size - 1) : i <= j => FrameAt(r, i) <= FrameAt(r, j)
Past(r, t) == \A i \in 0..(r.size - 1) : FrameAt(r, i) <= t

LEMMA FramesTyped ==
  ASSUME NEW r \in Ring, NEW i \in 0..(RingCapacity - 1)
  PROVE  FrameAt(r, i) \in Nat
<1>1. RingCapacity \in Nat \ {0}  BY RingAssumption
<1>2. r.head \in 0..(RingCapacity - 1) /\ r.slots \in [Slots -> Nat]  BY DEF Ring, Slots
<1>3. Wrapped(r.head + i) \in Slots  BY <1>1, <1>2, WrappedOnce
<1> QED  BY <1>2, <1>3 DEF FrameAt

LEMMA PushSorts ==
  ASSUME NEW r \in Ring, InStep(r), Sorted(r), NEW f \in Nat, Past(r, f)
  PROVE  Sorted(Push(r, f)) /\ Past(Push(r, f), f)
<1> DEFINE N == RingCapacity
           q == Push(r, f)
           k(i) == IF r.size = N THEN i + 1 ELSE i
<1>1. N \in Nat \ {0} /\ r.size \in 0..N  BY RingAssumption DEF Ring
<1>2. /\ q.size = IF r.size = N THEN r.size ELSE r.size + 1
      /\ FrameAt(q, q.size - 1) = f
      /\ \A i \in 0..(q.size - 2) : FrameAt(q, i) = FrameAt(r, k(i))
  BY PushAppends
<1> HIDE DEF q
<1>3. \A i \in 0..(q.size - 2) : k(i) \in 0..(r.size - 1)  BY <1>1, <1>2
<1>4. \A i \in 0..(q.size - 1) : FrameAt(q, i) <= f  BY <1>1, <1>2, <1>3 DEF Past
<1>5. ASSUME NEW i \in 0..(q.size - 1), NEW j \in 0..(q.size - 1), i <= j
      PROVE  FrameAt(q, i) <= FrameAt(q, j)
  <2>1. CASE j = q.size - 1  BY <1>2, <1>4, <2>1
  <2>2. CASE j # q.size - 1
    <3>1. i \in 0..(q.size - 2) /\ j \in 0..(q.size - 2)  BY <1>1, <1>2, <1>5, <2>2
    <3>2. k(i) <= k(j)  BY <1>1, <1>5, <3>1
    <3> QED  BY <1>2, <1>3, <3>1, <3>2 DEF Sorted
  <2> QED  BY <2>1, <2>2
<1> QED  BY <1>4, <1>5 DEF q, Sorted, Past

\* A new frame never takes back what is shown for a given time.
LEMMA PushForward ==
  ASSUME NEW r \in Ring, InStep(r), Sorted(r), NEW f \in Nat, Past(r, f),
         NEW t \in Int, r.size # 0
  PROVE  Interpolate(r, t) <= Interpolate(Push(r, f), t)
<1> DEFINE N == RingCapacity
           q == Push(r, f)
<1>1. N \in Nat \ {0} /\ r.size \in 1..N  BY RingAssumption DEF Ring
<1>2. /\ q \in Ring
      /\ q.size = IF r.size = N THEN r.size ELSE r.size + 1
      /\ FrameAt(q, q.size - 1) = f
      /\ \A i \in 0..(q.size - 2) :
           FrameAt(q, i) = FrameAt(r, IF r.size = N THEN i + 1 ELSE i)
  BY PushAppends
<1> HIDE DEF q
<1>3. First(r) \in Nat /\ Last(r) \in Nat /\ First(q) \in Nat /\ Last(q) \in Nat
  BY <1>1, <1>2, FramesTyped DEF First, Last
<1>4. Last(q) = f /\ Last(r) <= f  BY <1>1, <1>2 DEF Last, Past
<1>5. First(r) <= First(q)
  <2>1. CASE q.size = 1
    <3>1. First(q) = f  BY <1>2, <2>1 DEF First
    <3> QED  BY <1>1, <3>1 DEF First, Past
  <2>2. CASE q.size # 1
    <3>1. 0 \in 0..(q.size - 2)  BY <1>1, <1>2, <2>2
    <3>2. First(q) = FrameAt(r, IF r.size = N THEN 1 ELSE 0)  BY <1>1, <1>2, <3>1 DEF First
    <3>3. CASE r.size = N
      <4>1. 1 \in 0..(r.size - 1)  BY <1>1, <1>2, <2>2, <3>3
      <4> QED  BY <1>1, <3>2, <3>3, <4>1 DEF First, Sorted
    <3>4. CASE r.size # N
      <4>1. First(q) = First(r)  BY <3>2, <3>4 DEF First
      <4> QED  BY <1>3, <4>1
    <3> QED  BY <3>3, <3>4
  <2> QED  BY <2>1, <2>2
<1>6. First(q) <= Last(q) /\ First(r) <= Last(r)
  <2>1. Sorted(q)  BY PushSorts DEF q
  <2> QED  BY <1>1, <1>2, <2>1 DEF Sorted, First, Last
<1> QED  BY <1>3, <1>4, <1>5, <1>6 DEF q, Interpolate

-----------------------------------------------------------------------------
(* The cache.                                                              *)

Distinct(cache) ==
  \A i, j \in 1..Len(cache) : cache[i] = cache[j] => i = j

LEMMA OthersShrinks ==
  ASSUME NEW cache \in Seq(Assets), Distinct(cache), NEW a \in Assets
  PROVE  /\ Others(cache, a) \in Seq(Assets)
         /\ Len(Others(cache, a)) = IF Cached(cache, a) THEN Len(cache) - 1 ELSE Len(cache)
         /\ Distinct(Others(cache, a))
         /\ \A i \in 1..Len(Others(cache, a)) : Others(cache, a)[i] # a
<1>1. CASE ~ Cached(cache, a)  BY <1>1 DEF Others, Cached
<1>2. CASE Cached(cache, a)
  <2> DEFINE p == Place(cache, a)
             n == Len(cache)
             k(i) == IF i < p THEN i ELSE i + 1
             rest == [i \in 1..(n - 1) |-> cache[k(i)]]
  <2>1. p \in 1..n /\ cache[p] = a  BY <1>2 DEF Cached, Place
  <2>2. n \in Nat \ {0}  BY <2>1
  <2>3. Others(cache, a) = rest  BY <1>2 DEF Others
  <2> HIDE DEF p
  <2>4. \A i \in 1..(n - 1) : k(i) \in 1..n /\ k(i) # p  BY <2>1, <2>2
  <2>5. rest \in Seq(Assets) /\ Len(rest) = n - 1  BY <2>2, <2>4
  <2>6. \A i \in 1..(n - 1) : rest[i] # a  BY <2>1, <2>4 DEF Distinct
  <2>7. ASSUME NEW i \in 1..(n - 1), NEW j \in 1..(n - 1), rest[i] = rest[j]  PROVE i = j
    <3>1. k(i) = k(j)  BY <2>4, <2>7 DEF Distinct
    <3> QED  BY <2>1, <2>2, <3>1
  <2> QED  BY <1>2, <2>3, <2>5, <2>6, <2>7 DEF Distinct
<1> QED  BY <1>1, <1>2

LEMMA AppendDistinct ==
  ASSUME NEW s \in Seq(Assets), Distinct(s), NEW a \in Assets,
         \A i \in 1..Len(s) : s[i] # a
  PROVE  /\ Append(s, a) \in Seq(Assets)
         /\ Len(Append(s, a)) = Len(s) + 1
         /\ Distinct(Append(s, a))
BY DEF Distinct

\* A hit moves an entry and a miss adds one, and neither exceeds the capacity.
LEMMA TouchFits ==
  ASSUME NEW cache \in Seq(Assets), Distinct(cache), NEW a \in Assets, Cached(cache, a)
  PROVE  LET s == Append(Others(cache, a), a) IN
         s \in Seq(Assets) /\ Len(s) = Len(cache) /\ Distinct(s)
<1>1. Len(cache) \in Nat \ {0}  BY DEF Cached
<1> QED  BY <1>1, OthersShrinks, AppendDistinct

LEMMA PutFits ==
  ASSUME NEW cache \in Seq(Assets), Distinct(cache), NEW a \in Assets,
         Len(cache) <= CacheCapacity
  PROVE  /\ PutCache(cache, a) \in Seq(Assets)
         /\ Len(PutCache(cache, a)) <= CacheCapacity
         /\ Distinct(PutCache(cache, a))
         /\ cache = <<>> => Len(PutCache(cache, a)) = 1
<1>1. CacheCapacity \in Nat \ {0} /\ Len(cache) \in Nat  BY ViewportAssumption
<1>2. CASE ~ Cached(cache, a) /\ Len(cache) >= CacheCapacity
  <2> DEFINE t == Tail(cache)
  <2>1. /\ t \in Seq(Assets) /\ Len(t) = Len(cache) - 1
        /\ \A i \in 1..(Len(cache) - 1) : t[i] = cache[i + 1]
    BY <1>1, <1>2
  <2>2. PutCache(cache, a) = Append(t, a)  BY <1>2 DEF PutCache
  <2> HIDE DEF t
  <2>3. Distinct(t)  BY <1>1, <2>1 DEF Distinct
  <2>4. \A i \in 1..Len(t) : t[i] # a  BY <1>1, <1>2, <2>1 DEF Cached
  <2>5. /\ Append(t, a) \in Seq(Assets)
        /\ Len(Append(t, a)) = Len(t) + 1
        /\ Distinct(Append(t, a))
    BY <2>1, <2>3, <2>4, AppendDistinct
  <2>6. cache # <<>>  BY <1>1, <1>2
  <2> QED  BY <1>1, <2>1, <2>2, <2>5, <2>6
<1>3. CASE ~ (~ Cached(cache, a) /\ Len(cache) >= CacheCapacity)
  <2>1. PutCache(cache, a) = Append(Others(cache, a), a)  BY <1>3 DEF PutCache
  <2> DEFINE o == Others(cache, a)
  <2>2. /\ o \in Seq(Assets) /\ Distinct(o)
        /\ Len(o) = IF Cached(cache, a) THEN Len(cache) - 1 ELSE Len(cache)
        /\ \A i \in 1..Len(o) : o[i] # a
    BY OthersShrinks
  <2> HIDE DEF o
  <2>3. Len(o) <= CacheCapacity - 1  BY <1>1, <1>3, <2>2
  <2>4. cache = <<>> => Len(o) = 0
    <3>1. cache = <<>> => Len(cache) = 0  OBVIOUS
    <3>2. Cached(cache, a) => Len(cache) # 0  BY <1>1 DEF Cached
    <3> QED  BY <2>2, <3>1, <3>2
  <2>5. /\ Append(o, a) \in Seq(Assets)
        /\ Len(Append(o, a)) = Len(o) + 1
        /\ Distinct(Append(o, a))
    BY <2>2, AppendDistinct
  <2>6. Len(o) \in Nat  BY <2>2
  <2> QED  BY <1>1, <2>1, <2>3, <2>4, <2>5, <2>6 DEF o
<1> QED  BY <1>2, <1>3

-----------------------------------------------------------------------------
(* One view.                                                               *)

Down(c) ==
  ~ c.raf /\ ~ c.simRaf /\ ~ c.linked /\ ~ c.observing /\ c.nodes = Empty

\* Objects are red only once they have been mounted, so an object that arrives is
\* not red; a scene whose view is gone has nothing; the cache of a view that is
\* gone is empty while its loader still waits for the model that was on its way.
Sound(c) ==
  /\ c.red \subseteq 1..c.taken
  /\ \A a \in Assets : c.nodes[a] \in 0..c.taken
  /\ \A a \in Assets : c.nodes[a] # NoObject => (c.nodes[a] \in c.red <=> c.estop)
  /\ c.loader \in {"fetching", "loaded"} => c.taken < Len(DefaultAssets)
  /\ c.phase \in {"none", "broken"} => c.loader \in {"idle", "done"}
  /\ c.phase \in {"none", "disposed"} => Down(c)
  /\ Distinct(c.cache)
  /\ Len(c.cache) <= CacheCapacity
  /\ c.phase = "disposed" => Len(c.cache) <= 1
  /\ c.phase = "disposed" /\ c.loader = "fetching" => c.cache = <<>>

LEMMA ListFacts ==
  /\ Len(DefaultAssets) \in Nat
  /\ \A i \in 1..Len(DefaultAssets) : DefaultAssets[i] \in Assets
  /\ Objects = 1..Len(DefaultAssets)
BY ViewportAssumption DEF Objects

LEMMA UnbornSound == Unborn \in View /\ Sound(Unborn)
<1>1. Empty \in [Assets -> Objects \cup {NoObject}]  BY DEF Empty
<1>2. <<>> \in Seq(Assets) /\ Len(<<>>) = 0  OBVIOUS
<1>3. 0 \in 0..Len(DefaultAssets)  BY ListFacts
<1>4. Unborn \in View  BY <1>1, <1>2, <1>3 DEF Unborn, View
<1>5. Distinct(<<>>)  BY DEF Distinct
<1>6. Down(Unborn)  BY DEF Unborn, Down
<1>7. \A a \in Assets : Empty[a] = 0  BY DEF Empty, NoObject
<1> QED
  BY <1>2, <1>4, <1>5, <1>6, <1>7, ViewportAssumption DEF Sound, Unborn, NoObject

LEMMA MountedFacts ==
  ASSUME NEW c \in View, Sound(c)
  PROVE  /\ Mounted(c) \subseteq Objects
         /\ Mounted(c) \subseteq 1..c.taken
         /\ \A a \in Assets : c.nodes[a] # NoObject => c.nodes[a] \in Mounted(c)
BY ListFacts DEF Mounted, View, Sound, NoObject

\* A call of applySafetyVisualState.
LEMMA SafetyStateSound ==
  ASSUME NEW c \in View, Sound(c), c.phase \notin {"none", "disposed"}, NEW e \in BOOLEAN
  PROVE  /\ SafetyState(c, e) \in View
         /\ Sound(SafetyState(c, e))
         /\ SafetyState(c, e).phase = c.phase
         /\ SafetyState(c, e).estop = e
         /\ SafetyState(c, e).told = c.told
<1> DEFINE d == SafetyState(c, e)
           r == IF e THEN c.red \cup Mounted(c) ELSE c.red \ Mounted(c)
<1>1. d = [c EXCEPT !.estop = e, !.red = r]  BY DEF SafetyState
<1>2. r \subseteq Objects /\ r \subseteq 1..c.taken
  BY MountedFacts DEF View, Sound
<1>3. \A a \in Assets : c.nodes[a] # NoObject => (c.nodes[a] \in r <=> e)
  BY MountedFacts
<1> HIDE DEF r
<1>4. d \in View  BY <1>1, <1>2 DEF View
<1>5. /\ d.phase = c.phase /\ d.estop = e /\ d.red = r /\ d.nodes = c.nodes
      /\ d.taken = c.taken /\ d.loader = c.loader /\ d.cache = c.cache
      /\ d.told = c.told
  BY <1>1 DEF View
<1> HIDE DEF d
<1>6. Sound(d)  BY <1>2, <1>3, <1>5 DEF Sound
<1> QED  BY <1>4, <1>5, <1>6 DEF d

LEMMA PromptSound ==
  ASSUME NEW c \in View, Sound(c), NEW e \in BOOLEAN
  PROVE  /\ Prompt(c, e) \in View
         /\ Sound(Prompt(c, e))
         /\ Prompt(c, e).phase = c.phase
         /\ c.phase = "live" => Heard(Prompt(c, e), e)
<1>1. CASE c.phase = "live"
  <2> DEFINE b == SafetyState(c, e)
             d == [b EXCEPT !.told = "button"]
  <2>1. b \in View /\ Sound(b) /\ b.phase = c.phase /\ b.estop = e
    BY <1>1, SafetyStateSound
  <2>2. Prompt(c, e) = d  BY <1>1 DEF Prompt
  <2> HIDE DEF b
  <2>3. /\ d \in View /\ d.phase = b.phase /\ d.estop = b.estop /\ d.red = b.red
        /\ d.nodes = b.nodes /\ d.taken = b.taken /\ d.loader = b.loader
        /\ d.cache = b.cache /\ d.told = "button"
    BY <2>1 DEF View
  <2>4. Down(b) => Down(d)  BY <2>1 DEF View, Down
  <2> HIDE DEF d
  <2>5. Sound(d)  BY <2>1, <2>3, <2>4 DEF Sound
  <2> QED  BY <2>1, <2>2, <2>3, <2>5 DEF Heard
<1>2. CASE c.phase # "live"  BY <1>2 DEF Prompt
<1> QED  BY <1>1, <1>2

\* The step of the loader that starts with the next asset.
LEMMA LoadNextSound ==
  ASSUME NEW c \in View, Sound(c), c.phase = "live"
  PROVE  /\ LoadNext(c) \in View
         /\ Sound(LoadNext(c))
         /\ LoadNext(c).phase = c.phase
         /\ LoadNext(c).estop = c.estop
         /\ LoadNext(c).told = c.told
<1> DEFINE a == DefaultAssets[c.taken + 1]
           s == Append(Others(c.cache, a), a)
<1>1. c.taken \in 0..Len(DefaultAssets) /\ c.cache \in Seq(Assets) /\ Distinct(c.cache)
  BY DEF View, Sound
<1>2. CASE c.taken = Len(DefaultAssets)
  <2> DEFINE d == [c EXCEPT !.loader = "done", !.observing = TRUE]
  <2>1. LoadNext(c) = d  BY <1>2 DEF LoadNext
  <2>2. d \in View  BY DEF View
  <2>3. /\ d.phase = c.phase /\ d.estop = c.estop /\ d.red = c.red /\ d.nodes = c.nodes
        /\ d.taken = c.taken /\ d.loader = "done" /\ d.cache = c.cache
        /\ d.told = c.told
    BY DEF View
  <2> HIDE DEF d
  <2>4. Sound(d)  BY <2>3 DEF Sound
  <2> QED  BY <2>1, <2>2, <2>3, <2>4
<1>3. CASE c.taken # Len(DefaultAssets)
  <2>1. c.taken < Len(DefaultAssets) /\ a \in Assets  BY <1>1, <1>3, ListFacts
  <2>2. CASE Cached(c.cache, a)
    <3>1. s \in Seq(Assets) /\ Len(s) = Len(c.cache) /\ Distinct(s)
      BY <1>1, <2>1, <2>2, TouchFits
    <3> HIDE DEF s
    <3> DEFINE d == [c EXCEPT !.cache = s, !.loader = "loaded"]
    <3>2. LoadNext(c) = d  BY <1>3, <2>2 DEF LoadNext, s
    <3>3. d \in View  BY <3>1 DEF View
    <3>4. /\ d.phase = c.phase /\ d.estop = c.estop /\ d.red = c.red /\ d.nodes = c.nodes
          /\ d.taken = c.taken /\ d.loader = "loaded" /\ d.cache = s
          /\ d.told = c.told
      BY DEF View
    <3> HIDE DEF d
    <3>5. Sound(d)  BY <2>1, <3>1, <3>4 DEF Sound
    <3> QED  BY <3>2, <3>3, <3>4, <3>5
  <2>3. CASE ~ Cached(c.cache, a)
    <3> DEFINE d == [c EXCEPT !.loader = "fetching"]
    <3>1. LoadNext(c) = d  BY <1>3, <2>3 DEF LoadNext
    <3>2. d \in View  BY DEF View
    <3>3. /\ d.phase = c.phase /\ d.estop = c.estop /\ d.red = c.red /\ d.nodes = c.nodes
          /\ d.taken = c.taken /\ d.loader = "fetching" /\ d.cache = c.cache
          /\ d.told = c.told
      BY DEF View
    <3> HIDE DEF d
    <3>4. Sound(d)  BY <2>1, <3>3 DEF Sound
    <3> QED  BY <3>1, <3>2, <3>3, <3>4
  <2> QED  BY <2>2, <2>3
<1> QED  BY <1>2, <1>3

LEMMA DisposedSound ==
  ASSUME NEW c \in View, Sound(c)
  PROVE  /\ Disposed(c) \in View
         /\ Sound(Disposed(c))
         /\ Disposed(c).phase = "disposed"
<1>1. Empty \in [Assets -> Objects \cup {NoObject}]  BY DEF Empty
<1>2. <<>> \in Seq(Assets) /\ Len(<<>>) = 0 /\ Distinct(<<>>)  BY DEF Distinct
<1> DEFINE d == Disposed(c)
<1>3. /\ d.phase = "disposed" /\ d.red = {} /\ d.nodes = Empty /\ d.taken = c.taken
      /\ d.loader = c.loader /\ d.cache = <<>> /\ Down(d)
  BY DEF Disposed, Unborn, Down
<1>4. d \in View  BY <1>1, <1>2 DEF Disposed, Unborn, View
<1> HIDE DEF d
<1>5. \A a \in Assets : Empty[a] = 0  BY DEF Empty, NoObject
<1>6. c.taken \in Nat  BY ListFacts DEF View
<1>7. c.loader \in {"fetching", "loaded"} => c.taken < Len(DefaultAssets)  BY DEF Sound
<1>8. Sound(d)
  BY <1>2, <1>3, <1>5, <1>6, <1>7, ViewportAssumption DEF Sound, NoObject
<1> QED  BY <1>3, <1>4, <1>8 DEF d

LEMMA StartedSound ==
  ASSUME NEW o \in Outcome
  PROVE  /\ Started(o) \in View
         /\ Sound(Started(o))
         /\ Started(o).phase \in {"live", "broken"}
         /\ Started(o).told = "nobody" /\ ~ Started(o).estop
<1>1. Empty \in [Assets -> Objects \cup {NoObject}] /\ \A a \in Assets : Empty[a] = 0
  BY DEF Empty, NoObject
<1>2. <<>> \in Seq(Assets) /\ Len(<<>>) = 0 /\ Distinct(<<>>)  BY DEF Distinct
<1>3. 0 \in 0..Len(DefaultAssets)  BY ListFacts
<1>4. CASE o = "no_webgl"
  <2> DEFINE d == [Unborn EXCEPT !.phase = "broken", !.loader = "done"]
  <2>1. d \in View  BY <1>1, <1>2, <1>3 DEF Unborn, View
  <2>2. /\ d.phase = "broken" /\ d.red = {} /\ d.nodes = Empty /\ d.taken = 0
        /\ d.loader = "done" /\ d.cache = <<>> /\ d.told = "nobody" /\ d.estop = FALSE
    BY DEF Unborn
  <2>3. Started(o) = d  BY <1>4 DEF Started
  <2> HIDE DEF d
  <2>4. Sound(d)  BY <1>1, <1>2, <2>2, ViewportAssumption DEF Sound, NoObject
  <2> QED  BY <2>1, <2>2, <2>3, <2>4
<1>5. CASE o = "no_url"
  <2> DEFINE d == [Unborn EXCEPT !.phase = "live", !.loader = "done"]
  <2>1. d \in View  BY <1>1, <1>2, <1>3 DEF Unborn, View
  <2>2. /\ d.phase = "live" /\ d.red = {} /\ d.nodes = Empty /\ d.taken = 0
        /\ d.loader = "done" /\ d.cache = <<>> /\ d.told = "nobody" /\ d.estop = FALSE
    BY DEF Unborn
  <2>3. Started(o) = d  BY <1>5 DEF Started
  <2> HIDE DEF d
  <2>4. Sound(d)  BY <1>1, <1>2, <2>2, ViewportAssumption DEF Sound, NoObject
  <2> QED  BY <2>1, <2>2, <2>3, <2>4
<1>6. CASE o = "ok"
  <2> DEFINE d == [Unborn EXCEPT !.phase = "live", !.linked = TRUE, !.raf = TRUE]
  <2>1. d \in View  BY <1>1, <1>2, <1>3 DEF Unborn, View
  <2>2. /\ d.phase = "live" /\ d.red = {} /\ d.nodes = Empty /\ d.taken = 0
        /\ d.loader = "idle" /\ d.cache = <<>> /\ d.told = "nobody" /\ d.estop = FALSE
    BY DEF Unborn
  <2>3. Started(o) = LoadNext(d)  BY <1>6 DEF Started
  <2> HIDE DEF d
  <2>4. Sound(d)  BY <1>1, <1>2, <2>2, ViewportAssumption DEF Sound, NoObject
  <2> QED  BY <2>1, <2>2, <2>3, <2>4, LoadNextSound
<1> QED  BY <1>4, <1>5, <1>6 DEF Outcome

LEMMA MountAssetSound ==
  ASSUME NEW c \in View, Sound(c), c.loader = "loaded", c.phase = "live"
  PROVE  LET d == [MountAsset(c) EXCEPT !.loader = "mounted"] IN
         /\ d \in View /\ Sound(d) /\ d.phase = c.phase
         /\ d.estop = c.estop /\ d.told = c.told
<1> DEFINE a == DefaultAssets[c.taken + 1]
           n == [c.nodes EXCEPT ![a] = c.taken + 1]
           m == [c EXCEPT !.nodes[a] = c.taken + 1, !.taken = @ + 1]
<1>1. /\ c.taken \in Nat /\ c.taken < Len(DefaultAssets) /\ a \in Assets
      /\ c.taken + 1 \in Objects /\ c.taken + 1 \in 0..Len(DefaultAssets)
  BY ListFacts DEF View, Sound
<1> HIDE DEF a
<1>2. n \in [Assets -> Objects \cup {NoObject}]  BY <1>1 DEF View
<1>3. /\ m.nodes = n /\ m.taken = c.taken + 1 /\ m.red = c.red /\ m.estop = c.estop
      /\ m.phase = c.phase /\ m.loader = c.loader /\ m.cache = c.cache
      /\ m.told = c.told
  BY DEF View
<1>4. m \in View  BY <1>1, <1>2 DEF View
<1>5. \A b \in Assets : n[b] \in 0..(c.taken + 1)  BY <1>1 DEF View, Sound
<1>6. c.red \subseteq 1..(c.taken + 1) /\ c.taken + 1 \notin c.red
  BY <1>1 DEF Sound
<1>7. MountAsset(c) = IF c.estop THEN SafetyState(m, TRUE) ELSE m  BY DEF MountAsset, a
<1> DEFINE r == IF c.estop THEN c.red \cup Mounted(m) ELSE c.red
           d == [MountAsset(c) EXCEPT !.loader = "mounted"]
<1>8. Mounted(m) \subseteq 1..(c.taken + 1) /\ Mounted(m) \subseteq Objects
  BY <1>1, <1>3, <1>5, ListFacts DEF Mounted
<1>9. r \subseteq 1..(c.taken + 1) /\ r \subseteq Objects  BY <1>6, <1>8 DEF View
<1> HIDE DEF m, n
<1>10. \A b \in Assets : n[b] # NoObject => (n[b] \in r <=> c.estop)
  <2>1. ASSUME NEW b \in Assets, n[b] # NoObject, c.estop  PROVE n[b] \in r
    <3>1. n[b] \in Objects  BY <1>2, <2>1
    <3>2. n[b] \in Mounted(m)  BY <1>3, <2>1, <3>1 DEF Mounted
    <3> QED  BY <2>1, <3>2
  <2>2. ASSUME NEW b \in Assets, n[b] # NoObject, ~ c.estop  PROVE n[b] \notin r
    <3>1. CASE b = a
      <4>1. n[b] = c.taken + 1  BY <1>1, <3>1 DEF n, View
      <4> QED  BY <1>6, <2>2, <4>1
    <3>2. CASE b # a
      <4>1. n[b] = c.nodes[b]  BY <3>2 DEF n, View
      <4> QED  BY <2>2, <4>1 DEF Sound
    <3> QED  BY <3>1, <3>2
  <2> QED  BY <2>1, <2>2
<1> HIDE DEF r
<1>11. /\ d \in View /\ d.nodes = n /\ d.taken = c.taken + 1 /\ d.red = r
       /\ d.estop = c.estop /\ d.phase = c.phase /\ d.loader = "mounted"
       /\ d.cache = c.cache /\ d.told = c.told
  <2>1. CASE c.estop
    <3>1. MountAsset(c) = [m EXCEPT !.estop = TRUE, !.red = r]
      BY <1>3, <1>7, <2>1 DEF SafetyState, r
    <3>2. c.estop = TRUE  BY <2>1 DEF View
    <3> QED  BY <1>3, <1>4, <1>9, <3>1, <3>2 DEF View
  <2>2. CASE ~ c.estop
    <3>1. MountAsset(c) = m /\ r = c.red  BY <1>7, <2>2 DEF r
    <3> QED  BY <1>3, <1>4, <3>1 DEF View
  <2> QED  BY <2>1, <2>2
<1> HIDE DEF d
<1>12. Sound(d)  BY <1>5, <1>9, <1>10, <1>11 DEF Sound
<1> QED  BY <1>11, <1>12 DEF d

\* A step of the loader changes neither what the view is nor what it has heard.
LEMMA LoaderSound ==
  ASSUME TypeOK, \A w \in Views : Sound(view[w]), NEW v \in Views, Loader(v)
  PROVE  \E d \in View : /\ Step(v, d) /\ Sound(d) /\ d.phase = view[v].phase
                         /\ d.estop = view[v].estop /\ d.told = view[v].told
<1> DEFINE c == view[v]
<1>1. c \in View /\ Sound(c)  BY DEF TypeOK
<1>2. c.phase \in {"none", "broken"} => c.loader \notin {"fetching", "loaded", "mounted"}
  BY <1>1 DEF Sound
<1>3. CASE FetchSucceeds(v)
  <2> DEFINE a == DefaultAssets[c.taken + 1]
             s == PutCache(c.cache, a)
             d == [c EXCEPT !.loader = "loaded", !.cache = s]
  <2>1. c.loader = "fetching" /\ Step(v, d)  BY <1>3 DEF FetchSucceeds
  <2>2. /\ c.taken \in Nat /\ c.taken < Len(DefaultAssets) /\ a \in Assets
    BY <1>1, <2>1, ListFacts DEF View, Sound
  <2>3. s \in Seq(Assets) /\ Len(s) <= CacheCapacity /\ Distinct(s)
        /\ (c.cache = <<>> => Len(s) = 1)
    BY <1>1, <2>2, PutFits DEF View, Sound
  <2> HIDE DEF s
  <2>4. d \in View  BY <1>1, <2>3 DEF View
  <2>5. /\ d.phase = c.phase /\ d.estop = c.estop /\ d.red = c.red /\ d.nodes = c.nodes
        /\ d.taken = c.taken /\ d.loader = "loaded" /\ d.cache = s
        /\ d.told = c.told
    BY <1>1 DEF View
  <2>6. c.phase = "disposed" => Len(s) <= 1
    <3>1. c.phase = "disposed" => c.cache = <<>>  BY <1>1, <2>1 DEF Sound
    <3>2. Len(s) = 1 => Len(s) <= 1  OBVIOUS
    <3> QED  BY <2>3, <3>1, <3>2
  <2>7. Down(c) => Down(d)  BY <1>1 DEF View, Down
  <2> HIDE DEF d
  <2>8. Sound(d)  BY <1>1, <1>2, <2>1, <2>2, <2>3, <2>5, <2>6, <2>7 DEF Sound
  <2> QED  BY <2>1, <2>4, <2>5, <2>8
<1>4. CASE FetchFails(v)
  <2> DEFINE d == [c EXCEPT !.loader = "loaded"]
  <2>1. c.loader = "fetching" /\ Step(v, d)  BY <1>4 DEF FetchFails
  <2>2. d \in View  BY <1>1 DEF View
  <2>3. /\ d.phase = c.phase /\ d.estop = c.estop /\ d.red = c.red /\ d.nodes = c.nodes
        /\ d.taken = c.taken /\ d.loader = "loaded" /\ d.cache = c.cache
        /\ d.told = c.told
    BY <1>1 DEF View
  <2>4. Down(c) => Down(d)  BY <1>1 DEF View, Down
  <2> HIDE DEF d
  <2>5. Sound(d)  BY <1>1, <1>2, <2>1, <2>3, <2>4 DEF Sound
  <2> QED  BY <2>1, <2>2, <2>3, <2>5
<1>5. CASE MountLoaded(v)
  <2>1. CASE c.phase = "live"
    <3> DEFINE d == [MountAsset(c) EXCEPT !.loader = "mounted"]
    <3>1. c.loader = "loaded" /\ Step(v, d)  BY <1>5, <2>1 DEF MountLoaded
    <3> HIDE DEF d
    <3>2. /\ d \in View /\ Sound(d) /\ d.phase = c.phase
          /\ d.estop = c.estop /\ d.told = c.told
      BY <1>1, <2>1, <3>1, MountAssetSound DEF d
    <3> QED  BY <3>1, <3>2
  <2>2. CASE c.phase # "live"
    <3> DEFINE d == [[c EXCEPT !.taken = @ + 1] EXCEPT !.loader = "mounted"]
    <3>1. c.loader = "loaded" /\ Step(v, d)  BY <1>5, <2>2 DEF MountLoaded
    <3>2. c.phase = "disposed"  BY <1>1, <1>2, <2>2, <3>1 DEF View
    <3>3. c.taken \in Nat /\ c.taken + 1 \in 0..Len(DefaultAssets)
      BY <1>1, <3>1, ListFacts DEF View, Sound
    <3>4. d \in View  BY <1>1, <3>3 DEF View
    <3>5. /\ d.phase = c.phase /\ d.estop = c.estop /\ d.red = c.red /\ d.nodes = c.nodes
          /\ d.taken = c.taken + 1 /\ d.loader = "mounted" /\ d.cache = c.cache
          /\ d.told = c.told
      BY <1>1 DEF View
    <3>6. Down(c) => Down(d)  BY <1>1 DEF View, Down
    <3> HIDE DEF d
    <3>7. 1..c.taken \subseteq 1..(c.taken + 1) /\ 0..c.taken \subseteq 0..(c.taken + 1)
      BY <3>3
    <3>8. Sound(d)  BY <1>1, <3>1, <3>2, <3>5, <3>6, <3>7 DEF Sound
    <3> QED  BY <3>1, <3>4, <3>5, <3>8
  <2> QED  BY <2>1, <2>2
<1>6. CASE GoOn(v)
  <2>1. CASE c.phase = "live"
    <3>1. Step(v, LoadNext(c))  BY <1>6, <2>1 DEF GoOn
    <3> QED  BY <1>1, <2>1, <3>1, LoadNextSound
  <2>2. CASE c.phase # "live"
    <3> DEFINE d == [c EXCEPT !.loader = "done"]
    <3>1. c.loader = "mounted" /\ Step(v, d)  BY <1>6, <2>2 DEF GoOn
    <3>2. d \in View  BY <1>1 DEF View
    <3>3. /\ d.phase = c.phase /\ d.estop = c.estop /\ d.red = c.red /\ d.nodes = c.nodes
          /\ d.taken = c.taken /\ d.loader = "done" /\ d.cache = c.cache
          /\ d.told = c.told
      BY <1>1 DEF View
    <3>4. Down(c) => Down(d)  BY <1>1 DEF View, Down
    <3> HIDE DEF d
    <3>5. Sound(d)  BY <1>1, <3>3, <3>4 DEF Sound
    <3> QED  BY <3>1, <3>2, <3>3, <3>5
  <2> QED  BY <2>1, <2>2
<1> QED  BY <1>3, <1>4, <1>5, <1>6 DEF Loader

-----------------------------------------------------------------------------
(* The inductive invariant, in two halves: the views, and the playback.    *)

ViewsSound == \A v \in Views : Sound(view[v])

\* Only the current view is up.
OneView ==
  /\ current <= born
  /\ current # 0 => view[current].phase \in {"live", "broken"}
  /\ \A v \in Views \ {current} : view[v].phase \in {"none", "disposed"}

ViewsInv == ViewsSound /\ OneView /\ ButtonShown

\* What is shown is not ahead of what the buffer holds for the present time.
Playback ==
  IF ring.size = 0 THEN shown = 0 ELSE shown <= Interpolate(ring, now - Delay)

PlaybackInv == InStep(ring) /\ Sorted(ring) /\ Past(ring, now) /\ Playback

IInv == TypeOK /\ ViewsInv /\ PlaybackInv

\* A view is replaced by itself in another state.
LEMMA ViewReplaced ==
  ASSUME TypeOK, ViewsInv, NEW v \in Views, NEW c \in View, Sound(c),
         c.phase = view[v].phase,
         isEstop' \in BOOLEAN, v # current => isEstop' = isEstop,
         v = current /\ c.phase = "live" => Heard(c, isEstop'),
         view' = [view EXCEPT ![v] = c], current' = current, born' = born
  PROVE  view' \in [Views -> View] /\ ViewsInv'
<1>1. view \in [Views -> View] /\ current \in 0..MaxViews  BY DEF TypeOK
<1>2. view' \in [Views -> View]  BY <1>1
<1>3. \A w \in Views : view'[w] = IF w = v THEN c ELSE view[w]  BY <1>1
<1>4. ViewsSound'  BY <1>3 DEF ViewsInv, ViewsSound
<1>5. current # 0 => current \in Views  BY <1>1, ViewportAssumption DEF Views
<1>6. OneView'  BY <1>3, <1>5 DEF ViewsInv, OneView
<1>7. ButtonShown'
  <2>1. CASE v = current
    <3>1. view'[current'] = c  BY <1>3, <2>1
    <3> QED  BY <2>1, <3>1 DEF ButtonShown
  <2>2. CASE v # current
    <3>1. current # 0 => view'[current'] = view[current]  BY <1>3, <1>5, <2>2
    <3> QED  BY <2>2, <3>1 DEF ViewsInv, ButtonShown
  <2> QED  BY <2>1, <2>2
<1> QED  BY <1>2, <1>4, <1>6, <1>7 DEF ViewsInv

\* A new view comes up while every other one is down.
LEMMA ViewAdded ==
  ASSUME TypeOK, born < MaxViews, NEW c \in View, Sound(c),
         c.phase \in {"live", "broken"},
         c.phase = "live" => Heard(c, isEstop'),
         NEW old \in [Views -> View], \A w \in Views : Sound(old[w]),
         \A w \in Views \ {born + 1} : old[w].phase \in {"none", "disposed"},
         view' = [old EXCEPT ![born + 1] = c], current' = born + 1, born' = born + 1
  PROVE  /\ view' \in [Views -> View] /\ ViewsInv'
         /\ current' \in 0..MaxViews /\ born' \in 0..MaxViews
<1>1. born \in 0..MaxViews /\ MaxViews \in Nat  BY ViewportAssumption DEF TypeOK
<1>2. born + 1 \in Views /\ born + 1 \in 0..MaxViews  BY <1>1 DEF Views
<1>3. view' \in [Views -> View]  BY <1>2
<1>4. \A w \in Views : view'[w] = IF w = born + 1 THEN c ELSE old[w]  BY <1>2
<1>5. ViewsSound'  BY <1>4 DEF ViewsSound
<1>6. view'[current'] = c  BY <1>2, <1>4
<1>7. OneView'
  <2>1. current' <= born'  BY <1>1
  <2>2. \A w \in Views \ {current'} : view'[w].phase \in {"none", "disposed"}  BY <1>4
  <2> QED  BY <1>6, <2>1, <2>2 DEF OneView
<1>8. ButtonShown'  BY <1>6 DEF ButtonShown
<1> QED  BY <1>2, <1>3, <1>5, <1>7, <1>8 DEF ViewsInv

LEMMA ViewsUntouched ==
  ASSUME ViewsInv, UNCHANGED <<isEstop, current, born, view>>
  PROVE  ViewsInv'
BY DEF ViewsInv, ViewsSound, OneView, ButtonShown

LEMMA PlaybackUntouched ==
  ASSUME PlaybackInv, UNCHANGED <<ring, shown, now>>
  PROVE  PlaybackInv'
BY DEF PlaybackInv, InStep, Sorted, Past, Playback

LEMMA PlaybackFresh ==
  ASSUME ring' = EmptyRing, shown' = 0
  PROVE  ring' \in Ring /\ PlaybackInv'
<1>1. EmptyRing.size = 0  BY DEF EmptyRing
<1>2. Sorted(EmptyRing) /\ \A t : Past(EmptyRing, t)  BY <1>1 DEF Sorted, Past
<1> QED  BY <1>1, <1>2, EmptyRingInStep DEF PlaybackInv, Playback, InStep, Sorted, Past

LEMMA InterpolateTyped ==
  ASSUME NEW r \in Ring, r.size # 0, NEW t \in Int
  PROVE  First(r) \in Nat /\ Last(r) \in Nat /\ Interpolate(r, t) \in Nat
<1>1. r.size \in 1..RingCapacity  BY RingAssumption DEF Ring
<1>2. First(r) \in Nat /\ Last(r) \in Nat  BY <1>1, FramesTyped, RingAssumption DEF First, Last
<1> QED  BY <1>2 DEF Interpolate

LEMMA PlaybackPush ==
  ASSUME TypeOK, PlaybackInv, ring' = Push(ring, now), shown' = shown, now' = now
  PROVE  ring' \in Ring /\ PlaybackInv'
<1>1. /\ ring \in Ring /\ now \in Nat /\ shown \in Nat /\ now - Delay \in Int
      /\ InStep(ring) /\ Sorted(ring) /\ Past(ring, now)
  BY ViewportAssumption DEF TypeOK, PlaybackInv
<1> DEFINE q == Push(ring, now)
<1>2. q \in Ring /\ InStep(q) /\ q.size # 0
  <2>1. ring.size \in Nat /\ RingCapacity # 0  BY <1>1, RingAssumption DEF Ring
  <2>2. q \in Ring /\ InStep(q)  BY <1>1, PushAppends
  <2>3. q.size = IF ring.size = RingCapacity THEN ring.size ELSE ring.size + 1
    BY <1>1, PushAppends
  <2> HIDE DEF q
  <2> QED  BY <2>1, <2>2, <2>3
<1>3. Sorted(q) /\ Past(q, now)  BY <1>1, PushSorts
<1>4. shown <= Interpolate(q, now - Delay)
  <2>1. Interpolate(q, now - Delay) \in Nat  BY <1>1, <1>2, InterpolateTyped
  <2>2. CASE ring.size = 0
    <3>1. shown = 0  BY <2>2 DEF PlaybackInv, Playback
    <3> HIDE DEF q
    <3> QED  BY <2>1, <3>1
  <2>3. CASE ring.size # 0
    <3>1. shown <= Interpolate(ring, now - Delay)  BY <2>3 DEF PlaybackInv, Playback
    <3>2. Interpolate(ring, now - Delay) <= Interpolate(q, now - Delay)
      BY <1>1, <2>3, PushForward
    <3>3. Interpolate(ring, now - Delay) \in Nat  BY <1>1, <2>3, InterpolateTyped
    <3> HIDE DEF q
    <3> QED  BY <1>1, <2>1, <3>1, <3>2, <3>3
  <2> QED  BY <2>2, <2>3
<1> HIDE DEF q
<1>5. ring' = q  BY DEF q
<1>6. InStep(ring)'  BY <1>2, <1>5 DEF InStep
<1>7. Sorted(ring)'  BY <1>3, <1>5 DEF Sorted
<1>8. Past(ring, now)'  BY <1>3, <1>5 DEF Past
<1>9. Playback'
  <2>1. Interpolate(ring', now' - Delay) = Interpolate(q, now - Delay)  BY <1>5
  <2> QED  BY <1>2, <1>4, <1>5, <2>1 DEF Playback
<1> QED  BY <1>2, <1>5, <1>6, <1>7, <1>8, <1>9 DEF PlaybackInv

LEMMA PlaybackTime ==
  ASSUME TypeOK, PlaybackInv, now' = now + 1, UNCHANGED <<ring, shown>>
  PROVE  PlaybackInv'
<1>1. ring \in Ring /\ now \in Nat /\ shown \in Nat /\ Delay \in Nat
  BY ViewportAssumption DEF TypeOK
<1>2. InStep(ring)' /\ Sorted(ring)'  BY DEF PlaybackInv, InStep, Sorted
<1>3. Past(ring, now)'
  <2>1. \A i \in 0..(ring.size - 1) : FrameAt(ring, i) \in Nat
    BY <1>1, FramesTyped, RingAssumption DEF Ring
  <2> QED  BY <1>1, <2>1 DEF PlaybackInv, Past
<1>4. Playback'
  <2>1. CASE ring.size = 0  BY <2>1 DEF PlaybackInv, Playback
  <2>2. CASE ring.size # 0
    <3>1. First(ring) \in Nat /\ Last(ring) \in Nat /\ First(ring) <= Last(ring)
      <4>1. ring.size \in 1..RingCapacity  BY <1>1, <2>2, RingAssumption DEF Ring
      <4>2. First(ring) \in Nat /\ Last(ring) \in Nat
        BY <1>1, <2>2, InterpolateTyped
      <4> QED  BY <4>1, <4>2, RingAssumption DEF PlaybackInv, Sorted, First, Last
    <3>2. Interpolate(ring, now - Delay) <= Interpolate(ring, now + 1 - Delay)
      BY <1>1, <3>1 DEF Interpolate
    <3>3. Interpolate(ring, now - Delay) \in Nat /\ Interpolate(ring, now + 1 - Delay) \in Nat
      BY <1>1, <2>2, InterpolateTyped
    <3>4. shown <= Interpolate(ring, now - Delay)  BY <2>2 DEF PlaybackInv, Playback
    <3>5. shown <= Interpolate(ring, now + 1 - Delay)  BY <1>1, <3>2, <3>3, <3>4
    <3>6. ring' = ring /\ shown' = shown /\ now' - Delay = now + 1 - Delay
      BY <1>1
    <3> QED  BY <2>2, <3>5, <3>6 DEF Playback
  <2> QED  BY <2>1, <2>2
<1> QED  BY <1>2, <1>3, <1>4 DEF PlaybackInv

-----------------------------------------------------------------------------
(* Every step preserves the invariant.                                     *)

LEMMA Start == Init => IInv
<1> SUFFICES ASSUME Init PROVE IInv
  OBVIOUS
<1>1. \A v \in Views : view[v] = Unborn  BY DEF Init
<1>2. TypeOK
  <2>1. isEstop \in BOOLEAN /\ view \in [Views -> View]  BY UnbornSound DEF Init
  <2>2. /\ current \in 0..MaxViews /\ born \in 0..MaxViews /\ now \in 0..MaxNow
        /\ shown \in Nat
    BY ViewportAssumption DEF Init
  <2>3. ring \in Ring  BY EmptyRingInStep DEF Init
  <2> QED  BY <2>1, <2>2, <2>3 DEF TypeOK
<1>3. ViewsSound  BY <1>1, UnbornSound DEF ViewsSound
<1>4. OneView  BY <1>1 DEF Init, OneView, Unborn
<1>5. ButtonShown  BY DEF Init, ButtonShown
<1>6. EmptyRing.size = 0  BY DEF EmptyRing
<1>7. Sorted(EmptyRing) /\ Past(EmptyRing, now)  BY <1>6 DEF Sorted, Past
<1>8. PlaybackInv
  BY <1>6, <1>7, EmptyRingInStep DEF Init, PlaybackInv, Playback
<1> QED  BY <1>2, <1>3, <1>4, <1>5, <1>8 DEF IInv, ViewsInv

LEMMA MountKeeps ==
  ASSUME IInv, NEW o \in Outcome, Mount(o)
  PROVE  IInv'
<1> DEFINE c == Prompt(Started(o), isEstop)
<1>1. TypeOK /\ ViewsInv  BY DEF IInv
<1>2. isEstop \in BOOLEAN /\ view \in [Views -> View] /\ now \in 0..MaxNow
  BY <1>1 DEF TypeOK
<1>3. /\ c \in View /\ Sound(c) /\ c.phase \in {"live", "broken"}
      /\ c.phase = "live" => Heard(c, isEstop)
  BY <1>2, StartedSound, PromptSound
<1>4. /\ current = 0 /\ born < MaxViews /\ isEstop' = isEstop /\ now' = now
      /\ current' = born + 1 /\ born' = born + 1 /\ ring' = EmptyRing /\ shown' = 0
      /\ view' = [view EXCEPT ![born + 1] = c]
  BY DEF Mount, FreshView
<1> HIDE DEF c
<1>5. \A w \in Views : Sound(view[w]) /\ view[w].phase \in {"none", "disposed"}
  BY <1>1, <1>4 DEF ViewsInv, ViewsSound, OneView, Views
<1>6. /\ view' \in [Views -> View] /\ ViewsInv'
      /\ current' \in 0..MaxViews /\ born' \in 0..MaxViews
  BY <1>1, <1>2, <1>3, <1>4, <1>5, ViewAdded
<1>7. ring' \in Ring /\ PlaybackInv'  BY <1>4, PlaybackFresh
<1>8. TypeOK'  BY <1>2, <1>4, <1>6, <1>7 DEF TypeOK
<1> QED  BY <1>6, <1>7, <1>8 DEF IInv

LEMMA UnmountKeeps ==
  ASSUME IInv, Unmount
  PROVE  IInv'
<1> DEFINE c == Disposed(view[current])
<1>1. TypeOK /\ ViewsInv  BY DEF IInv
<1>2. /\ isEstop \in BOOLEAN /\ view \in [Views -> View] /\ now \in 0..MaxNow
      /\ born \in 0..MaxViews /\ current \in 0..MaxViews
  BY <1>1 DEF TypeOK
<1>3. current # 0 /\ current \in Views  BY <1>2, ViewportAssumption DEF Unmount, Views
<1>4. c \in View /\ Sound(c) /\ c.phase = "disposed"
  BY <1>1, <1>2, <1>3, DisposedSound DEF ViewsInv, ViewsSound
<1>5. /\ isEstop' = isEstop /\ now' = now /\ born' = born /\ current' = 0
      /\ ring' = EmptyRing /\ shown' = 0 /\ view' = [view EXCEPT ![current] = c]
  BY DEF Unmount
<1> HIDE DEF c
<1>6. view' \in [Views -> View]  BY <1>2, <1>3, <1>4, <1>5
<1>7. \A w \in Views : view'[w] = IF w = current THEN c ELSE view[w]
  BY <1>2, <1>3, <1>5
<1>8. ViewsSound'  BY <1>1, <1>4, <1>7 DEF ViewsInv, ViewsSound
<1>9. OneView'
  <2>1. \A w \in Views : view'[w].phase \in {"none", "disposed"}
    BY <1>1, <1>4, <1>7 DEF ViewsInv, OneView
  <2>2. current' <= born'  BY <1>2, <1>5
  <2> QED  BY <1>5, <2>1, <2>2 DEF OneView
<1>10. ButtonShown'  BY <1>5 DEF ButtonShown
<1>11. ring' \in Ring /\ PlaybackInv'  BY <1>5, PlaybackFresh
<1>12. TypeOK'
  <2>1. current' \in 0..MaxViews  BY <1>5, ViewportAssumption
  <2> QED  BY <1>2, <1>5, <1>6, <1>11, <2>1 DEF TypeOK
<1> QED  BY <1>8, <1>9, <1>10, <1>11, <1>12 DEF IInv, ViewsInv

LEMMA ChangePropsKeeps ==
  ASSUME IInv, NEW o \in Outcome, NEW e \in BOOLEAN, ChangeProps(o, e)
  PROVE  IInv'
<1> DEFINE c == IF e = isEstop THEN Started(o) ELSE Prompt(Started(o), e)
           old == [view EXCEPT ![current] = Disposed(view[current])]
<1>1. TypeOK /\ ViewsInv  BY DEF IInv
<1>2. /\ isEstop \in BOOLEAN /\ view \in [Views -> View] /\ now \in 0..MaxNow
      /\ born \in 0..MaxViews /\ current \in 0..MaxViews
  BY <1>1 DEF TypeOK
<1>3. current # 0 /\ current \in Views
  BY <1>2, ViewportAssumption DEF ChangeProps, Views
<1>4. /\ c \in View /\ Sound(c) /\ c.phase \in {"live", "broken"}
      /\ c.phase = "live" => Heard(c, e)
  <2>1. CASE e = isEstop  BY <2>1, StartedSound DEF Heard
  <2>2. CASE e # isEstop  BY <2>2, StartedSound, PromptSound
  <2> QED  BY <2>1, <2>2
<1>5. /\ born < MaxViews /\ isEstop' = e /\ now' = now
      /\ current' = born + 1 /\ born' = born + 1 /\ ring' = EmptyRing /\ shown' = 0
      /\ view' = [old EXCEPT ![born + 1] = c]
  BY DEF ChangeProps, FreshView
<1> HIDE DEF c
<1>6. /\ Disposed(view[current]) \in View /\ Sound(Disposed(view[current]))
      /\ Disposed(view[current]).phase = "disposed"
  BY <1>1, <1>2, <1>3, DisposedSound DEF ViewsInv, ViewsSound
<1>7. old \in [Views -> View]  BY <1>2, <1>3, <1>6
<1>8. \A w \in Views : old[w] = IF w = current THEN Disposed(view[current]) ELSE view[w]
  BY <1>2, <1>3
<1> HIDE DEF old
<1>9. \A w \in Views : Sound(old[w]) /\ old[w].phase \in {"none", "disposed"}
  BY <1>1, <1>6, <1>8 DEF ViewsInv, ViewsSound, OneView
<1>10. /\ view' \in [Views -> View] /\ ViewsInv'
       /\ current' \in 0..MaxViews /\ born' \in 0..MaxViews
  BY <1>1, <1>4, <1>5, <1>7, <1>9, ViewAdded
<1>11. ring' \in Ring /\ PlaybackInv'  BY <1>5, PlaybackFresh
<1>12. TypeOK'  BY <1>2, <1>5, <1>10, <1>11 DEF TypeOK
<1> QED  BY <1>10, <1>11, <1>12 DEF IInv

LEMMA ToggleEstopKeeps ==
  ASSUME IInv, ToggleEstop
  PROVE  IInv'
<1>1. TypeOK /\ ViewsInv /\ PlaybackInv  BY DEF IInv
<1>2. /\ isEstop \in BOOLEAN /\ view \in [Views -> View] /\ now \in 0..MaxNow
      /\ born \in 0..MaxViews /\ current \in 0..MaxViews
      /\ ring \in Ring /\ shown \in Nat
  BY <1>1 DEF TypeOK
<1>3. /\ current' = current /\ born' = born /\ ring' = ring /\ shown' = shown
      /\ now' = now /\ isEstop' = ~ isEstop
  BY DEF ToggleEstop
<1>4. isEstop' \in BOOLEAN  BY <1>3
<1>5. view' \in [Views -> View] /\ ViewsInv'
  <2>1. CASE current = 0
    <3>1. view' = view  BY <2>1 DEF ToggleEstop
    <3>2. ViewsInv'
      BY <1>1, <1>3, <2>1, <3>1 DEF ViewsInv, ViewsSound, OneView, ButtonShown
    <3> QED  BY <1>2, <3>1, <3>2
  <2>2. CASE current # 0
    <3> DEFINE c == Prompt(view[current], ~ isEstop)
    <3>1. current \in Views  BY <1>2, <2>2, ViewportAssumption DEF Views
    <3>2. view[current] \in View /\ Sound(view[current])
      BY <1>1, <1>2, <3>1 DEF ViewsInv, ViewsSound
    <3>3. (~ isEstop) \in BOOLEAN  OBVIOUS
    <3>4. /\ c \in View /\ Sound(c) /\ c.phase = view[current].phase
          /\ c.phase = "live" => Heard(c, ~ isEstop)
      BY <3>2, <3>3, PromptSound
    <3>5. view' = [view EXCEPT ![current] = c]  BY <2>2 DEF ToggleEstop
    <3> HIDE DEF c
    <3>6. c.phase = "live" => Heard(c, isEstop')  BY <1>3, <3>4
    <3> QED  BY <1>1, <1>3, <1>4, <3>1, <3>4, <3>5, <3>6, ViewReplaced
  <2> QED  BY <2>1, <2>2
<1>6. PlaybackInv'  BY <1>1, <1>3, PlaybackUntouched
<1>7. TypeOK'  BY <1>2, <1>3, <1>4, <1>5 DEF TypeOK
<1> QED  BY <1>5, <1>6, <1>7 DEF IInv

\* A step of one view that leaves the button, the playback and the clock alone.
LEMMA StepKeeps ==
  ASSUME IInv, NEW v \in Views, NEW c \in View, Step(v, c), Sound(c),
         c.phase = view[v].phase,
         \/ c.told = view[v].told /\ c.estop = view[v].estop
         \/ c.told = "topic"
  PROVE  IInv'
<1>1. TypeOK /\ ViewsInv /\ PlaybackInv  BY DEF IInv
<1>2. /\ isEstop \in BOOLEAN /\ now \in 0..MaxNow
      /\ born \in 0..MaxViews /\ current \in 0..MaxViews
      /\ ring \in Ring /\ shown \in Nat
  BY <1>1 DEF TypeOK
<1>3. /\ current' = current /\ born' = born /\ ring' = ring /\ shown' = shown
      /\ now' = now /\ isEstop' = isEstop /\ view' = [view EXCEPT ![v] = c]
  BY DEF Step
<1>4. v = current /\ c.phase = "live" => Heard(c, isEstop')
  <2> SUFFICES ASSUME v = current, c.phase = "live"  PROVE  Heard(c, isEstop')
    OBVIOUS
  <2>1. current # 0  BY DEF Views
  <2>2. Heard(view[current], isEstop)  BY <1>1, <2>1 DEF ViewsInv, ButtonShown
  <2> QED  BY <1>3, <2>2 DEF Heard
<1>5. view' \in [Views -> View] /\ ViewsInv'
  <2>1. isEstop' \in BOOLEAN /\ (v # current => isEstop' = isEstop)  BY <1>2, <1>3
  <2> QED  BY <1>1, <1>3, <1>4, <2>1, ViewReplaced
<1>6. PlaybackInv'  BY <1>1, <1>3, PlaybackUntouched
<1>7. TypeOK'  BY <1>2, <1>3, <1>5 DEF TypeOK
<1> QED  BY <1>5, <1>6, <1>7 DEF IInv

\* A new frame, and nothing else.
LEMMA PushKeeps ==
  ASSUME IInv, ring' = Push(ring, now), UNCHANGED <<isEstop, current, born, shown, now>>,
         view' \in [Views -> View], ViewsInv'
  PROVE  IInv'
<1>1. TypeOK /\ PlaybackInv  BY DEF IInv
<1>2. ring' \in Ring /\ PlaybackInv'  BY <1>1, PlaybackPush
<1>3. TypeOK'  BY <1>1, <1>2 DEF TypeOK
<1> QED  BY <1>2, <1>3 DEF IInv

LEMMA CurrentView ==
  ASSUME IInv, current # 0
  PROVE  /\ current \in Views /\ view[current] \in View /\ Sound(view[current])
         /\ view[current].phase \in {"live", "broken"}
<1>1. current \in Views  BY ViewportAssumption DEF IInv, TypeOK, Views
<1> QED  BY <1>1 DEF IInv, TypeOK, ViewsInv, ViewsSound, OneView

\* The simulation's own flags concern nothing else.
LEMMA SimulationSound ==
  ASSUME NEW c \in View, Sound(c), c.phase \in {"live", "broken"},
         NEW s \in BOOLEAN, NEW r \in BOOLEAN
  PROVE  LET d == [c EXCEPT !.simulating = s, !.simRaf = r] IN
         /\ d \in View /\ Sound(d) /\ d.phase = c.phase
         /\ d.estop = c.estop /\ d.told = c.told
<1> DEFINE d == [c EXCEPT !.simulating = s, !.simRaf = r]
<1>1. d \in View  BY DEF View
<1>2. /\ d.phase = c.phase /\ d.estop = c.estop /\ d.red = c.red /\ d.nodes = c.nodes
      /\ d.taken = c.taken /\ d.loader = c.loader /\ d.cache = c.cache
      /\ d.told = c.told
  BY DEF View
<1> HIDE DEF d
<1>3. Sound(d)  BY <1>2 DEF Sound
<1> QED  BY <1>1, <1>2, <1>3 DEF d

LEMMA CurrentStepsKeep ==
  ASSUME IInv,
         \/ \E e \in BOOLEAN : SafetyMessage(e)
         \/ StartSimulation
         \/ StopSimulation
  PROVE  IInv'
<1> DEFINE c == view[current]
<1>1. ASSUME NEW e \in BOOLEAN, SafetyMessage(e)  PROVE IInv'
  <2>1. current # 0 /\ c.linked  BY <1>1 DEF SafetyMessage
  <2>2. c \in View /\ Sound(c) /\ c.phase \in {"live", "broken"} /\ current \in Views
    BY <2>1, CurrentView
  <2> DEFINE b == SafetyState(c, e)
             d == [b EXCEPT !.told = "topic"]
  <2>3. b \in View /\ Sound(b) /\ b.phase = c.phase  BY <2>2, SafetyStateSound
  <2>4. Step(current, d)  BY <1>1 DEF SafetyMessage
  <2> HIDE DEF b
  <2>5. /\ d \in View /\ d.phase = b.phase /\ d.estop = b.estop /\ d.red = b.red
        /\ d.nodes = b.nodes /\ d.taken = b.taken /\ d.loader = b.loader
        /\ d.cache = b.cache /\ d.told = "topic"
    BY <2>3 DEF View
  <2> HIDE DEF d
  <2>6. Sound(d)  BY <2>2, <2>3, <2>5 DEF Sound
  <2> QED  BY <2>2, <2>3, <2>4, <2>5, <2>6, StepKeeps
<1>2. CASE StartSimulation
  <2> DEFINE d == [c EXCEPT !.simulating = TRUE, !.simRaf = TRUE]
  <2>1. current # 0 /\ Step(current, d)  BY <1>2 DEF StartSimulation
  <2>2. c \in View /\ Sound(c) /\ c.phase \in {"live", "broken"} /\ current \in Views
    BY <2>1, CurrentView
  <2>3. /\ d \in View /\ Sound(d) /\ d.phase = c.phase
        /\ d.estop = c.estop /\ d.told = c.told
    BY <2>2, SimulationSound
  <2> HIDE DEF d
  <2> QED  BY <2>1, <2>2, <2>3, StepKeeps
<1>3. CASE StopSimulation
  <2> DEFINE d == [c EXCEPT !.simulating = FALSE, !.simRaf = FALSE]
  <2>1. current # 0 /\ Step(current, d)  BY <1>3 DEF StopSimulation
  <2>2. c \in View /\ Sound(c) /\ c.phase \in {"live", "broken"} /\ current \in Views
    BY <2>1, CurrentView
  <2>3. /\ d \in View /\ Sound(d) /\ d.phase = c.phase
        /\ d.estop = c.estop /\ d.told = c.told
    BY <2>2, SimulationSound
  <2> HIDE DEF d
  <2> QED  BY <2>1, <2>2, <2>3, StepKeeps
<1> QED  BY <1>1, <1>2, <1>3

LEMMA SimulationFrameKeeps ==
  ASSUME IInv, SimulationFrame
  PROVE  IInv'
<1> DEFINE c == view[current]
<1>1. c \in View /\ Sound(c) /\ c.phase \in {"live", "broken"} /\ current \in Views
  BY CurrentView DEF SimulationFrame
<1>2. UNCHANGED <<isEstop, current, born, shown, now>>  BY DEF SimulationFrame
<1>3. CASE c.phase = "live"
  <2>1. ring' = Push(ring, now) /\ view' = view  BY <1>3 DEF SimulationFrame
  <2>2. view' \in [Views -> View] /\ ViewsInv'
    BY <1>2, <2>1, ViewsUntouched DEF IInv, TypeOK
  <2> QED  BY <1>2, <2>1, <2>2, PushKeeps
<1>4. CASE c.phase # "live"
  <2> DEFINE d == [c EXCEPT !.simRaf = FALSE]
             f == [c EXCEPT !.simulating = c.simulating, !.simRaf = FALSE]
  <2>1. view' = [view EXCEPT ![current] = d] /\ ring' = ring
    BY <1>4 DEF SimulationFrame
  <2>2. c.simulating \in BOOLEAN  BY <1>1 DEF View
  <2>3. d = f  BY <1>1 DEF View
  <2>4. /\ f \in View /\ Sound(f) /\ f.phase = c.phase
        /\ f.estop = c.estop /\ f.told = c.told
    BY <1>1, <2>2, SimulationSound
  <2> HIDE DEF d, f
  <2>5. Step(current, d)  BY <1>2, <2>1 DEF Step
  <2> QED  BY <1>1, <2>3, <2>4, <2>5, StepKeeps
<1> QED  BY <1>3, <1>4

LEMMA ResetSimulationKeeps ==
  ASSUME IInv, ResetSimulation
  PROVE  IInv'
<1> DEFINE c == view[current]
           d == [c EXCEPT !.simulating = FALSE, !.simRaf = FALSE]
<1>1. c \in View /\ Sound(c) /\ c.phase \in {"live", "broken"} /\ current \in Views
  BY CurrentView DEF ResetSimulation
<1>2. /\ UNCHANGED <<isEstop, current, born, shown, now>>
      /\ view' = [view EXCEPT ![current] = d]
      /\ ring' = IF c.phase = "live" THEN Push(ring, now) ELSE ring
  BY DEF ResetSimulation
<1>3. /\ d \in View /\ Sound(d) /\ d.phase = c.phase
      /\ d.estop = c.estop /\ d.told = c.told
  BY <1>1, SimulationSound
<1> HIDE DEF d
<1>4. TypeOK /\ ViewsInv /\ isEstop' = isEstop /\ isEstop \in BOOLEAN
  BY <1>2 DEF IInv, TypeOK
<1>5. d.phase = "live" => Heard(d, isEstop')
  <2>1. current # 0  BY <1>1 DEF Views
  <2>2. c.phase = "live" => Heard(c, isEstop)
    BY <1>4, <2>1 DEF ViewsInv, ButtonShown
  <2> QED  BY <1>3, <1>4, <2>2 DEF Heard
<1>6. view' \in [Views -> View] /\ ViewsInv'
  BY <1>1, <1>2, <1>3, <1>4, <1>5, ViewReplaced
<1>7. CASE c.phase = "live"  BY <1>2, <1>6, <1>7, PushKeeps
<1>8. CASE c.phase # "live"
  <2>1. ring' = ring  BY <1>2, <1>8
  <2>2. PlaybackInv'  BY <1>2, <2>1, PlaybackUntouched DEF IInv
  <2>3. TypeOK'  BY <1>2, <1>4, <1>6, <2>1 DEF TypeOK
  <2> QED  BY <1>6, <2>2, <2>3 DEF IInv
<1> QED  BY <1>7, <1>8

LEMMA TelemetryKeeps ==
  ASSUME IInv, TelemetryMessage
  PROVE  IInv'
<1>1. /\ UNCHANGED <<isEstop, current, born, view, shown, now>>
      /\ ring' = Push(ring, now)
  BY DEF TelemetryMessage
<1>2. view' \in [Views -> View] /\ ViewsInv'
  BY <1>1, ViewsUntouched DEF IInv, TypeOK
<1> QED  BY <1>1, <1>2, PushKeeps

LEMMA RenderFrameKeeps ==
  ASSUME IInv, RenderFrame
  PROVE  IInv' /\ shown' >= shown
<1>1. TypeOK /\ ViewsInv /\ PlaybackInv  BY DEF IInv
<1>2. /\ ring \in Ring /\ now \in Nat /\ now - Delay \in Int /\ shown \in Nat
  BY <1>1, ViewportAssumption DEF TypeOK
<1>3. /\ UNCHANGED <<isEstop, current, born, view, ring, now>> /\ ring.size # 0
      /\ shown' = Interpolate(ring, now - Delay)
  BY DEF RenderFrame
<1>4. shown' \in Nat  BY <1>2, <1>3, InterpolateTyped
<1>5. shown <= shown'  BY <1>1, <1>3 DEF PlaybackInv, Playback
<1>6. ViewsInv'  BY <1>1, <1>3, ViewsUntouched
<1>7. PlaybackInv'
  <2>1. InStep(ring)' /\ Sorted(ring)' /\ Past(ring, now)'
    BY <1>1, <1>3 DEF PlaybackInv, InStep, Sorted, Past
  <2>2. Playback'
    <3>1. Interpolate(ring, now - Delay)' = shown'  BY <1>3 DEF Interpolate, First, Last, FrameAt
    <3> QED  BY <1>3, <1>4, <3>1 DEF Playback
  <2> QED  BY <2>1, <2>2 DEF PlaybackInv
<1>8. TypeOK'  BY <1>1, <1>3, <1>4 DEF TypeOK
<1> QED  BY <1>2, <1>4, <1>5, <1>6, <1>7, <1>8 DEF IInv

LEMMA TimePassesKeeps ==
  ASSUME IInv, TimePasses
  PROVE  IInv'
<1>1. TypeOK /\ ViewsInv /\ PlaybackInv  BY DEF IInv
<1>2. /\ UNCHANGED <<isEstop, current, born, view, ring, shown>>
      /\ now' = now + 1 /\ now < MaxNow
  BY DEF TimePasses
<1>3. ViewsInv'  BY <1>1, <1>2, ViewsUntouched
<1>4. PlaybackInv'  BY <1>1, <1>2, PlaybackTime
<1>5. now' \in 0..MaxNow  BY <1>1, <1>2, ViewportAssumption DEF TypeOK
<1>6. TypeOK'  BY <1>1, <1>2, <1>5 DEF TypeOK
<1> QED  BY <1>3, <1>4, <1>6 DEF IInv

LEMMA NextKeeps ==
  ASSUME IInv, [Next]_vars
  PROVE  IInv'
<1>1. CASE UNCHANGED vars
  <2>1. UNCHANGED <<isEstop, current, born, view, ring, shown, now>>  BY <1>1 DEF vars
  <2>2. ViewsInv' /\ PlaybackInv'
    BY <2>1, ViewsUntouched, PlaybackUntouched DEF IInv
  <2>3. TypeOK'  BY <2>1 DEF IInv, TypeOK
  <2> QED  BY <2>2, <2>3 DEF IInv
<1>2. ASSUME NEW v \in Views, Loader(v)  PROVE IInv'
  <2>1. PICK d \in View : /\ Step(v, d) /\ Sound(d) /\ d.phase = view[v].phase
                          /\ d.estop = view[v].estop /\ d.told = view[v].told
    BY <1>2, LoaderSound DEF IInv, ViewsInv, ViewsSound
  <2> QED  BY <2>1, StepKeeps
<1> QED
  BY <1>1, <1>2, MountKeeps, UnmountKeeps, ChangePropsKeeps, ToggleEstopKeeps,
     CurrentStepsKeep, SimulationFrameKeeps, ResetSimulationKeeps, TelemetryKeeps,
     RenderFrameKeeps, TimePassesKeeps DEF Next

LEMMA Invariant == Spec => []IInv
<1>1. Init => IInv  BY Start
<1>2. IInv /\ [Next]_vars => IInv'  BY NextKeeps
<1> QED  BY <1>1, <1>2, PTL DEF Spec

-----------------------------------------------------------------------------
(* What follows.                                                           *)

\* Every variable stays in its type: in particular the ring's indices and size stay
\* within its capacity, and the loader never runs past the last default asset.
THEOREM TypeCorrect == Spec => []TypeOK
<1>1. IInv => TypeOK  BY DEF IInv
<1> QED  BY <1>1, Invariant, PTL

\* Whatever the order of models arriving, buttons and safety messages, an object the
\* scene knows is in the alert material exactly while its scene is in E-stop.
THEOREM AlertsAlwaysShown == Spec => []AlertShown
<1>1. IInv => AlertShown  BY DEF IInv, ViewsInv, ViewsSound, Sound, AlertShown
<1> QED  BY <1>1, Invariant, PTL

\* A view the button spoke to last (it came up by mounting, or the button was pressed
\* since, and the topic was silent) shows the button; one nobody spoke to shows no E-stop.
THEOREM ButtonAlwaysShown == Spec => []ButtonShown
<1>1. IInv => ButtonShown  BY DEF IInv, ViewsInv
<1> QED  BY <1>1, Invariant, PTL

\* A view that was cleaned up stays quiet and empty while its loader goes on.
THEOREM DisposedStaysQuiet == Spec => []NothingAfterDispose
<1>1. IInv => NothingAfterDispose
  BY DEF IInv, ViewsInv, ViewsSound, OneView, Sound, Down, NothingAfterDispose
<1> QED  BY <1>1, Invariant, PTL

\* The cache of every view, living or not, keeps to its limit.
THEOREM CacheBounded == Spec => []CacheWithinBounds
<1>1. IInv => CacheWithinBounds
  BY DEF IInv, ViewsInv, ViewsSound, Sound, Distinct, CacheWithinBounds
<1> QED  BY <1>1, Invariant, PTL

\* Motion is shown forward: frames are pushed in the order of the clock, a full ring
\* drops the oldest, and the time that is drawn never decreases.
THEOREM PlaybackAlwaysForward == Spec => PlaybackForward
<1>1. ASSUME IInv, [Next]_vars  PROVE [current' = current => shown' >= shown]_vars
  <2>1. shown \in Nat /\ current \in Nat /\ born \in Nat
    <3>1. shown \in Nat /\ current \in 0..MaxViews /\ born \in 0..MaxViews
      BY <1>1 DEF IInv, TypeOK
    <3> QED  BY <3>1, ViewportAssumption
  <2>2. CASE RenderFrame  BY <1>1, <2>2, RenderFrameKeeps
  <2>3. CASE shown' = shown  BY <2>1, <2>3
  <2>4. CASE Unmount  BY <2>4 DEF Unmount
  <2>5. CASE FreshView /\ current \in 0..born
    <3>1. current' # current  BY <2>1, <2>5 DEF FreshView
    <3> QED  BY <3>1
  <2>6. current \in 0..born  BY <1>1, <2>1 DEF IInv, ViewsInv, OneView
  <2> QED
    BY <1>1, <2>2, <2>3, <2>4, <2>5, <2>6
    DEF Next, vars, Mount, ChangeProps, ToggleEstop, Loader, FetchSucceeds, FetchFails,
        MountLoaded, GoOn, Step, SafetyMessage, TelemetryMessage, StartSimulation,
        SimulationFrame, StopSimulation, ResetSimulation, TimePasses
<1> QED  BY <1>1, Invariant, PTL DEF Spec, PlaybackForward

\* In a view that heard the button last, the button's E-stop is what the view is in and
\* what the materials of all its assets say.  Of a view that replaced another one while
\* an E-stop was on it says that this view shows none.
THEOREM AlertAlwaysFollowsButton == Spec => []AlertFollowsButton
  BY AlertsAlwaysShown, ButtonAlwaysShown, PTL DEF AlertFollowsButton

\* No view keeps what it should have let go of.
THEOREM NothingEverKept == Spec => []NothingKept
  BY DisposedStaysQuiet, CacheBounded, PTL DEF NothingKept

=============================================================================
