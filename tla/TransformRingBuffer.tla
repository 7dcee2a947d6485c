------------------------- MODULE TransformRingBuffer --------------------------
(***************************************************************************)
(* The telemetry ring buffer of the 3D viewport (transform_ring_buffer.ts) *)
(* as operators on a record: slots, head, tail, size.  A frame is its      *)
(* timestamp; the joints and poses it carries are left out.                *)
(***************************************************************************)
EXTENDS Integers

CONSTANT RingCapacity

ASSUME RingAssumption == RingCapacity \in Nat \ {0}

Slots == 0..(RingCapacity - 1)
Ring == [slots : [Slots -> Nat], head : Slots, tail : Slots, size : 0..RingCapacity]

\* An unwritten slot reads 0 here; it is never read.
EmptyRing == [slots |-> [i \in Slots |-> 0], head |-> 0, tail |-> 0, size |-> 0]

Wrapped(i) == i % RingCapacity

\* A full ring drops its oldest frame.
Push(ring, frame) ==
  [slots |-> [ring.slots EXCEPT ![ring.tail] = frame],
   head  |-> IF ring.size = RingCapacity THEN Wrapped(ring.head + 1) ELSE ring.head,
   tail  |-> Wrapped(ring.tail + 1),
   size  |-> IF ring.size = RingCapacity THEN ring.size ELSE ring.size + 1]

FrameAt(ring, i) == ring.slots[Wrapped(ring.head + i)]
First(ring) == FrameAt(ring, 0)
Last(ring) == FrameAt(ring, ring.size - 1)

\* The timestamp of the frame that is shown for targetTime: the oldest or the
\* newest frame outside the buffered span, an interpolated one within.
Interpolate(ring, targetTime) ==
  IF targetTime <= First(ring) THEN First(ring)
  ELSE IF targetTime >= Last(ring) THEN Last(ring)
  ELSE targetTime
=============================================================================
