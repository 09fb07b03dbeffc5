-------------------------------- MODULE Kbd --------------------------------
(***************************************************************************)
(* The virtio keyboard of src/kernel/dev/kbd.c and the event queue it      *)
(* shares with the device.                                                 *)
(*                                                                         *)
(* The device (external) runs beside the handler: it takes the oldest      *)
(* available descriptor, writes the event, puts it on the used ring and    *)
(* raises the interrupt; it drops events when it has no descriptor.  The   *)
(* handler's accesses to what the device also touches are steps of their   *)
(* own, in program order.  An event is "down" / "up" for the shift keys,   *)
(* "key" for a press or repeat of a key with a character, "none" for what  *)
(* handle_kbd_event ignores.  A character handed to tty_input is <<j, s>>: *)
(* the j-th event, upper case iff s.                                       *)
(***************************************************************************)
EXTENDS Integers, Sequences

CONSTANTS
    QUEUE_SIZE,
    QUEUE_NUM_MAX,  \* VMIO_QUEUE_NUM_MAX: the longest queue the device takes
    U16,         \* 2^16: where the ring indices wrap
    Kinds,       \* the events of the device
    MaxEvents    \* bound on events

ASSUME KbdConstants ==
    /\ QUEUE_SIZE \in Nat /\ QUEUE_SIZE >= 1
    /\ U16 \in Nat /\ U16 > QUEUE_SIZE /\ U16 % QUEUE_SIZE = 0
    /\ Kinds \subseteq {"down", "up", "key", "none"}
    /\ MaxEvents \in Nat

\* The device takes a queue as long as the driver's: QEMU's takes 1024 entries.
ASSUME KbdOffered == QUEUE_NUM_MAX \in Nat /\ QUEUE_NUM_MAX >= QUEUE_SIZE

Descs == 0 .. QUEUE_SIZE - 1
Words == 0 .. U16 - 1

VARIABLES
    avail_ring, avail_idx,   \* g_avail
    used_ring, used_idx,     \* g_used
    g_events,                \* descriptor -> number of the event in it
    g_last_used_idx,
    last_avail_idx,          \* the device's
    int_status,              \* VMIO_INT_STATUS
    g_shift,
    pc, desc_id,             \* the handler
    sent,                    \* the events the device delivered, by number
    chars                    \* the characters handed to tty_input

driver == <<avail_ring, avail_idx, g_last_used_idx>>
device == <<used_ring, used_idx, g_events, last_avail_idx, sent>>
vars   == <<driver, device, int_status, g_shift, pc, desc_id, chars>>

Inc(idx) == (idx + 1) % U16

\* The length setup_eventq settles with the device, which goes by it; the
\* driver goes by QUEUE_SIZE.
QUEUE_NUM == IF QUEUE_NUM_MAX < QUEUE_SIZE THEN QUEUE_NUM_MAX ELSE QUEUE_SIZE

\* Mutant of setup_eventq: one descriptor more than there are.
SetupOneMore ==
    /\ avail_ring = [k \in Descs |-> k]
    /\ avail_idx = QUEUE_SIZE + 1
    /\ used_idx = 0

setup_eventq ==
    /\ avail_ring = [k \in Descs |-> k]
    /\ avail_idx = QUEUE_SIZE
    /\ used_idx = 0

Init ==
    /\ setup_eventq
    /\ used_ring = [k \in Descs |-> 0]
    /\ g_events = [k \in Descs |-> 0]
    /\ g_last_used_idx = 0 /\ last_avail_idx = 0
    /\ int_status = FALSE /\ g_shift = FALSE
    /\ pc = "idle" /\ desc_id = 0
    /\ sent = <<>> /\ chars = <<>>

-----------------------------------------------------------------------------
(* The device.                                                             *)

Deliver(kind) ==
    /\ Len(sent) < MaxEvents
    /\ last_avail_idx # avail_idx
    /\ LET d == avail_ring[last_avail_idx % QUEUE_NUM]
       IN /\ g_events' = [g_events EXCEPT ![d] = Len(sent) + 1]
          /\ used_ring' = [used_ring EXCEPT ![used_idx % QUEUE_NUM] = d]
    /\ used_idx' = Inc(used_idx)
    /\ last_avail_idx' = Inc(last_avail_idx)
    /\ sent' = Append(sent, kind)
    /\ int_status' = TRUE
    /\ UNCHANGED <<driver, g_shift, pc, desc_id, chars>>

-----------------------------------------------------------------------------
(* kbd_irq_handler.                                                        *)

Goto(from, to) == pc = from /\ pc' = to

\* The interrupt is level triggered: it is taken while int_status is set.
IrqEnter ==
    /\ Goto("idle", "ack") /\ int_status
    /\ UNCHANGED <<driver, device, int_status, g_shift, desc_id, chars>>

IrqAck ==
    /\ Goto("ack", "loop")
    /\ int_status' = FALSE
    /\ UNCHANGED <<driver, device, g_shift, desc_id, chars>>

\* while (g_last_used_idx != g_used->idx)
IrqLoop ==
    /\ \/ /\ g_last_used_idx # used_idx /\ Goto("loop", "handle")
          /\ desc_id' = used_ring[g_last_used_idx % QUEUE_SIZE]
       \/ g_last_used_idx = used_idx /\ Goto("loop", "notify") /\ UNCHANGED desc_id
    /\ UNCHANGED <<driver, device, int_status, g_shift, chars>>

\* Mutant of handle_kbd_event: a released shift is not seen.
HandleSticky(ev) ==
    /\ g_shift' = (g_shift \/ sent[ev] = "down")
    /\ chars' = IF sent[ev] = "key" THEN Append(chars, <<ev, g_shift>>) ELSE chars

handle_kbd_event(ev) ==
    /\ g_shift' = CASE sent[ev] = "down" -> TRUE
                    [] sent[ev] = "up" -> FALSE
                    [] OTHER -> g_shift
    /\ chars' = IF sent[ev] = "key" THEN Append(chars, <<ev, g_shift>>) ELSE chars

IrqHandle ==
    /\ Goto("handle", "give")
    /\ handle_kbd_event(g_events[desc_id])
    /\ UNCHANGED <<driver, device, int_status, desc_id>>

\* The descriptor goes back: the device sees it once avail_idx moves.
IrqGive ==
    /\ Goto("give", "loop")
    /\ avail_ring' = [avail_ring EXCEPT ![avail_idx % QUEUE_SIZE] = desc_id]
    /\ avail_idx' = Inc(avail_idx)
    /\ g_last_used_idx' = Inc(g_last_used_idx)
    /\ UNCHANGED <<device, int_status, g_shift, desc_id, chars>>

\* Mutant of IrqNotify: the interrupt is acknowledged on the way out.
IrqNotifyAck ==
    /\ Goto("notify", "idle")
    /\ int_status' = FALSE
    /\ UNCHANGED <<driver, device, g_shift, desc_id, chars>>

IrqNotify ==
    /\ Goto("notify", "idle")
    /\ UNCHANGED <<driver, device, int_status, g_shift, desc_id, chars>>

kbd_irq_handler == IrqEnter \/ IrqAck \/ IrqLoop \/ IrqHandle \/ IrqGive \/ IrqNotify

Next == kbd_irq_handler \/ \E kind \in Kinds : Deliver(kind)

Spec == Init /\ [][Next]_vars

\* A raised interrupt is taken and its handler runs to the end.  Nothing is
\* assumed of the device.
FairSpec == Spec /\ WF_vars(kbd_irq_handler)

-----------------------------------------------------------------------------
(* Properties.                                                             *)

\* Every variable has its type: the indices stay 16-bit words.
TypeOK ==
    /\ avail_ring \in [Descs -> Descs] /\ used_ring \in [Descs -> Descs]
    /\ {avail_idx, used_idx, g_last_used_idx, last_avail_idx} \subseteq Words
    /\ g_events \in [Descs -> 0 .. MaxEvents]
    /\ int_status \in BOOLEAN /\ g_shift \in BOOLEAN
    /\ pc \in {"idle", "ack", "loop", "handle", "give", "notify"} /\ desc_id \in Descs

\* The descriptors a ring holds between two indices, oldest first.
Window(ring, from, to) ==
    [k \in 1 .. (to - from) % U16 |-> ring[(from + k - 1) % QUEUE_SIZE]]

\* Every descriptor is with exactly one side: available to the device, or used
\* and not yet given back, also when the indices wrap.
OneOwner ==
    LET all == Window(avail_ring, last_avail_idx, avail_idx)
                 \o Window(used_ring, g_last_used_idx, used_idx)
    IN /\ Len(all) = QUEUE_SIZE
       /\ \A d \in Descs : \E k \in 1 .. QUEUE_SIZE : all[k] = d

\* The rings hold every descriptor once, with indices that stay 16-bit words.
QueueOK == TypeOK /\ OneOwner

\* How many of the events delivered the handler is done with.
Handled == Len(sent) - ((used_idx - g_last_used_idx) % U16)
             + (IF pc = "give" THEN 1 ELSE 0)

\* Was a shift key held, going by the events, just before event j?
Shifted(j) ==
    \E k \in 1 .. j - 1 : sent[k] = "down" /\ \A m \in k + 1 .. j - 1 : sent[m] # "up"

\* tty_input gets the character of every key press handled so far, once, in
\* order, and in the case that the shift key gave it when it was pressed.
CharsExact ==
    /\ \A k \in 1 .. Len(chars) :
          /\ chars[k][1] \in 1 .. Handled /\ sent[chars[k][1]] = "key"
          /\ chars[k][2] = Shifted(chars[k][1])
          /\ k > 1 => chars[k - 1][1] < chars[k][1]
    /\ \A j \in 1 .. Handled : sent[j] = "key" => \E k \in 1 .. Len(chars) : chars[k][1] = j

\* No event stays behind in the ring, whenever it arrives relative to the
\* acknowledgement and to the last test of the loop.
Drains == g_last_used_idx # used_idx ~> g_last_used_idx = used_idx
=============================================================================
