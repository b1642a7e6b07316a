----------------------------- MODULE FlatMemory -----------------------------
(***************************************************************************)
(* What the memory interface promises its callers: a flat array of bytes.  *)
(* A write changes the byte at its own address and no other, a read        *)
(* returns the byte last written and changes nothing, the boot ROM can be  *)
(* switched off once and never comes back, and an access to an address     *)
(* that has nothing behind it stops the machine.                           *)
(***************************************************************************)
CONSTANTS Value,     \* the bytes written
          Cell,      \* addresses that keep what is written to them
          Deaf,      \* addresses that ignore writes and read as a fixed byte
          Fixed,     \* addresses that may read as a fixed byte and are not written
          Overlay,   \* the addresses of Fixed where the boot ROM is mapped
          Switch,    \* the address whose writing switches the overlay off
          Void       \* addresses with nothing behind them

Address == Cell \cup Deaf \cup Fixed \cup {Switch} \cup Void

VARIABLES mem,       \* the byte in each cell
          image,     \* the fixed byte where there is one; it never changes
          overlay,   \* the boot ROM is mapped
          call,      \* the last access: its kind, its address and, if it succeeded, the byte
          up         \* the machine has not stopped

vars == <<mem, image, overlay, call, up>>

Init ==
  /\ DOMAIN mem = Cell
  /\ Deaf \cup Overlay \subseteq DOMAIN image /\ DOMAIN image \subseteq Deaf \cup Fixed
  /\ overlay = TRUE /\ call = <<>> /\ up = TRUE

Readable(a) ==
  \/ a \in Cell
  \/ a \in DOMAIN image /\ (overlay \/ a \notin Overlay)

Content(a) == IF a \in Cell THEN mem[a] ELSE image[a]

Read(a) ==
  /\ Readable(a)
  /\ call' = <<"read", a, Content(a)>>
  /\ UNCHANGED <<overlay, up, mem, image>>

Write(a, v) ==
  /\ a \in Cell
  /\ call' = <<"write", a, v>>
  /\ mem' = [mem EXCEPT ![a] = v]
  /\ UNCHANGED <<overlay, up, image>>

Ignore(a, v) ==
  /\ a \in Deaf
  /\ call' = <<"write", a, v>>
  /\ UNCHANGED <<overlay, up, mem, image>>

SwitchOff(v) ==
  /\ call' = <<"write", Switch, v>>
  /\ overlay' = FALSE
  /\ UNCHANGED <<up, mem, image>>

\* A read where nothing can be read, a write where nothing can be written.
Stop(a) ==
  /\ \/ call' = <<"read", a>>  /\ ~Readable(a)
     \/ call' = <<"write", a>> /\ a \in Fixed \cup Void
  /\ up' = FALSE
  /\ UNCHANGED <<overlay, mem, image>>

Next ==
  /\ up
  /\ \/ \E v \in Value : SwitchOff(v)
     \/ \E a \in Address : Read(a) \/ Stop(a) \/ \E v \in Value : Write(a, v) \/ Ignore(a, v)

Spec == Init /\ [][Next]_vars
=============================================================================
