------------------------------- MODULE Serial -------------------------------
(***************************************************************************)
(* The COM1 driver: a message is formatted in pieces, and each piece is    *)
(* offered to the UART byte by byte with a bounded wait.  A byte is its    *)
(* piece and its place in it.  The UART is external: at any poll it may    *)
(* take some bytes or none, be full, or lack a clear-to-send.              *)
(***************************************************************************)
EXTENDS Integers, Sequences

CONSTANT TRANSMIT_SPIN_LIMIT

VARIABLES
  SERIAL1,       \* does the slot hold a UART?
  pc,            \* "init", "idle" or "send"
  message, piece,
  remaining, spins,
  out,           \* what the UART was given of this message
  gave_up        \* did a piece of this message end early?

Bytes(p, length) == [i \in 1 .. length |-> <<p, i>>]

Init ==
  /\ SERIAL1 = FALSE /\ pc = "init" /\ message = << >> /\ piece = 0
  /\ remaining = << >> /\ spins = 0 /\ out = << >> /\ gave_up = FALSE

\* The port may be missing or refuse its configuration.
init ==
  /\ pc = "init"
  /\ SERIAL1' \in BOOLEAN /\ pc' = "idle"
  /\ UNCHANGED <<message, piece, remaining, spins, out, gave_up>>

\* _print, up to the first piece; without a UART it does nothing.
print(m) ==
  /\ pc = "idle"
  /\ message' = m /\ out' = << >> /\ gave_up' = FALSE
  /\ piece' = 0 /\ remaining' = << >> /\ spins' = 0
  /\ pc' = IF SERIAL1 THEN "send" ELSE "idle"
  /\ UNCHANGED SERIAL1

\* send returns; write_fmt goes on with the next piece, whatever became of this one.
next_piece ==
  /\ pc = "send" /\ remaining = << >>
  /\ IF piece = Len(message)
     THEN pc' = "idle" /\ UNCHANGED <<piece, remaining, spins>>
     ELSE /\ piece' = piece + 1 /\ remaining' = Bytes(piece', message[piece'])
          /\ spins' = 0 /\ UNCHANGED pc
  /\ UNCHANGED <<SERIAL1, message, out, gave_up>>

Abandon == remaining' = << >> /\ gave_up' = TRUE /\ UNCHANGED <<spins, out>>

\* ready_to_send is Ok: send_bytes takes some of the bytes, or none.
Ready ==
  \E sent \in 0 .. Len(remaining) :
    IF sent = 0 THEN Abandon
    ELSE /\ out' = out \o SubSeq(remaining, 1, sent)
         /\ remaining' = SubSeq(remaining, sent + 1, Len(remaining))
         /\ spins' = 0 /\ UNCHANGED gave_up

NoCapacity ==
  IF spins + 1 > TRANSMIT_SPIN_LIMIT THEN Abandon
  ELSE spins' = spins + 1 /\ UNCHANGED <<remaining, out, gave_up>>

\* Mutant: the byte is written and offered again.
RemoteNotClearToSend_again ==
  out' = Append(out, Head(remaining)) /\ spins' = 0 /\ UNCHANGED <<remaining, gave_up>>

\* One byte straight into the holding register.
RemoteNotClearToSend ==
  /\ out' = Append(out, Head(remaining)) /\ remaining' = Tail(remaining)
  /\ spins' = 0 /\ UNCHANGED gave_up

send ==
  /\ pc = "send" /\ remaining # << >>
  /\ Ready \/ NoCapacity \/ RemoteNotClearToSend
  /\ UNCHANGED <<SERIAL1, pc, message, piece>>

Sending == next_piece \/ send
-----------------------------------------------------------------------------
Before(a, b) == a[1] < b[1] \/ (a[1] = b[1] /\ a[2] < b[2])

Sent(byte) == \E k \in 1 .. Len(out) : out[k] = byte

(***************************************************************************)
(* Whatever mixture of answers the UART gives, bytes of the message go out *)
(* and nothing else, in order, none twice, and of each piece a prefix:     *)
(* send "Writes as much of `bytes` as the UART will take, dropping the     *)
(* rest".  A message with a byte missing is one the UART refused: it       *)
(* stayed full beyond the limit or took nothing.                           *)
(***************************************************************************)
OutputIsTheMessage ==
  /\ \A j \in 1 .. Len(out) : out[j][1] \in 1 .. Len(message) /\ out[j][2] \in 1 .. message[out[j][1]]
  /\ \A j, k \in 1 .. Len(out) : j < k => Before(out[j], out[k])
  /\ \A j \in 1 .. Len(out) : out[j][2] > 1 => Sent(<<out[j][1], out[j][2] - 1>>)
  /\ pc = "idle" /\ SERIAL1 /\ ~gave_up =>
       \A p \in 1 .. Len(message) : \A i \in 1 .. message[p] : Sent(<<p, i>>)
=============================================================================
