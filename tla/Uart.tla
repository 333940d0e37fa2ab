-------------------------------- MODULE Uart --------------------------------
(***************************************************************************)
(* Output through the UART (kernel/uart.c, consolewrite() in console.c).   *)
(* Writers put bytes into a ring with uartputc(), and uartstart() moves    *)
(* them to the transmitter, called by the writer and by uartintr(), with   *)
(* uart_tx_lock.  The kernel's own characters (printf(), echo) go to the   *)
(* transmitter with uartputc_sync(), without that lock: between a test of  *)
(* LSR_TX_IDLE and the write of THR that follows, the other side may write *)
(* too, and uartinit()'s FIFO takes both bytes.                            *)
(***************************************************************************)
EXTENDS Integers, Sequences

CONSTANTS
  Writers,
  Bytes,
  Kernel,  \* a byte of the kernel's own
  UART_TX_BUF_SIZE,
  Uint64,  \* the range of the indices
  MaxN     \* bound: largest n of a write()

VARIABLES
  txbuf, txw, txr,  \* uart_tx_buf, uart_tx_w, uart_tx_r
  fifo,             \* the bytes in the transmitter
  txirq,            \* the transmitter's interrupt is pending
  pc, left          \* where writers, the handler and printf() are; n - i

vars == <<txbuf, txw, txr, fifo, txirq, pc, left>>

Starters == Writers \cup {"intr"}  \* who calls uartstart()

Inc(x) == (x + 1) % Uint64
Slot(x) == x % UART_TX_BUF_SIZE

Init ==
  /\ txbuf = [i \in 0 .. UART_TX_BUF_SIZE - 1 |-> 0]
  /\ txw = 0 /\ txr = 0
  /\ fifo = <<>>
  /\ txirq = FALSE
  /\ pc = [x \in Starters \cup {"sync"} |-> "out"]
  /\ left = [p \in Writers |-> 0]

\* LSR_TX_IDLE
Idle == fifo = <<>>

\* uart_tx_lock is held by who is in uartstart(); elsewhere within one step.
Locked == \E x \in Starters : pc[x] \in {"start", "thr"}

-----------------------------------------------------------------------------
(* uartstart(), with uart_tx_lock *)

\* The top of its loop: return, and release(&uart_tx_lock), if there is nothing
\* to send or the transmitter is busy.
uartstart(x) ==
  /\ pc[x] = "start"
  /\ pc' = [pc EXCEPT ![x] =
              IF txw # txr /\ Idle THEN "thr"
              ELSE IF x \in Writers /\ left[x] > 0 THEN "put" ELSE "out"]
  /\ UNCHANGED <<txbuf, txw, txr, fifo, txirq, left>>

\* Its end: take a byte, wakeup(&uart_tx_r), write THR, and around again.
WriteThr(x) ==
  /\ pc[x] = "thr"
  /\ txr' = Inc(txr)
  /\ fifo' = Append(fifo, txbuf[Slot(txr)])
  /\ pc' = [y \in DOMAIN pc |-> IF y = x THEN "start"
                                ELSE IF pc[y] = "asleep" THEN "put" ELSE pc[y]]
  /\ UNCHANGED <<txbuf, txw, txirq, left>>

-----------------------------------------------------------------------------
(* The writers *)

\* consolewrite() of k bytes.
Call(p) ==
  /\ pc[p] = "out"
  /\ \E k \in 1 .. MaxN : left' = [left EXCEPT ![p] = k]
  /\ pc' = [pc EXCEPT ![p] = "put"]
  /\ UNCHANGED <<txbuf, txw, txr, fifo, txirq>>

Full_late == txw = (txr + UART_TX_BUF_SIZE + 1) % Uint64

Full == txw = (txr + UART_TX_BUF_SIZE) % Uint64

\* uartputc() up to sleep(), or up to uartstart().
uartputc(p) ==
  /\ pc[p] = "put" /\ ~Locked
  /\ \/ /\ Full
        /\ pc' = [pc EXCEPT ![p] = "asleep"]
        /\ UNCHANGED <<txbuf, txw, left>>
     \/ /\ ~Full
        /\ \E b \in Bytes : txbuf' = [txbuf EXCEPT ![Slot(txw)] = b]
        /\ txw' = Inc(txw)
        /\ left' = [left EXCEPT ![p] = @ - 1]
        /\ pc' = [pc EXCEPT ![p] = "start"]
  /\ UNCHANGED <<txr, fifo, txirq>>

\* consolewrite()'s either_copyin() fails before the next byte.
CopyFails(p) ==
  /\ pc[p] = "put"
  /\ pc' = [pc EXCEPT ![p] = "out"]
  /\ left' = [left EXCEPT ![p] = 0]
  /\ UNCHANGED <<txbuf, txw, txr, fifo, txirq>>

\* kill() of a writer that sleeps; uartputc()'s loop tests again.
Rouse(p) ==
  /\ pc[p] = "asleep"
  /\ pc' = [pc EXCEPT ![p] = "put"]
  /\ UNCHANGED <<txbuf, txw, txr, fifo, txirq, left>>

-----------------------------------------------------------------------------
(* The kernel, the transmitter and its interrupt *)

\* The kernel prints a character: it spins until the transmitter is idle, then
\* writes THR.
uartputc_sync ==
  /\ \/ /\ pc["sync"] = "out" /\ Idle
        /\ pc' = [pc EXCEPT !["sync"] = "thr"]
        /\ UNCHANGED fifo
     \/ /\ pc["sync"] = "thr"
        /\ pc' = [pc EXCEPT !["sync"] = "out"]
        /\ fifo' = Append(fifo, Kernel)
  /\ UNCHANGED <<txbuf, txw, txr, txirq, left>>

\* The transmitter has sent a byte, and interrupts when it has no other.
Sent ==
  /\ ~Idle
  /\ fifo' = Tail(fifo)
  /\ txirq' = (txirq \/ fifo' = <<>>)
  /\ UNCHANGED <<txbuf, txw, txr, pc, left>>

\* uartintr(): input goes to consoleintr(), then uartstart().
uartintr ==
  /\ txirq /\ pc["intr"] = "out" /\ ~Locked
  /\ txirq' = FALSE
  /\ pc' = [pc EXCEPT !["intr"] = "start"]
  /\ UNCHANGED <<txbuf, txw, txr, fifo, left>>

Next ==
  \/ \E p \in Writers : Call(p) \/ uartputc(p) \/ CopyFails(p) \/ Rouse(p)
  \/ \E x \in Starters : uartstart(x) \/ WriteThr(x)
  \/ uartputc_sync \/ Sent \/ uartintr

Spec == Init /\ [][Next]_vars

-----------------------------------------------------------------------------
(* Properties *)

IsWritten(b) == b # Kernel
Diff(x, y) == (x - y) % Uint64

\* The bytes uartputc() has taken that are not on the line yet.
Pending == SelectSeq(fifo, IsWritten)
             \o [k \in 1 .. Diff(txw, txr) |-> txbuf[Slot(txr + k - 1)]]

\* What uartputc() takes reaches the line in order and once: when the ring is
\* full, when the indices wrap, whoever of writer and interrupt handler moves
\* it on, and when uartputc_sync() writes THR between uartstart()'s test of
\* LSR_TX_IDLE and its own write.
OutputInOrder ==
  [][\/ \E b \in Bytes : Pending' = Append(Pending, b)
     \/ Pending' = Pending
     \/ Pending # <<>> /\ Pending' = Tail(Pending) /\ Len(fifo') < Len(fifo)]_vars

\* Output never stalls: while bytes are in the ring somebody is in uartstart(),
\* the transmitter is at work, or its interrupt is to come, also when the
\* kernel's own characters slip in between; and a writer sleeps only while the
\* ring is full.
OutputMoves ==
  /\ txw # txr => Locked \/ ~Idle \/ txirq
  /\ \A p \in Writers : pc[p] = "asleep" => Full
=============================================================================
