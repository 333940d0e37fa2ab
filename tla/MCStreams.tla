------------------------------ MODULE MCStreams ------------------------------
(***************************************************************************)
(* A pipe, the clock with the spin locks, the console's input and the      *)
(* UART's output for TLC.  They share no state: Init chooses the part that *)
(* is explored, and the others stay at their start.                        *)
(***************************************************************************)
EXTENDS Pipe, TLC

CONSTANTS c1, c2, p1, p2, r1, r2

VARIABLES
  part,
  sie, noff, intena, old, clkpc, tickslock, clklock, ticks, clkasleep, clkkilled, clkn, ticks0, elapsed,
  cbuf, r, w, e, conlock, conpc, conn, target, conkilled,
  txbuf, txw, txr, fifo, txirq, outpc, outleft

clkvars == <<sie, noff, intena, old, clkpc, tickslock, clklock, ticks, clkasleep, clkkilled, clkn, ticks0, elapsed>>
convars == <<cbuf, r, w, e, conlock, conpc, conn, target, conkilled>>
outvars == <<txbuf, txw, txr, fifo, txirq, outpc, outleft>>

\* sys_sleep(-1), which is sys_sleep(2) here, sys_sleep(1), and sys_sleep(0) or
\* sys_uptime().
Clk == INSTANCE Clock WITH
  CPUs <- {c1, c2}, cpu0 <- c1, NoCpu <- Nobody, Uint <- 3, Sleeps <- {-1, 0, 1},
  pc <- clkpc, plock <- clklock, asleep <- clkasleep, killed <- clkkilled, n <- clkn

Con == INSTANCE Console WITH
  Readers <- Writers, INPUT_BUF_SIZE <- 2, Uint <- 4, MaxN <- 2,
  lock <- conlock, pc <- conpc, n <- conn, killed <- conkilled

Out == INSTANCE Uart WITH
  Bytes <- {0, 1}, Kernel <- 2, UART_TX_BUF_SIZE <- 2, Uint64 <- 4, MaxN <- 2, pc <- outpc, left <- outleft

\* Two writers and a reader, or a writer and two readers, have the pipe open.
PipeInit == Init /\ ends \in {Procs \ {p2}, Procs \ {r2}}

\* In the end every process has closed the pipe.
PipeClosed == ends = {} /\ UNCHANGED vars

StreamsInit ==
  /\ part \in {"pipe", "console", "uart", "clock"}
  /\ PipeInit /\ Clk!Init /\ Con!Init /\ Out!Init
  /\ part # "pipe" => ends = Procs \ {p2} /\ data = [k \in 0 .. PIPESIZE - 1 |-> 0]

StreamsNext ==
  \/ part = "pipe" /\ (Next \/ PipeClosed) /\ UNCHANGED <<part, clkvars, convars, outvars>>
  \/ part = "clock" /\ Clk!Next /\ UNCHANGED <<part, vars, convars, outvars>>
  \/ part = "console" /\ Con!Next /\ UNCHANGED <<part, vars, clkvars, outvars>>
  \/ part = "uart" /\ Out!Next /\ UNCHANGED <<part, vars, clkvars, convars>>

StreamsSpec == StreamsInit /\ [][StreamsNext]_<<part, vars, clkvars, convars, outvars>>

Symmetry == Permutations(Writers) \cup Permutations(Readers)

-----------------------------------------------------------------------------
(* The properties of the clock, the console and the UART *)

\* Clock's InterruptSafe: no interrupt handler spins on a lock of its own CPU.
InterruptSafe == Clk!InterruptSafe

\* Clock's SleepExact: sleep(n) returns after n ticks.
SleepExact == Clk!SleepExact

\* Console's CommittedKept: committed input is a queue that editing never reaches.
CommittedKept == Con!CommittedKept

\* Uart's OutputInOrder: what is written is sent in order and once.
OutputInOrder == Out!OutputInOrder

\* Console's InputFlows and Uart's OutputMoves: the console's input never wedges,
\* and the transmitter never stalls with bytes to send.
TerminalMoves == Con!InputFlows /\ Out!OutputMoves
=============================================================================
