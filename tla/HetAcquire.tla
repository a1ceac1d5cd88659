------------------------------ MODULE HetAcquire ------------------------------
(***************************************************************************)
(* hetAcquire.c with hetDriver.c: the program that reads the HET board     *)
(* over VME and publishes what it finds, block by block.                   *)
(*                                                                         *)
(* The board is not in the repository: its registers, its memory (a FIFO)  *)
(* and the order of the words of an event are modelled from the way the    *)
(* program uses them.  A word is its kind; all but "D" have bit 31 set.    *)
(***************************************************************************)
EXTENDS Integers, Sequences, FiniteSets

CONSTANTS
  Block,       \* words of one DMA read: a quarter of the memory
  PollTries,   \* reads of register 6 in PollingVme (10)
  TrigPolls,   \* reads of register 6 for the trigger counter (1000)
  TrigMod,     \* the trigger counter wraps here (4096)
  Burst,       \* triggers that AbilitazioneTriggerAut causes (4)
  MaxData,     \* bound: data words of an event
  MaxEvents,   \* bound: events of the board
  MaxFaults    \* bound: failed reads, and crashes

ASSUME HetAssumption ==
  /\ Block \in Nat \ {0} /\ PollTries \in Nat \ {0} /\ TrigPolls \in Nat \ {0}
  /\ TrigMod \in Nat \ {0} /\ Burst \in Nat
  /\ MaxData \in Nat /\ MaxEvents \in Nat /\ MaxFaults \in Nat

Kinds == {"H1", "H2", "D", "F1", "F2", "E"}
High == {"H2", "F1", "F2", "E"}

\* Registers 1 and 4 are sets of bits; SR3 is the value 0x00090000 or another.
Running == {"T1", "T2", "UKN"}
ResetBits == {"MEM", "FSM"}
SR1Values == {Running, {"T1"}, {"T1", "UKN"}, {"T1", "MEM", "FSM"}, {"SR3"},
              {"T1", "AUTO"}, {"T1", "T2", "AUTO"}}
SR4Values == {{}, ResetBits, ResetBits \cup {"GLOBAL", "PLL", "CTRL"}}

VARIABLES
  testmode,            \* option -t
  pc,                  \* where main is
  after,               \* where ResetMemoria returns to
  save,                \* result_save
  retry, r6, status,   \* of PollingVme
  trig_old, nn,        \* of the trigger loop
  evtbuf, cnt, shm_state, eventn,   \* the block and its decoder
  ds,                  \* the handle's dataset: STATUS, EVENTS, FIFO
  sr1, sr3, sr4,       \* board: registers
  mem,                 \* board: words in the FIFO
  bk, nd,              \* board: kind of its last word, data words so far
  trig, pending,       \* board: triggers counted, triggers still to come
  server,              \* the last dataset the server took
  nev, faults,         \* events and faults so far
  blk, total           \* history: last block decoded, whole events up to it

poll == <<retry, r6, status>>
loop == <<trig_old, nn>>
dec == <<evtbuf, cnt, shm_state, eventn>>
regs == <<sr1, sr3, sr4>>
board == <<mem, bk, nd, trig, pending, nev>>
hist == <<blk, total>>
prog == <<save, poll, loop, dec, ds>>
vars == <<testmode, pc, after, prog, regs, board, server, faults, hist>>

Unset == [status |-> 99, events |-> 0, fifo |-> <<>>]

-----------------------------------------------------------------------------
(* The board.                                                              *)

\* The order of the words of an event, and of events: one that has begun goes
\* on, data or not.
Follows(a, b) ==
  CASE a = "H1" -> b = "H2"
    [] a = "H2" -> b \in {"D", "F1"}
    [] a = "D"  -> b \in {"D", "F1"}
    [] a = "F1" -> b = "F2"
    [] a = "F2" -> b = "E"
    [] a = "E"  -> b = "H1"

Resetting == "MEM" \in sr1 /\ "MEM" \in sr4

\* An event begins on a trigger, which both levels must let through; in test
\* mode there are only those that the program causes.
Triggered ==
  /\ {"T1", "T2"} \subseteq sr1 /\ nev < MaxEvents
  /\ testmode => pending > 0

BoardWord(k) ==
  /\ ~Resetting /\ Len(mem) < 4 * Block /\ Follows(bk, k)
  /\ k = "H1" => Triggered
  /\ k = "D" => nd < MaxData
  /\ mem' = Append(mem, k) /\ bk' = k
  /\ nd' = CASE k = "H1" -> 0 [] k = "D" -> nd + 1 [] OTHER -> nd
  /\ nev' = IF k = "H1" THEN nev + 1 ELSE nev
  /\ pending' = IF k = "H1" /\ testmode THEN pending - 1 ELSE pending
  /\ trig' = IF k = "E" THEN (trig + 1) % TrigMod ELSE trig
  /\ UNCHANGED <<testmode, pc, after, prog, regs, server, faults, hist>>

\* Writing register 4 resets what register 1 allows to be reset: the memory, and
\* the state machines that were in the middle of an event.
WriteSR4(bits) ==
  /\ sr4' = bits
  /\ IF "MEM" \in sr1 /\ "MEM" \in bits
       THEN /\ mem' = <<>> /\ bk' = "E" /\ pending' = 0
            /\ UNCHANGED <<nd, trig, nev>>
       ELSE UNCHANGED board

\* What register 6 shows of the memory: PollingVme's status.
Occupancy ==
  IF mem = <<>> THEN 5
  ELSE IF Len(mem) < Block THEN 4
  ELSE IF Len(mem) < 2 * Block THEN 3
  ELSE IF Len(mem) < 3 * Block THEN 2
  ELSE IF Len(mem) < 4 * Block THEN 1 ELSE 0

-----------------------------------------------------------------------------
(* ResetMemoria.                                                           *)

SaveSR1 ==
  /\ pc = "rm_save" /\ pc' = "rm_enable"
  /\ save' = sr1 /\ sr1' = {"T1"}
  /\ UNCHANGED <<testmode, after, poll, loop, dec, ds, sr3, sr4, board,
                 server, faults, hist>>

EnableReset ==
  /\ pc = "rm_enable" /\ pc' = "rm_pulse"
  /\ sr1' = {"T1", "MEM", "FSM"}
  /\ UNCHANGED <<testmode, after, prog, sr3, sr4, board, server, faults, hist>>

PulseReset ==
  /\ pc = "rm_pulse" /\ pc' = "rm_clear"
  /\ WriteSR4(ResetBits)
  /\ UNCHANGED <<testmode, after, prog, sr1, sr3, server, faults, hist>>

ClearReset ==
  /\ pc = "rm_clear" /\ pc' = "rm_restore"
  /\ WriteSR4({})
  /\ UNCHANGED <<testmode, after, prog, sr1, sr3, server, faults, hist>>

\* Seeded fault: the reset stays enabled.
BadRestoreSR1 ==
  /\ pc = "rm_restore" /\ pc' = after
  /\ UNCHANGED <<testmode, after, prog, regs, board, server, faults, hist>>

RestoreSR1 ==
  /\ pc = "rm_restore" /\ pc' = after
  /\ sr1' = save
  /\ UNCHANGED <<testmode, after, prog, sr3, sr4, board, server, faults, hist>>

-----------------------------------------------------------------------------
(* Configuration and registration.                                         *)

\* The reset of everything, for which nothing in register 1 was enabled.
ResetAll ==
  /\ pc = "config" /\ ~testmode /\ pc' = "write"
  /\ WriteSR4(ResetBits \cup {"GLOBAL", "PLL", "CTRL"})
  /\ UNCHANGED <<testmode, after, prog, sr1, sr3, server, faults, hist>>

Configure ==
  /\ pc = "write" /\ pc' = "register"
  /\ WriteSR4({})
  /\ sr1' = Running /\ sr3' \in {"ZS", "other"}
  /\ UNCHANGED <<testmode, after, prog, server, faults, hist>>

\* InitTDCV5.  When register 3 is not what it should be, the value for it is
\* written to register 1.
InitT1 ==
  /\ pc = "config" /\ testmode /\ pc' = "initT2"
  /\ sr1' = IF sr1 # Running THEN {"T1", "UKN"} ELSE sr1
  /\ UNCHANGED <<testmode, after, prog, sr3, sr4, board, server, faults, hist>>

InitT2 ==
  /\ pc = "initT2" /\ pc' = "register"
  /\ sr1' = IF sr3 # "ZS" THEN {"SR3"} ELSE Running
  /\ UNCHANGED <<testmode, after, prog, sr3, sr4, board, server, faults, hist>>

\* chaos_crest_open, ADD_CU and chaos_crest_register; any of them may fail.
Register ==
  /\ pc = "register" /\ pc' \in {"prime", "exit"}
  /\ ds' = Unset
  /\ UNCHANGED <<testmode, after, save, poll, loop, dec, regs, board,
                 server, faults, hist>>

\* The server takes the dataset, or the error is printed.
Publish == server' \in {server, ds'}

Prime ==
  /\ pc = "prime" /\ pc' = "loop"
  /\ ds' = [status |-> Occupancy, events |-> eventn, fifo |-> <<>>]
  /\ Publish
  /\ UNCHANGED <<testmode, after, save, poll, loop, dec, regs, board, faults, hist>>

-----------------------------------------------------------------------------
(* The loop: triggers in test mode.                                        *)

Loop ==
  /\ pc = "loop" /\ pc' = IF testmode THEN "aut_save" ELSE "poll"
  /\ retry' = 0 /\ nn' = 0
  /\ UNCHANGED <<testmode, after, save, r6, status, trig_old, dec, ds, regs, board,
                 server, faults, hist>>

\* AbilitazioneTriggerAut.
AutSave ==
  /\ pc = "aut_save" /\ pc' = "aut_fire"
  /\ save' = sr1 /\ sr1' = {"T1", "AUTO"}
  /\ UNCHANGED <<testmode, after, poll, loop, dec, ds, sr3, sr4, board,
                 server, faults, hist>>

AutFire ==
  /\ pc = "aut_fire" /\ pc' = "aut_restore"
  /\ sr1' = {"T1", "T2", "AUTO"} /\ pending' = pending + Burst
  /\ UNCHANGED <<testmode, after, prog, sr3, sr4, mem, bk, nd, trig, nev,
                 server, faults, hist>>

AutRestore ==
  /\ pc = "aut_restore" /\ pc' = "count"
  /\ sr1' = save
  /\ UNCHANGED <<testmode, after, prog, sr3, sr4, board, server, faults, hist>>

GiveUp == nn + 1 = TrigPolls

\* The counter must have gone on by exactly Burst; the last read is not even
\* compared.
CountTriggers ==
  /\ pc = "count"
  /\ nn' = nn + 1
  /\ \/ GiveUp /\ pc' = "exit" /\ UNCHANGED trig_old
     \/ /\ ~GiveUp
        /\ IF (trig_old + Burst) % TrigMod = trig
             THEN pc' = "poll" /\ trig_old' = trig
             ELSE pc' = pc /\ UNCHANGED trig_old
  /\ UNCHANGED <<testmode, after, save, poll, dec, ds, regs, board,
                 server, faults, hist>>

-----------------------------------------------------------------------------
(* The loop: PollingVme.                                                   *)

PollAgain == r6' = 99 /\ retry' <= PollTries

\* One read of register 6: a 0 (99) is an error and is read again, a value that
\* is none of the six is status 90.  A value read at the last try is thrown away,
\* but is the STATUS all the same.
Poll ==
  /\ pc = "poll"
  /\ retry' = retry + 1
  /\ \/ r6' = Occupancy /\ UNCHANGED faults
     \/ r6' \in {90, 99} /\ faults < MaxFaults /\ faults' = faults + 1
  /\ status' = IF retry' > PollTries THEN 99 ELSE r6'
  /\ IF PollAgain
       THEN pc' = pc /\ UNCHANGED ds
       ELSE pc' = "check" /\ ds' = [ds EXCEPT !.status = r6']
  /\ UNCHANGED <<testmode, after, save, loop, dec, regs, board, server, hist>>

\* Seeded fault: a quarter is not yet enough.
BadEnough == status < 3

\* HOWTOREAD.
Enough == status <= 3

Check ==
  /\ pc = "check" /\ pc' = IF Enough THEN "dma" ELSE "loop"
  /\ UNCHANGED <<testmode, after, prog, regs, board, server, faults, hist>>

-----------------------------------------------------------------------------
(* The loop: reading, decoding and publishing a block.                     *)

\* Seeded fault: the decoder goes on where the block before ended.
BadStartDecoder == cnt' = 0 /\ UNCHANGED shm_state

StartDecoder == cnt' = 0 /\ shm_state' = "SEARCH"

\* VmeDmaRead.  After an error some words may be gone; the memory is emptied and
\* the old values are pushed once more.
DmaRead ==
  /\ pc = "dma"
  /\ evtbuf' = SubSeq(mem, 1, Block) /\ mem' = SubSeq(mem, Block + 1, Len(mem))
  /\ StartDecoder
  /\ pc' = "decode"
  /\ UNCHANGED <<testmode, after, save, poll, loop, eventn, ds, regs,
                 bk, nd, trig, pending, nev, server, faults, hist>>

DmaError ==
  /\ pc = "dma" /\ faults < MaxFaults /\ faults' = faults + 1
  /\ \E k \in 0..Block : mem' = SubSeq(mem, k + 1, Len(mem))
  /\ pc' = "rm_save" /\ after' = "push"
  /\ UNCHANGED <<testmode, prog, regs, bk, nd, trig, pending, nev, server, hist>>

\* The decoder's next state on a word.
Decoded(s, w) ==
  IF w = "H1" THEN "HEADER1"
  ELSE IF s = "HEADER1" /\ w = "H2" THEN "HEADER2"
  ELSE IF s \in {"HEADER2", "DATA"} /\ w = "D" THEN "DATA"
  ELSE IF s = "DATA" /\ w \in High THEN "FOOTER1"
  ELSE IF s = "FOOTER1" /\ w \in High THEN "FOOTER2"
  ELSE IF s = "FOOTER2" /\ w = "E" THEN "SEARCH"
  ELSE s

DecodeWord ==
  /\ pc = "decode" /\ cnt < Block
  /\ cnt' = cnt + 1
  /\ shm_state' = Decoded(shm_state, evtbuf[cnt + 1])
  /\ eventn' = IF shm_state = "FOOTER2" /\ evtbuf[cnt + 1] = "E"
                 THEN eventn + 1 ELSE eventn
  /\ UNCHANGED <<testmode, pc, after, save, poll, loop, evtbuf, ds, regs, board,
                 server, faults, hist>>

\* History: an event is whole in the words b when they hold its header, a data
\* word and its end, which is at k.
HasIn(b, k, w) == \E i \in 1..k : b[i] = w /\ \A m \in i..(k - 1) : b[m] # "E"

WholeAt(b, k) == b[k] = "E" /\ HasIn(b, k, "H1") /\ HasIn(b, k, "D")

WholeIn(b, n) == Cardinality({k \in 1..n : WholeAt(b, k)})

\* Seeded fault: EVENTS is not updated with the FIFO.
BadUpdated == [ds EXCEPT !.fifo = evtbuf]

Updated == [ds EXCEPT !.events = eventn, !.fifo = evtbuf]

DecodeEnd ==
  /\ pc = "decode" /\ cnt = Block
  /\ ds' = Updated
  /\ blk' = evtbuf /\ total' = total + WholeIn(evtbuf, Block)
  /\ pc' = "push"
  /\ UNCHANGED <<testmode, after, save, poll, loop, dec, regs, board, server, faults>>

Push ==
  /\ pc = "push" /\ pc' = "loop"
  /\ UNCHANGED ds /\ Publish
  /\ UNCHANGED <<testmode, after, save, poll, loop, dec, regs, board, faults, hist>>

-----------------------------------------------------------------------------
(* The process dies anywhere, and start_hetn.sh starts it again; the board *)
(* stays as it was left.                                                   *)

Crash ==
  /\ pc # "exit" /\ faults < MaxFaults /\ faults' = faults + 1
  /\ pc' = "exit"
  /\ UNCHANGED <<testmode, after, prog, regs, board, server, hist>>

Restart ==
  /\ pc = "exit" /\ pc' = "rm_save" /\ after' = "config"
  /\ save' = {} /\ retry' = 0 /\ r6' = 0 /\ status' = 0
  /\ trig_old' = 0 /\ nn' = 0
  /\ evtbuf' = <<>> /\ cnt' = 0 /\ shm_state' = "SEARCH" /\ eventn' = 0
  /\ ds' = Unset /\ blk' = <<>> /\ total' = 0
  /\ UNCHANGED <<testmode, regs, board, server, faults>>

Init ==
  /\ pc = "rm_save" /\ after = "config"
  /\ save = {} /\ retry = 0 /\ r6 = 0 /\ status = 0
  /\ trig_old = 0 /\ nn = 0
  /\ evtbuf = <<>> /\ cnt = 0 /\ shm_state = "SEARCH" /\ eventn = 0
  /\ ds = Unset /\ blk = <<>> /\ total = 0
  /\ testmode \in BOOLEAN
  /\ sr1 \in SR1Values /\ sr3 \in {"ZS", "other"} /\ sr4 \in SR4Values
  /\ mem = <<>> /\ bk = "E" /\ nd = 0 /\ trig = 0 /\ pending = 0
  /\ server = Unset /\ nev = 0 /\ faults = 0

Program ==
  \/ SaveSR1 \/ EnableReset \/ PulseReset \/ ClearReset \/ RestoreSR1
  \/ ResetAll \/ Configure \/ InitT1 \/ InitT2 \/ Register \/ Prime
  \/ Loop \/ AutSave \/ AutFire \/ AutRestore \/ CountTriggers
  \/ Poll \/ Check \/ DmaRead \/ DmaError \/ DecodeWord \/ DecodeEnd \/ Push

Next == (\E k \in Kinds : BoardWord(k)) \/ Program \/ Crash \/ Restart

\* The program runs, and the script restarts it; nothing is assumed of the board.
Spec == Init /\ [][Next]_vars /\ WF_vars(Program) /\ WF_vars(Restart)

-----------------------------------------------------------------------------
(* Properties.                                                             *)

Places == {"rm_save", "rm_enable", "rm_pulse", "rm_clear", "rm_restore", "config",
           "write", "initT2", "register", "prime", "loop", "aut_save", "aut_fire",
           "aut_restore", "count", "poll", "check", "dma", "decode", "push", "exit"}

States == {"SEARCH", "HEADER1", "HEADER2", "DATA", "FOOTER1", "FOOTER2"}

Status == 0..5 \cup {90, 99}

Dataset == [status: Status, events: Nat, fifo: Seq(Kinds)]

TypeOK ==
  /\ testmode \in BOOLEAN /\ pc \in Places /\ after \in {"config", "push"}
  /\ save \in SR1Values \cup {{}}
  /\ retry \in 0..(PollTries + 1) /\ r6 \in Status /\ status \in Status
  /\ trig_old \in Nat /\ nn \in 0..TrigPolls
  /\ evtbuf \in Seq(Kinds) /\ cnt \in 0..Block /\ shm_state \in States
  /\ eventn \in Nat /\ ds \in Dataset /\ server \in Dataset
  /\ sr1 \in SR1Values /\ sr3 \in {"ZS", "other"} /\ sr4 \in SR4Values
  /\ mem \in Seq(Kinds) /\ Len(mem) <= 4 * Block /\ bk \in Kinds
  /\ nd \in Nat /\ trig \in Nat /\ pending \in Nat /\ nev \in Nat /\ faults \in Nat
  /\ blk \in Seq(Kinds) /\ total \in Nat

\* EVENTS counts the events that lie whole, with their data, in one of the blocks
\* read, and no other: wherever a block begins and ends, whatever a failed read
\* or a reset of the memory has cut off.
CountsWhole ==
  pc # "exit" =>
    eventn = total + IF pc = "decode" THEN WholeIn(evtbuf, cnt) ELSE 0

\* Whenever the program polls, reads or publishes, register 1 is what was
\* configured, and no reset is held: however the resets and the automatic triggers
\* save and restore it, and wherever the program before was killed.  Only in test
\* mode, and with another value in register 3, is it the value meant for that one.
RegistersRight ==
  pc \in {"prime", "loop", "count", "poll", "check", "dma", "decode", "push"} =>
    /\ sr4 = {}
    /\ sr1 = IF testmode /\ sr3 # "ZS" THEN {"SR3"} ELSE Running

\* What the server takes belongs together: the FIFO is the last block read, and
\* EVENTS the number of events up to its end, also when a read has failed.
EventsMatchFifo ==
  [][server' # server => server'.fifo = blk /\ server'.events = total]_vars

\* A quarter full is read, or given up with the run: the memory does not stay
\* full while the program polls.
Drained == Len(mem) >= Block ~> Len(mem) < Block

-----------------------------------------------------------------------------
(* The inductive invariant behind them.                                    *)

\* What the board has written is a piece of its stream of events.
Stream(b) == \A i \in 1..(Len(b) - 1) : Follows(b[i], b[i + 1])

BoardInv == Stream(mem) /\ (mem # <<>> => mem[Len(mem)] = bk)

\* A block is read only when the memory holds one.
BlockInv ==
  /\ pc = "check" /\ status <= 3 => Len(mem) >= Block
  /\ pc = "dma" => Len(mem) >= Block
  /\ pc = "decode" => Len(evtbuf) = Block /\ Stream(evtbuf)

\* The decoder's state tells where in an event the word k is, and whether the
\* event began in the block.
Scanned(b, k, s) ==
  IF k = 0 \/ ~HasIn(b, k, "H1") THEN s = "SEARCH"
  ELSE LET d == HasIn(b, k, "D") IN
       CASE b[k] = "H1" -> s = "HEADER1" /\ ~d
         [] b[k] = "H2" -> s = "HEADER2" /\ ~d
         [] b[k] = "D"  -> s = "DATA" /\ d
         [] b[k] = "F1" -> s = IF d THEN "FOOTER1" ELSE "HEADER2"
         [] b[k] = "F2" -> s = IF d THEN "FOOTER2" ELSE "HEADER2"
         [] b[k] = "E"  -> s = IF d THEN "SEARCH" ELSE "HEADER2"

ScanInv == pc = "decode" => Scanned(evtbuf, cnt, shm_state)

InReset == pc \in {"rm_save", "rm_enable", "rm_pulse", "rm_clear", "rm_restore"}

Starting ==
  \/ InReset /\ after = "config"
  \/ pc \in {"config", "write", "initT2", "register", "prime"}

DsInv ==
  /\ ds.fifo = blk /\ ds.events = total
  /\ Starting => eventn = 0 /\ total = 0 /\ blk = <<>>

Right == IF testmode /\ sr3 # "ZS" THEN {"SR3"} ELSE Running

\* What register 1 is to become again is saved while it is something else.
RegInv ==
  /\ pc \in {"register", "prime", "loop", "aut_save", "count", "poll", "check",
             "dma", "decode", "push"} => sr1 = Right
  /\ pc \in {"aut_fire", "aut_restore"} => save = Right
  /\ InReset /\ after = "push" => IF pc = "rm_save" THEN sr1 = Right ELSE save = Right
  /\ InReset /\ pc # "rm_save" => save \in SR1Values
  /\ ~InReset /\ pc \notin {"write", "exit"} => sr4 = {}
  /\ pc = "rm_restore" => sr4 = {}
  /\ pc = "write" => ~testmode
  /\ pc = "initT2" => testmode

\* The two bounded loops have not used up their tries.
TriesInv ==
  /\ pc \in {"aut_save", "aut_fire", "aut_restore", "count"} =>
       nn < TrigPolls /\ retry = 0
  /\ pc = "poll" => retry <= PollTries

HetInv ==
  /\ TypeOK /\ TriesInv /\ BoardInv /\ BlockInv /\ ScanInv /\ DsInv /\ RegInv /\ CountsWhole
=============================================================================
