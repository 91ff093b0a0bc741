--------------------------------- MODULE Fiq ---------------------------------
(* Fast interrupts on the single-core Feroceon KW2: registration in          *)
(* arch/arm/kernel/fiq.c (request_fiq, free_fiq), the mask and cause         *)
(* registers of mach-feroceon-kw2/fiq.c, and the dispatch of asm_do_FIQ.     *)
(*                                                                           *)
(* A fast interrupt is taken as soon as it is asserted, whatever locks the   *)
(* interrupted code holds, and runs to its end before that code goes on.     *)
(* The callers of request_fiq (ports being opened) are tasks that may be     *)
(* preempted between any two of their steps.                                 *)
(*                                                                           *)
(* The registers have Bits bits where the chip has 32, and a summary bit of  *)
(* the high register stands for PerBit GPIO pins where the chip has 8.       *)
EXTENDS Integers, FiniteSets

CONSTANTS
    Tasks,      \* callers of request_fiq and free_fiq
    Bits,       \* width of a register
    GppFirst,   \* first and last bit of the high cause register that
    GppLast,    \*   summarises GPIO pins
    PerBit,     \* pins per summary bit
    Mixes,      \* sets of lines that drivers ask for
    MaxRaises,  \* bound on the number of times a device raises its line
    NULL

IRQ_GPP_START == 3 * Bits
NR_IRQS == IRQ_GPP_START + PerBit * (GppLast - GppFirst + 1)
Lines == 0 .. NR_IRQS - 1

ASSUME FiqAssumption ==
    /\ Bits \in Nat \ {0} /\ PerBit \in Nat \ {0}
    /\ GppFirst \in 0 .. Bits - 1 /\ GppLast \in GppFirst .. Bits - 1
    /\ Mixes \subseteq SUBSET (Lines \cup {NR_IRQS})
    /\ MaxRaises \in Nat
    /\ NULL \notin Tasks

VARIABLES
    lines,      \* the lines asked for in this behaviour: never changes
    desc,       \* fiq_desc[]: who registered handler and dev
    mask,       \* bits set in the FIQ mask registers and the GPIO masks
    pc,         \* what each task is doing
    line,       \* the line it does it for
    saved,      \* the register it has read and not yet written back
    ret,        \* what its request_fiq returned
    raised,     \* lines and pins that devices hold asserted
    raises,     \* how many times they were raised
    cpu,        \* "run" or where in asm_do_FIQ the processor is
    fiq,        \* the number get_fiq_nr returned
    debug_regs, \* mode of the interrupted code, NULL outside asm_do_FIQ
    held,       \* are irq_desc locks taken by a dump and not given back
    met,        \* have two calls overlapped on one register
    oops        \* was a handler called with a NULL dev

tvars == <<desc, mask, pc, line, saved, ret, met>>
fvars == <<cpu, fiq, debug_regs, held, oops>>
hvars == <<raised, raises>>
vars == <<lines, tvars, fvars, hvars>>

Init ==
    /\ lines \in Mixes
    /\ desc = [n \in Lines |-> [handler |-> NULL, dev |-> NULL]]
    /\ mask = {}
    /\ pc = [t \in Tasks |-> "idle"]
    /\ line = [t \in Tasks |-> 0]
    /\ saved = [t \in Tasks |-> {}]
    /\ ret = [t \in Tasks |-> "none"]
    /\ raised = {} /\ raises = 0
    /\ cpu = "run" /\ fiq = -1 /\ debug_regs = NULL
    /\ held = FALSE /\ met = FALSE /\ oops = FALSE

-----------------------------------------------------------------------------
(* The interrupt controller.                                                 *)

\* The register with the mask bit of line n: low, high, error, GPIO masks.
Register(n) == {m \in Lines : m \div Bits = n \div Bits}

Pins == IRQ_GPP_START .. NR_IRQS - 1

Summary(p) == Bits + GppFirst + (p - IRQ_GPP_START) \div PerBit

\* Line 0 is the summary of the high register; the GPIO bits of the high
\* register summarise unmasked pins.
Sources ==
    {n \in 1 .. IRQ_GPP_START - 1 :
        n - Bits \notin GppFirst .. GppLast} \cup Pins

CauseHigh ==
    (raised \cap (Bits .. 2 * Bits - 1))
    \cup {Summary(p) : p \in raised \cap Pins \cap mask}

CauseLow ==
    (raised \cap (0 .. Bits - 1)) \cup (IF CauseHigh # {} THEN {0} ELSE {})

CauseError == raised \cap (2 * Bits .. 3 * Bits - 1)

FiqAsserted == (CauseLow \cup CauseHigh \cup CauseError) \cap mask # {}

\* A device with a driver raises its line, and holds it until its handler has run.
Raise(n) ==
    /\ raises < MaxRaises
    /\ n \in (Sources \cap lines) \ raised
    /\ raised' = raised \cup {n}
    /\ raises' = raises + 1
    /\ UNCHANGED <<lines, tvars, fvars>>

-----------------------------------------------------------------------------
(* request_fiq and free_fiq.  No task runs while a FIQ is asserted.          *)

Runs(t, where) == pc[t] = where /\ cpu = "run" /\ ~FiqAsserted

Goes(t, to) == pc' = [pc EXCEPT ![t] = to]

\* Does a call for line n begin while another one uses the same register.
Meets(t, n) ==
    \E u \in Tasks \ {t} : pc[u] # "idle" /\ line[u] \in Register(n)

Begins(t, n, to) ==
    /\ Goes(t, to)
    /\ line' = [line EXCEPT ![t] = n]
    /\ met' = (met \/ Meets(t, n))

\* Mutant: the line is masked before the tests, as fiq.origin.c does.
RefusedMasked(t, n) ==
    /\ Runs(t, "idle") /\ ret[t] # "ok" /\ n \in lines
    /\ n < NR_IRQS => desc[n].handler # NULL
    /\ ret' = [ret EXCEPT ![t] = "EINVAL"]
    /\ mask' = mask \ {n}
    /\ UNCHANGED <<lines, desc, pc, line, saved, met, hvars, fvars>>

RequestRefused(t, n) ==
    /\ Runs(t, "idle") /\ ret[t] # "ok" /\ n \in lines
    /\ n < NR_IRQS => desc[n].handler # NULL
    /\ ret' = [ret EXCEPT ![t] = "EINVAL"]
    /\ UNCHANGED <<lines, desc, mask, pc, line, saved, met, hvars, fvars>>

RequestTests(t, n) ==
    /\ Runs(t, "idle") /\ ret[t] # "ok" /\ n \in lines
    /\ n < NR_IRQS /\ desc[n].handler = NULL
    /\ Begins(t, n, "mask")
    /\ UNCHANGED <<lines, desc, mask, saved, ret, hvars, fvars>>

free_fiq(t) ==
    /\ Runs(t, "idle") /\ ret[t] = "ok"
    /\ Begins(t, line[t], "mask")
    /\ UNCHANGED <<lines, desc, mask, saved, ret, hvars, fvars>>

\* MV_REG_BIT_RESET and MV_REG_BIT_SET read the register and write it back.
ReadMask(t) ==
    /\ \/ Runs(t, "mask") /\ Goes(t, "masking")
       \/ Runs(t, "unmask") /\ Goes(t, "unmasking")
    /\ saved' = [saved EXCEPT ![t] = mask \cap Register(line[t])]
    /\ UNCHANGED <<lines, desc, mask, line, ret, met, hvars, fvars>>

Written(t, bits) == mask' = (mask \ Register(line[t])) \cup bits

chip_mask_fiq(t) ==
    /\ Runs(t, "masking")
    /\ Written(t, saved[t] \ {line[t]})
    /\ Goes(t, IF ret[t] = "ok" THEN "clear" ELSE "set")
    /\ saved' = [saved EXCEPT ![t] = {}]
    /\ UNCHANGED <<lines, desc, line, ret, met, hvars, fvars>>

SetDev(t) ==
    /\ Runs(t, "set")
    /\ desc' = [desc EXCEPT ![line[t]].dev = t]
    /\ Goes(t, "handler")
    /\ UNCHANGED <<lines, mask, line, saved, ret, met, hvars, fvars>>

SetHandler(t) ==
    /\ Runs(t, "handler")
    /\ desc' = [desc EXCEPT ![line[t]].handler = t]
    /\ Goes(t, "unmask")
    /\ UNCHANGED <<lines, mask, line, saved, ret, met, hvars, fvars>>

chip_unmask_fiq(t) ==
    /\ Runs(t, "unmasking")
    /\ Written(t, saved[t] \cup {line[t]})
    /\ ret' = [ret EXCEPT ![t] = "ok"]
    /\ Goes(t, "idle")
    /\ saved' = [saved EXCEPT ![t] = {}]
    /\ UNCHANGED <<lines, desc, line, met, hvars, fvars>>

ClearDev(t) ==
    /\ Runs(t, "clear")
    /\ desc' = [desc EXCEPT ![line[t]].dev = NULL]
    /\ Goes(t, "forget")
    /\ UNCHANGED <<lines, mask, line, saved, ret, met, hvars, fvars>>

ClearHandler(t) ==
    /\ Runs(t, "forget")
    /\ desc' = [desc EXCEPT ![line[t]].handler = NULL]
    /\ ret' = [ret EXCEPT ![t] = "none"]
    /\ line' = [line EXCEPT ![t] = 0]
    /\ Goes(t, "idle")
    /\ UNCHANGED <<lines, mask, saved, met, hvars, fvars>>

-----------------------------------------------------------------------------
(* asm_do_FIQ.                                                               *)

find_first_bit(S) == CHOOSE n \in S : \A m \in S : n <= m

\* Mutant: a high line is not numbered from Bits.
FromHighBare(n) == n - Bits

\* The first bit of the first cause register that has one.  A GPIO summary
\* bit gives the first pin it stands for; an error bit is returned as it is.
FromHigh(n) ==
    IF n - Bits \in GppFirst .. GppLast
    THEN (n - Bits - GppFirst) * PerBit + IRQ_GPP_START
    ELSE n

get_fiq_nr ==
    LET low == CauseLow \cap mask
        high == IF 0 \in CauseLow THEN CauseHigh \cap mask ELSE {}
        error == CauseError \cap mask
    IN IF low # {} THEN find_first_bit(low)
       ELSE IF high # {} THEN FromHigh(find_first_bit(high))
       ELSE IF error # {} THEN find_first_bit(error) - 2 * Bits
       ELSE -1

\* mode: that of the interrupted code.
asm_do_FIQ(mode) ==
    /\ cpu = "run" /\ FiqAsserted
    /\ cpu' = "fiq"
    /\ debug_regs' = mode
    /\ fiq' = get_fiq_nr
    /\ UNCHANGED <<lines, tvars, hvars, held, oops>>

\* For each line it locks irq_desc[i].lock and, where it should unlock it,
\* locks it again.
fiq_show_interrupts == held' = TRUE

\* Called by the handler for the character 0x7f; mmp: the chip's hook wants no
\* dump.
show_fiq_debug(mmp) ==
    IF debug_regs = "svc" /\ ~mmp THEN fiq_show_interrupts ELSE UNCHANGED held

\* The handler of a port quiets the device of the port it was given.
generic_handle_fiq(dump, mmp) ==
    LET d == desc[fiq].dev
    IN /\ cpu = "fiq"
       /\ cpu' = "exit"
       /\ \/ /\ fiq = -1 \/ (fiq \in Lines /\ desc[fiq].handler = NULL)
             /\ ~dump /\ ~mmp
             /\ UNCHANGED <<raised, held, oops>>
          \/ /\ fiq # -1 /\ desc[fiq].handler # NULL /\ d = NULL
             /\ ~dump /\ ~mmp
             /\ oops' = TRUE
             /\ UNCHANGED <<raised, held>>
          \/ /\ fiq # -1 /\ desc[fiq].handler # NULL /\ d # NULL
             /\ dump => line[d] \in raised
             /\ mmp => dump
             /\ raised' = raised \ {line[d]}
             /\ IF dump THEN show_fiq_debug(mmp) ELSE UNCHANGED held
             /\ UNCHANGED oops
       /\ UNCHANGED <<lines, tvars, raises, fiq, debug_regs>>

FiqReturns ==
    /\ cpu = "exit"
    /\ cpu' = "run"
    /\ debug_regs' = NULL
    /\ fiq' = -1
    /\ UNCHANGED <<lines, tvars, hvars, held, oops>>

-----------------------------------------------------------------------------

Next ==
    \/ \E n \in Sources : Raise(n)
    \/ \E t \in Tasks, n \in Lines \cup {NR_IRQS} :
         RequestRefused(t, n) \/ RequestTests(t, n)
    \/ \E t \in Tasks :
         \/ free_fiq(t)
         \/ ReadMask(t) \/ chip_mask_fiq(t) \/ chip_unmask_fiq(t)
         \/ SetDev(t) \/ SetHandler(t)
         \/ ClearDev(t) \/ ClearHandler(t)
    \/ \E mode \in {"svc", "usr"} : asm_do_FIQ(mode)
    \/ \E dump, mmp \in BOOLEAN : generic_handle_fiq(dump, mmp)
    \/ FiqReturns

Spec == Init /\ [][Next]_vars

\* A FIQ that is asserted is taken, and a handler that runs comes to an end:
\* the processor does that, no scheduler is involved.
FairSpec ==
    /\ Spec
    /\ WF_vars(\E mode \in {"svc", "usr"} : asm_do_FIQ(mode))
    /\ WF_vars(\E dump, mmp \in BOOLEAN : generic_handle_fiq(dump, mmp))
    /\ WF_vars(FiqReturns)

-----------------------------------------------------------------------------

\* The variables are of the declared kind; get_fiq_nr returns a line or -1.
TypeOK ==
    /\ lines \in Mixes
    /\ desc \in [Lines -> [handler : Tasks \cup {NULL}, dev : Tasks \cup {NULL}]]
    /\ mask \subseteq Lines
    /\ pc \in [Tasks -> {"idle", "mask", "masking", "set", "handler", "unmask",
                         "unmasking", "clear", "forget"}]
    /\ line \in [Tasks -> Lines]
    /\ saved \in [Tasks -> SUBSET Lines]
    /\ ret \in [Tasks -> {"none", "ok", "EINVAL"}]
    /\ raised \subseteq Sources /\ raises \in 0 .. MaxRaises
    /\ cpu \in {"run", "fiq", "exit"}
    /\ fiq \in Lines \cup {-1}
    /\ debug_regs \in {NULL, "svc", "usr"}
    /\ held \in BOOLEAN
    /\ met \in BOOLEAN /\ oops \in BOOLEAN

\* A FIQ can hit request_fiq and free_fiq between any two stores and must not
\* see half a registration: as long as no two calls have overlapped on one
\* mask register, a line that is unmasked has a handler and the dev that was
\* registered with it.
Ready ==
    ~met => \A n \in mask : /\ desc[n].handler # NULL
                            /\ desc[n].dev = desc[n].handler

\* When no call is under way for it, a line is unmasked if it has a handler:
\* no registered device is left without its interrupt by a call for another
\* line or by a call that failed.
HandledIsUnmasked ==
    ~met => \A n \in Lines :
        /\ desc[n].handler # NULL
        /\ \A t \in Tasks : pc[t] # "idle" => line[t] # n
        => n \in mask

\* A line can interrupt if and only if it can be handled, whatever request_fiq
\* and free_fiq are in the middle of.
UnmaskedIffReady == TypeOK /\ Ready /\ HandledIsUnmasked

\* The lines get_fiq_nr numbers as request_fiq does.  It does not: error
\* lines, which it numbers from 0; pins that are not the first of their
\* summary bit; the summary of the high register.
Numbered ==
    /\ 0 \notin lines
    /\ \A n \in lines :
        /\ n \notin 2 * Bits .. 3 * Bits - 1
        /\ n \in Pins => (n - IRQ_GPP_START) % PerBit = 0

\* The interrupted code goes on: once devices stop raising their lines, the
\* FIQs come to an end, because each one reaches the handler that quiets its
\* device, and none is called with the NULL that free_fiq has stored for dev.
FiqsEnd ==
    []~met /\ Numbered => []~oops /\ []<>(cpu = "run" /\ ~FiqAsserted)

-----------------------------------------------------------------------------
(* Statements that the code does not keep.                                   *)

\* fiq_show_interrupts gives back the locks it takes.
LocksReleased == ~held

\* The two halves of FiqsEnd for every line request_fiq accepts.
NeverOops == ~met => ~oops
FiqsAlwaysEnd == []~met => []<>(cpu = "run" /\ ~FiqAsserted)

\* Calls for different lines do not disturb each other.
ReadyAlways ==
    \A n \in mask : desc[n].handler # NULL /\ desc[n].dev = desc[n].handler
=============================================================================
