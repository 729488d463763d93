-------------------------------- MODULE ZkvmIo --------------------------------
(***************************************************************************)
(* What a zkVM runtime promises to the guest program and to the verifier:  *)
(* the io-interface of zkvm/common/zkvm_io.h and the termination semantics *)
(* the three runtimes quote (0 is success, anything else is not).          *)
(*                                                                         *)
(* An option is a sequence of at most one element.                         *)
(***************************************************************************)
EXTENDS Integers, SequencesExt

CONSTANT IsPrivate(_)   \* the private inputs a host may provide

VARIABLES
    private,    \* the private input, a sequence of bytes
    view,       \* option: what read_input has returned
    output,     \* the bytes passed to write_output, concatenated
    returned,   \* option: the value main has returned
    exit,       \* option: the exit code of the virtual machine
    public      \* the public values the verifier sees after the exit

zvars == <<private, view, output, returned, exit, public>>

Init ==
    /\ IsPrivate(private)
    /\ view = << >>
    /\ output = << >>
    /\ returned = << >>
    /\ exit = << >>
    /\ public = << >>

Running == returned = << >> /\ exit = << >>

\* The same buffer, however often it is asked for.
ReadInput ==
    /\ Running
    /\ view' = <<private>>
    /\ UNCHANGED <<private, output, returned, exit, public>>

WriteOutput ==
    /\ Running
    /\ IsPrefix(output, output')
    /\ UNCHANGED <<private, view, returned, exit, public>>

Return ==
    /\ Running
    /\ Len(returned') = 1
    /\ UNCHANGED <<private, view, output, exit, public>>

\* The public values p are the bytes of o, padded with zeros at most.
Publishes(p, o) ==
    /\ Len(o) <= Len(p)
    /\ \A i \in 1..Len(p) : p[i] = IF i <= Len(o) THEN o[i] ELSE 0

Finish ==
    /\ returned # << >>
    /\ exit = << >>
    /\ Len(exit') = 1
    /\ exit'[1] = 0 <=> returned[1] = 0
    /\ Publishes(public', output)
    /\ UNCHANGED <<private, view, output, returned>>

\* A panic ends the machine as a failure, with what was written or nothing.
Panic ==
    /\ Running
    /\ Len(exit') = 1
    /\ exit'[1] # 0
    /\ Publishes(public', output) \/ Publishes(public', << >>)
    /\ UNCHANGED <<private, view, output, returned>>

Next == ReadInput \/ WriteOutput \/ Return \/ Finish \/ Panic

Spec == Init /\ [][Next]_zvars
=============================================================================
