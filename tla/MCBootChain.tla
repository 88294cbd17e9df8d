----------------------------- MODULE MCBootChain -----------------------------
(* Command lines and host files for TLC.                                   *)
EXTENDS BootChain

Mdir(p)     == [tool |-> "mdir", path |-> p, src |-> ""]
Mcopy(f, p) == [tool |-> "mcopy", path |-> p, src |-> f]

Boot   == <<"boot">>
Config == <<"config.cfg">>
Stage2 == <<"stage2.bin">>
Kernel == <<"boot", "kernel.bin">>

\* Two builds, the second with a longer stage 2 and a shorter kernel.
Sizes == [config |-> 2, stage2_a |-> 3, stage2_b |-> 14,
          kernel_a |-> 27, kernel_b |-> 0]
Paths2 == [config |-> Kernel]
Bins   == {"stage2.bin"}

MakeRecipe == <<{Mkfs}, {Mdir(Boot)}, {Mcopy("config", Config)},
                {Mcopy("stage2_a", Stage2), Mcopy("stage2_b", Stage2)},
                {Mcopy("kernel_a", Kernel), Mcopy("kernel_b", Kernel)}>>
MakeCalls == UNION {MakeRecipe[n] : n \in DOMAIN MakeRecipe}

\* Everything once by hand, a directory in a directory, and another file for
\* a path that may be taken.
HandCalls ==
    {Mkfs, Mdir(Boot), Mdir(<<"boot", "old">>), Mcopy("config", Config),
     Mcopy("stage2_b", Stage2), Mcopy("kernel_a", Kernel), Mcopy("kernel_b", Kernel)}

\* A name for a directory and for a file.
AnyCalls == {Mkfs, Mdir(Boot), Mcopy("config", Kernel)}

ThreeUsers ==
    {[discipline |-> "make", calls |-> MakeCalls, interrupts |-> 2],
     [discipline |-> "prudent", calls |-> HandCalls, interrupts |-> 1],
     [discipline |-> "any", calls |-> AnyCalls, interrupts |-> 1]}

\* Nothing goes wrong but that there are too many files.
Careful == {[discipline |-> "prudent", calls |-> HandCalls, interrupts |-> 0]}

=============================================================================
