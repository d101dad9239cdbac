---------------------------- MODULE MC_Syscalls -----------------------------
(* Small instances of Syscalls for TLC.  The integer widths are scaled    *)
(* down (Mod32 = 16 stands for 2^32) so that the i32/u32/i64/u64 boundaries *)
(* fall inside the argument sets.                                          *)
EXTENDS Syscalls

CONSTANTS a, b

MCBadUtf8 == {b}
MCPayload == <<a>>
MCArgs32 == {-1, 0, 1, 2}
MCArgs64 == {-1, 3}
MCExitCodes == {-1}
MCArgs32Small == {-1, 0, 1}
\* Arguments that every pop_i32 of the handlers converts (no codec abort).
MCArgs32Decodable == {0, 1}

\* The families the runs explore separately; every run keeps the end of
\* the call (GuestReturn, Finished).
SpecControl ==
    Init /\ [][ControlSyscall \/ QuerySyscall \/ MemorySyscall
              \/ GuestReturn \/ Finished]_vars
SpecMessages ==
    Init /\ [][send \/ send_wgas \/ send_commit \/ send_commit_wgas
              \/ send_init \/ send_push \/ reply \/ reply_wgas
              \/ reply_commit \/ reply_commit_wgas \/ reply_push \/ error
              \/ GuestReturn \/ Finished]_vars
SpecCreate ==
    Init /\ [][create_program \/ create_program_wgas \/ error
              \/ GuestReturn \/ Finished]_vars

=============================================================================
