------------------------- MODULE FrankfurterClientMC -------------------------
(***************************************************************************)
(* An instance of FrankfurterClient for TLC: durations of five bits, every *)
(* policy Config.Validate accepts, and headers around every limit.         *)
(***************************************************************************)
EXTENDS FrankfurterClient

MCPolicies ==
    [MaxAttempts: 1..10, InitialDelay: 0..MaxDuration, MaxDelay: 1..MaxDuration]

MCHeaders ==
    [kind: {"absent", "other"}, value: {0}]
        \union [kind: {"seconds"}, value: -1..(MaxDuration + 1)]
        \union [kind: {"date"}, value: -1..(MaxDuration + 2)]
=============================================================================
