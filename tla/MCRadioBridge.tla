---------------------------- MODULE MCRadioBridge ----------------------------
(* A small instance of RadioBridge: the band is the default one, 1420..1580,    *)
(* and the channel takes its two limits, where the comparisons decide.          *)
EXTENDS RadioBridge

SwitchValues == {1420, 1580}

(* One position, noise inside the band, the other position.                   *)
NoisyValues == {1200, 1450, 1550, 1800}

Flag(option)         == [option |-> option, value |-> {}]
Value(option, value) == [option |-> option, value |-> {value}]

DefaultCommandLine == {<<>>}

(* Options that change what the program does, and arguments that end it.       *)
EachCommandLine ==
    {<<Flag("--status-after-command"), Value("--tool-id", 2)>>,
     <<Flag("--dry-run"), Flag("--no-request-rc-stream")>>,
     <<Flag("--dry-run"), Flag("--status-after-command"), Value("--request-rc-rate-hz", 0)>>,
     <<Flag("--dry-run"), Value("--mavlink-request-port", 0)>>,
     <<Value("--mavlink-request-port", 65536)>>,
     <<Value("--switch-hysteresis", 400)>>,
     <<Value("--tool-baud", 1200)>>,
     <<Flag("--help")>>}

(* RC_CHANNELS comes first, behind HEARTBEAT, or behind COMMAND_LONG.          *)
SomeFronts == {<<"SKIPPED">>, <<"OTHER">>}
NoFront    == {<<>>}
=============================================================================
