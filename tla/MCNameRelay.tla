---------------------------- MODULE MCNameRelay -----------------------------
(***************************************************************************)
(* Two players and the server itself.  Guild chat goes to two mappings,    *)
(* achievements along with it, the custom channel to one of them whatever  *)
(* its case; one mapping only listens to Discord.                          *)
(***************************************************************************)
EXTENDS NameRelay, TLC

Mapping(direction, type, wow, discord) ==
    [direction |-> direction, chat_type |-> type, wow_channel |-> wow,
     discord_channel |-> discord]

MCMappings == <<
    Mapping("both", "guild", "", "d1"),
    Mapping("wow_to_discord", "guild", "", "d2"),
    Mapping("discord_to_wow", "guild", "", "d2"),
    Mapping("wow_to_discord", "channel", "LFG", "d2") >>

MCLower == ("" :> "") @@ ("LFG" :> "lfg") @@ ("lfg" :> "lfg") @@ ("General" :> "general")

MCSaid == { [from |-> 1, type |-> "guild", channel |-> ""],
            [from |-> 2, type |-> "channel", channel |-> "lfg"],
            [from |-> 0, type |-> "channel", channel |-> "General"] }

MCPlainSaid == { [from |-> 1, type |-> "guild", channel |-> ""] }
=============================================================================
