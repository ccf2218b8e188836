--------------------------- MODULE MCDiscordRelay ---------------------------
(***************************************************************************)
(* One Discord channel relayed to guild chat and, unless the text is       *)
(* filtered, to officer chat and a WoW channel.  Mappings of the wrong     *)
(* direction or another channel and those send_chat refuses are between    *)
(* them.                                                                   *)
(***************************************************************************)
EXTENDS DiscordRelay

Mapping(direction, type, wow, discord, filters) ==
    [direction |-> direction, chat_type |-> type, wow_channel |-> wow,
     discord_channel |-> discord, filters |-> filters]

MCMappings == <<
    Mapping("wow_to_discord", "officer", "", "d1", {}),
    Mapping("both", "guild", "", "d1", {}),
    Mapping("both", "whisper", "", "d1", {}),
    Mapping("discord_to_wow", "officer", "", "d1", {"noisy"}),
    Mapping("both", "channel", "", "d1", {}),
    Mapping("both", "channel", "LFG", "d1", {"noisy"}),
    Mapping("both", "guild", "", "d2", {}) >>

\* Lower case is a matter of the other direction.
MCLower == [name \in {"", "LFG"} |-> name]

MCPosts ==
    { [channel |-> "d1", author |-> "user", text |-> "plain"],
      [channel |-> "d1", author |-> "user", text |-> "noisy"],
      [channel |-> "d1", author |-> "user", text |-> "!who"],
      [channel |-> "d1", author |-> "bot", text |-> "plain"] }
=============================================================================
