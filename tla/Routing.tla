------------------------------- MODULE Routing ------------------------------
(***************************************************************************)
(* Which of the configured channel mappings a WoW message goes through     *)
(* (discord_bridge/bot.py).  Chat types are the names of the configuration *)
(* file; "" stands for an absent channel name.                             *)
(***************************************************************************)
EXTENDS Naturals, Sequences

CONSTANTS
    Mappings,     \* config.channels: a sequence of records with the fields
                  \* direction, chat_type, wow_channel, discord_channel
    Lower         \* str.lower on the channel names in play

Targets == DOMAIN Mappings

ASSUME RoutingAssumption == Targets \subseteq Nat

\* CHAT_TYPE_BY_NAME: the configured types the bridge knows.
KnownTypes == {"say", "party", "raid", "guild", "officer", "yell", "whisper",
               "channel", "emote", "system"}

\* An achievement is announced wherever guild chat is.
TypeFits(mapping, msg) ==
    /\ mapping.chat_type \in KnownTypes
    /\ mapping.chat_type = IF msg.type = "achievement" THEN "guild" ELSE msg.type

ChannelFits(mapping, msg) ==
    msg.type = "channel" => Lower[mapping.wow_channel] = Lower[msg.channel]

\* _find_mapping_for_wow_message
FindMapping(msg) ==
    {t \in Targets : /\ Mappings[t].direction \in {"wow_to_discord", "both"}
                     /\ TypeFits(Mappings[t], msg)
                     /\ ChannelFits(Mappings[t], msg)}

\* The loops over the mappings go in configured order.
Foremost(route) == {t \in route : \A u \in route : t <= u}
=============================================================================
