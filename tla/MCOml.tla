-------------------------------- MODULE MCOml --------------------------------
EXTENDS Oml
OmPlain == [kind |-> "nano", obj |-> {}, faults |-> {}, ts1 |-> "SDCCH", cell |-> {1, 3, 5}, hop |-> {1, 5}, win |-> 2,
            command |-> "", disc |-> FALSE, restart |-> FALSE, forced |-> FALSE, phase |-> "NORMAL"]
OmLengths == <<3, 2>>
OmTool == [OmPlain EXCEPT !.kind = "tool"]
OmSome ==
    {[OmPlain EXCEPT !.obj = {"SITE_MANAGER", "BTS", "RADIO_CARRIER"}, !.faults = {"lossy"}],
     [OmPlain EXCEPT !.obj = {"BASEB_TRANSC", "RADIO_CARRIER"}, !.faults = {"lossy", "locks"}],
     [OmPlain EXCEPT !.obj = {"RADIO_CARRIER"}, !.faults = {"hasty", "locks"}],
     [OmPlain EXCEPT !.obj = {"BASEB_TRANSC", "TS0"}, !.faults = {"nack"}],
     [OmPlain EXCEPT !.obj = {"BASEB_TRANSC", "TS0", "TS1"}, !.ts1 = "SDCCH_CBCH"],
     [OmPlain EXCEPT !.obj = {"TS0", "TS1"}, !.ts1 = "SDCCH_CBCH", !.faults = {"any_order"}],
     [OmPlain EXCEPT !.obj = {"NSE", "CELL", "NSVC"}, !.faults = {"lossy"}],
     [OmPlain EXCEPT !.obj = {"BTS", "BASEB_TRANSC", "RADIO_CARRIER", "TS0", "TS1"}],
     [OmPlain EXCEPT !.obj = {"TS0", "TS1"}, !.faults = {"any_order"}],
     [OmPlain EXCEPT !.obj = {"BASEB_TRANSC", "BTS"}, !.faults = {"rsl_again", "lossy"}],
     [OmPlain EXCEPT !.obj = {"BASEB_TRANSC"}, !.faults = {"rsl_again"}, !.cell = 1..10, !.hop = {2, 9, 10}],
     [OmPlain EXCEPT !.obj = {"BASEB_TRANSC"}, !.faults = {"load"}],
     [OmPlain EXCEPT !.obj = {"BASEB_TRANSC"}, !.faults = {"load", "second_load"}],
     [OmPlain EXCEPT !.obj = {"BASEB_TRANSC"}, !.faults = {"load", "second_load"}, !.win = 1],
     [OmPlain EXCEPT !.kind = "bs11", !.ts1 = "TCHFull", !.faults = {"closes"}],
     [OmTool EXCEPT !.phase = "SOFTWARE_RQD", !.faults = {"closes"}],
     [OmTool EXCEPT !.phase = "SOFTWARE_RQD", !.faults = {"nack"}],
     [OmTool EXCEPT !.phase = "MAINTENANCE", !.command = "software", !.faults = {"abort"}],
     [OmTool EXCEPT !.disc = TRUE, !.restart = TRUE],
     [OmTool EXCEPT !.phase = "MAINTENANCE", !.command = "software", !.faults = {"nack"}, !.forced = TRUE]}
    \cup {[OmTool EXCEPT !.phase = p, !.command = c] : p \in {"NORMAL", "MAINTENANCE"},
            c \in ToolLogsOff \cup {"query", "pll-workvalue", "disconnect", "reconnect", "software", "oml-tei", "restart"}}
=============================================================================
