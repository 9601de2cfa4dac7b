------------------------- MODULE MCWsManagerBridge -------------------------
(***************************************************************************)
(* The bridge against a ws-manager that may send anything: every phase     *)
(* with every version, a prebuild ending in each of its ways.              *)
(***************************************************************************)
EXTENDS WsManagerBridge

CONSTANT MaxVersion

AnyStatus ==
    [phase : Phases, cond : {{}}, version : 1..MaxVersion]
        \cup [phase : {"STOPPING"}, version : 1..MaxVersion,
              cond : {{"timeout"}, {"failed"}, {"stoppedByRequest"},
                      {"headlessTaskFailed"}, {"snapshot"}}]
=============================================================================
