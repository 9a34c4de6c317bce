-------------------------- MODULE MCNativeSession --------------------------
(* Two requests, two results, two replays: long enough for an adapter to    *)
(* ask differently in a later stage and for the limit to be reached.        *)
EXTENDS NativeSession

CONSTANTS t1, t2, ok, bad

MCTools == {t1, t2}
MCResults == {ok, bad}
=============================================================================
