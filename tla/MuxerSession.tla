---------------------------- MODULE MuxerSession ----------------------------
(***************************************************************************)
(* What the muxer library asks of its users: a stream is opened once and   *)
(* closed before it is opened again, frames go into an open stream, and    *)
(* nobody opens or closes a stream, nor writes another frame, while a      *)
(* frame is being written (the library is called by one thread at a time). *)
(* Closing a stream that is not open is allowed.                           *)
(*                                                                         *)
(* The recorder of storage.c keeps this protocol with a mutex and a run    *)
(* flag, over record threads, encoder threads and server threads (module   *)
(* Recorder).                                                              *)
(***************************************************************************)
CONSTANT Streams

VARIABLES
    session,  \* per stream: "inited" or "deinited"
    inUse     \* the streams into which a frame is being written

vars == <<session, inUse>>

Init ==
    /\ session = [i \in Streams |-> "deinited"]
    /\ inUse = {}

(* rkmuxer_init *)
Open(i) ==
    /\ inUse = {}
    /\ session[i] = "deinited"
    /\ session' = [session EXCEPT ![i] = "inited"]
    /\ UNCHANGED inUse

(* rkmuxer_deinit *)
Shut(i) ==
    /\ inUse = {}
    /\ session' = [session EXCEPT ![i] = "deinited"]
    /\ UNCHANGED inUse

(* rkmuxer_write_video_frame, rkmuxer_write_audio_frame: call and return   *)
BeginFrame(i) ==
    /\ inUse = {}
    /\ session[i] = "inited"
    /\ inUse' = {i}
    /\ UNCHANGED session

EndFrame ==
    /\ inUse' = {}
    /\ UNCHANGED session

Next == EndFrame \/ \E i \in Streams : Open(i) \/ Shut(i) \/ BeginFrame(i)

Spec == Init /\ [][Next]_vars
=============================================================================
