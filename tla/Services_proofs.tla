--------------------------- MODULE Services_proofs ---------------------------
(***************************************************************************)
(* The components side by side.  Whatever component a behaviour of         *)
(* MCServices picks, what the others do is a behaviour of theirs: each     *)
(* takes its own steps or none.  So what is proved of a component alone    *)
(* holds of it here, for every value of the constants, and the invariants  *)
(* that MCServices states of several components follow.                    *)
(***************************************************************************)
EXTENDS MCServices, Tasks_proofs, Servers_proofs

(* A component takes a step of its own or stands still, those of clients and  *)
(* of tasks.                                                                  *)
LEMMA TasksStepAlone ==
  ASSUME [Next]_vars
  PROVE  /\ [PoolNext]_poolVars /\ [DagNext]_dagVars /\ [LimiterNext]_limiterVars
         /\ [BridgeNext]_bridgeVars /\ [StreamNext]_streamVars
         /\ [CaptureNext]_captureVars /\ [RotateNext]_rotateVars
<1>1. CASE UNCHANGED vars
  BY <1>1 DEF vars, clientVars, taskVars
<1>2. CASE Next
  <2>1. [PoolNext]_poolVars
    <3>1. (focus = "pool" /\ PoolNext) \/ (focus # "pool" /\ Others)
      BY <1>2 DEF Next
    <3>. QED
      BY <3>1 DEF Others, Idle, clientVars
  <2>2. [DagNext]_dagVars
    <3>1. (focus = "dag" /\ DagNext) \/ (focus # "dag" /\ Others)
      BY <1>2 DEF Next
    <3>. QED
      BY <3>1 DEF Others, Idle, taskVars
  <2>3. [LimiterNext]_limiterVars
    <3>1. (focus = "limiter" /\ LimiterNext) \/ (focus # "limiter" /\ Others)
      BY <1>2 DEF Next
    <3>. QED
      BY <3>1 DEF Others, Idle, taskVars
  <2>4. [BridgeNext]_bridgeVars
    <3>1. BlockingNext \/ OffloadNext \/ (focus \notin {"blocking", "offload"} /\ Others)
      BY <1>2 DEF Next
    <3>. QED
      BY <3>1 DEF Others, Idle, taskVars, BridgeNext, bridgeVars
  <2>5. [StreamNext]_streamVars
    <3>1. WiringNext \/ SampleNext \/ (focus \notin {"wiring", "sample"} /\ Others)
      BY <1>2 DEF Next
    <3>. QED
      BY <3>1 DEF Others, Idle, taskVars, StreamNext, streamVars
  <2>6. [CaptureNext]_captureVars
    <3>1. (focus = "capture" /\ CaptureNext) \/ (focus # "capture" /\ Others)
      BY <1>2 DEF Next
    <3>. QED
      BY <3>1 DEF Others, Idle, taskVars
  <2>7. [RotateNext]_rotateVars
    <3>1. (focus = "rotation" /\ RotateNext) \/ (focus # "rotation" /\ Others)
      BY <1>2 DEF Next
    <3>. QED
      BY <3>1 DEF Others, Idle, taskVars
  <2>. QED
    BY <2>1, <2>2, <2>3, <2>4, <2>5, <2>6, <2>7
<1>. QED
  BY <1>1, <1>2

(* And those of servers.                                                      *)
LEMMA ServersStepAlone ==
  ASSUME [Next]_vars
  PROVE  /\ [ServerNext]_serverVars /\ [WsNext]_wsVars /\ [H2sNext]_h2sVars
         /\ [AsgiNext]_asgiVars /\ [LsNext]_lsVars
         /\ [CompNext]_compVars /\ [FilesNext]_fileVars /\ [SseNext]_sseVars
<1>1. CASE UNCHANGED vars
  BY <1>1 DEF vars, servingVars
<1>2. CASE Next
  <2>1. [ServerNext]_serverVars
    <3>1. (focus = "server" /\ ServerNext) \/ (focus # "server" /\ Others)
      BY <1>2 DEF Next
    <3>. QED
      BY <3>1 DEF Others, Idle, servingVars
  <2>2. [WsNext]_wsVars
    <3>1. (focus = "websocket" /\ WsNext) \/ (focus # "websocket" /\ Others)
      BY <1>2 DEF Next
    <3>. QED
      BY <3>1 DEF Others, Idle, servingVars
  <2>3. [H2sNext]_h2sVars
    <3>1. (focus = "h2server" /\ H2sNext) \/ (focus # "h2server" /\ Others)
      BY <1>2 DEF Next
    <3>. QED
      BY <3>1 DEF Others, Idle, servingVars
  <2>4. [AsgiNext]_asgiVars
    <3>1. (focus = "asgi" /\ AsgiNext) \/ (focus # "asgi" /\ Others)
      BY <1>2 DEF Next
    <3>. QED
      BY <3>1 DEF Others, Idle, servingVars
  <2>5. [LsNext]_lsVars
    <3>1. (focus = "lifespan" /\ LsNext) \/ (focus # "lifespan" /\ Others)
      BY <1>2 DEF Next
    <3>. QED
      BY <3>1 DEF Others, Idle, servingVars
  <2>6. [CompNext]_compVars
    <3>1. (focus = "compression" /\ CompNext) \/ (focus # "compression" /\ Others)
      BY <1>2 DEF Next
    <3>. QED
      BY <3>1 DEF Others, Idle, servingVars
  <2>7. [FilesNext]_fileVars
    <3>1. (focus = "files" /\ FilesNext) \/ (focus # "files" /\ Others)
      BY <1>2 DEF Next
    <3>. QED
      BY <3>1 DEF Others, Idle, servingVars
  <2>8. [SseNext]_sseVars
    <3>1. (focus = "sse" /\ SseNext) \/ (focus # "sse" /\ Others)
      BY <1>2 DEF Next
    <3>. QED
      BY <3>1 DEF Others, Idle, servingVars
  <2>. QED
    BY <2>1, <2>2, <2>3, <2>4, <2>5, <2>6, <2>7, <2>8
<1>. QED
  BY <1>1, <1>2

(* And those of clients.                                                      *)
LEMMA ClientsStepAlone ==
  ASSUME [Next]_vars
  PROVE  [H2Next]_h2Vars /\ [CmNext]_cmVars /\ [CodingNext]_codingVars
<1>1. CASE UNCHANGED vars
  BY <1>1 DEF vars, clientVars, codingVars
<1>2. CASE Next
  <2>1. [H2Next]_h2Vars
    <3>1. (focus = "h2" /\ H2Next) \/ (focus # "h2" /\ Others)
      BY <1>2 DEF Next
    <3>. QED
      BY <3>1 DEF Others, Idle, clientVars
  <2>2. [CmNext]_cmVars
    <3>1. (focus = "middleware" /\ CmNext) \/ (focus # "middleware" /\ Others)
      BY <1>2 DEF Next
    <3>. QED
      BY <3>1 DEF Others, Idle, clientVars
  <2>3. [CodingNext]_codingVars
    <3>1. DownloadNext \/ UploadNext \/ (focus \notin {"decompress", "compressing"} /\ Others)
      BY <1>2 DEF Next
    <3>. QED
      BY <3>1 DEF Others, Idle, clientVars, CodingNext, codingVars
  <2>. QED
    BY <2>1, <2>2, <2>3
<1>. QED
  BY <1>1, <1>2

-----------------------------------------------------------------------------
(* The composition implements each of the components it puts side by side.    *)
THEOREM TasksRunAlone ==
  Spec => /\ PoolSpec /\ DagSpec /\ LimiterSpec /\ BridgeSpec /\ StreamSpec
          /\ CaptureInit /\ [][CaptureNext]_captureVars
          /\ RotateInit /\ [][RotateNext]_rotateVars
<1>1. Init => /\ PoolInit /\ DagInit /\ LimiterInit /\ BridgeInit /\ StreamInit
              /\ CaptureInit /\ RotateInit
  BY DEF Init
<1>2. [Next]_vars => /\ [PoolNext]_poolVars /\ [DagNext]_dagVars /\ [LimiterNext]_limiterVars
                     /\ [BridgeNext]_bridgeVars /\ [StreamNext]_streamVars
                     /\ [CaptureNext]_captureVars /\ [RotateNext]_rotateVars
  BY TasksStepAlone
<1>. QED
  BY <1>1, <1>2, PTL DEF Spec, PoolSpec, DagSpec, LimiterSpec, BridgeSpec, StreamSpec

THEOREM ServersRunAlone ==
  Spec => /\ ServerSpec /\ WsSpec /\ H2sSpec /\ AsgiSpec
          /\ LsInit /\ [][LsNext]_lsVars
          /\ CompSpec /\ FilesSpec /\ SseSpec
<1>1. Init => /\ ServerInit /\ WsInit /\ H2sInit /\ AsgiInit /\ LsInit
              /\ CompInit /\ FilesInit /\ SseInit
  BY DEF Init
<1>2. [Next]_vars => /\ [ServerNext]_serverVars /\ [WsNext]_wsVars /\ [H2sNext]_h2sVars
                     /\ [AsgiNext]_asgiVars /\ [LsNext]_lsVars
                     /\ [CompNext]_compVars /\ [FilesNext]_fileVars /\ [SseNext]_sseVars
  BY ServersStepAlone
<1>. QED
  BY <1>1, <1>2, PTL DEF Spec, ServerSpec, WsSpec, H2sSpec, AsgiSpec, CompSpec, FilesSpec, SseSpec

THEOREM ClientsRunAlone == Spec => H2Spec /\ CmSpec /\ CodingSpec
<1>1. Init => H2Init /\ CmInit /\ CodingInit
  BY DEF Init
<1>2. [Next]_vars => [H2Next]_h2Vars /\ [CmNext]_cmVars /\ [CodingNext]_codingVars
  BY ClientsStepAlone
<1>. QED
  BY <1>1, <1>2, PTL DEF Spec, H2Spec, CmSpec, CodingSpec

(* Whatever is pulled, offloaded, fanned out, sampled or logged reaches whom  *)
(* it is for, or is accounted for: limit_concurrency (without_async),         *)
(* stream_from_blocking and offload (blocking.py), tee, spool and sample      *)
(* (wiring.py), capture and to_rotating_file (without_logging).               *)
THEOREM StreamsDelivered == Spec => []StreamsDeliver
<1>1. PulledIsAccountedFor /\ NothingStranded /\ EverySinkSeesAll /\ LogIsAccountedFor /\ RotationHolds
      => StreamsDeliver
  BY DEF StreamsDeliver
<1>. QED
  BY <1>1, TasksRunAlone, PulledAccounted, BridgeStrandsNothing, SinksSeeAll,
     LogAccounted, RotationKept, PTL

(* A client's bodies end whole or raise, their credit comes back, credentials *)
(* and cookies go where they were meant for, and coded bodies come out whole  *)
(* (client.py).                                                               *)
THEOREM ClientSound == Spec => []ClientIsSound
<1>1. WholeOrRaised /\ CreditComesBack /\ CredentialsStayHome /\ CodedWhole => ClientIsSound
  BY DEF ClientIsSound
<1>. QED
  BY <1>1, ClientsRunAlone, ResponsesWhole, SecretsStayHome, CodedBodiesWhole, PTL

(* WebSocket sessions, HTTP/2 connections, HTTP/1.1 exchanges and lifespans   *)
(* keep what they promise (ws_wire.py, server.py, inbound.py, lifespan.py).   *)
THEOREM ServersSound == Spec => []ServerIsSound
<1>1. SessionIsTold /\ ConnectionIsSound /\ ExchangesAreSound /\ LifespanIsKept => ServerIsSound
  BY DEF ServerIsSound
<1>. QED
  BY <1>1, ServersRunAlone, SessionsAreTold, ConnectionsSound, ExchangesSound, LifespanKept, PTL

(* A coded response is coded as the client and the handler agreed, and a file *)
(* is what its headers say: selection.py, compression.py, files.py, assets.py. *)
THEOREM AnnouncedSent == Spec => []AnnouncedIsSent
<1>1. EncodedAsAgreed /\ FilesAreSound => AnnouncedIsSent
  BY DEF AnnouncedIsSent
<1>. QED
  BY <1>1, ServersRunAlone, CodedAsAgreed, FilesHold, PTL

(* The feed of an event stream reaches its caller without a gap beside        *)
(* whatever else is served: event_stream and subscribe (sse.py).              *)
THEOREM FeedResumesBesides == Spec => []ResumesWithoutGap
BY ServersRunAlone, FeedResumes, PTL
=============================================================================
