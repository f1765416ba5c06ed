---------------------------- MODULE ContractFacts ---------------------------
(***************************************************************************)
(* internal/api and firmware-contract-check: the facts the receipt         *)
(* records, those Validate pins to what the client was written for, and    *)
(* those the checker looks up in the firmware, file by file in its order.  *)
(* Facts are names; several markers that say one thing are one fact, and   *)
(* the operations of one handler file are one.                             *)
(***************************************************************************)
EXTENDS Naturals, Sequences, FiniteSets, SequencesExt

\* A fact is a name and the file it is looked up in.  A look into one file: the
\* facts found there are compared with the receipt, or with a text the checker
\* itself contains.
Look(file, names, by) == <<[file |-> file, facts |-> {<<n, file>> : n \in names}, by |-> by]>>
Receipt(file, names) == Look(file, names, "receipt")
Literal(file, names) == Look(file, names, "literal")

\* The same look into several files: one source reference each, or no more than
\* that the file is there.
InEach(files, names) == [i \in DOMAIN files |-> Receipt(files[i], names)[1]]
References(files) == InEach(files, {"symbol"})
Reads(files) == [i \in DOMAIN files |-> Literal(files[i], {"file"})[1]]

-----------------------------------------------------------------------------
OperationFiles ==
  <<"api_account.c", "api_assets.c", "api_audio.c", "api_ble.c", "api_busy.c", "api_display.c",
    "api_input.c", "api_log.c", "api_name.c", "api_root.c", "api_smart_home.c",
    "api_status.c", "api_status_streaming.c", "api_storage.c", "api_streaming.c",
    "api_time.c", "api_update.c", "api_wifi.c">>
Operations == InEach(OperationFiles, {"operations"})

checkVersion ==
  Receipt("http_api.h", {"apiVersion"}) \o Receipt("assets/proto", {"protobufCommit"})

checkStatusStream ==
  References(<<"api_status_streaming.c", "api_root.c", "state_publisher.c", "subscriptions.c">>)
  \o Receipt("api_status_streaming.c",
       {"maxClients", "frameIntervalMs", "clientHeartbeatIntervalMs", "rateLimit", "fatalErrorCause"})
  \o Receipt("state_publisher.c", {"publisherHeartbeatMs"})
  \o Literal("api_status_streaming.c", {"controls", "fatal severity"})
  \o Receipt("api_root.c", {"accessKeyQuery", "apiSemVerQuery"})
  \o Literal("state_publisher.c", {"complete snapshot", "front streamer"})
  \o Receipt("state_publisher.c", {"frontFramesOnly"})

checkFrames ==
  References(<<"api_streaming.c", "screen_streamer.c", "subscriptions.c", "color.c",
               "front_display.h", "back_display.h", "canvas.c">>)
  \o Receipt("front_display.h", {"front.width", "front.height"})
  \o Literal("front_display.h", {"front.bpp"})
  \o Receipt("back_display.h", {"back.width", "back.height"})
  \o Literal("back_display.h", {"back.bpp"})
  \o Literal("api_streaming.c", {"buffer sizes"})
  \o Literal("screen_streamer.c", {"streamed formats", "rle blocks"})
  \o Literal("subscriptions.c", {"frame encodings", "frame formats", "screens"})
  \o Literal("color.c", {"low nibble first"})
  \o Literal("canvas.c", {"blue first"})

checkHTTPScreenTransport ==
  Reads(<<"api_streaming.c", "web_server_i.h">>)
  \o Literal("api_streaming.c", {"image reply"}) \o Literal("web_server_i.h", {"base64"})

\* The endpoints of a snapshot, by the files of their operations.
SnapshotFiles ==
  <<"api_name.c", "api_root.c", "api_status.c", "api_time.c", "api_wifi.c", "api_display.c",
    "api_audio.c", "api_ble.c", "api_storage.c">>
checkSnapshots ==
  References(SnapshotFiles \o <<"subscriptions.c">>)
  \o InEach(SnapshotFiles, {"keys"})
  \o Receipt("subscriptions.c", {"stateUpdateKinds"})

CommandFiles == <<"cli_commands_common.fam", "time.fam", "power.fam", "storage.fam">>
checkOptionalTools ==
  References(<<"cli_socket.c", "usb_network.c", "cli_shell_line.c", "power_cli.c", "lv_conf.h",
               "api_display.c", "audio.c", "audio.h">>)
  \o InEach(CommandFiles, {"commands", "symbol"})
  \o Receipt("cli_socket.c", {"port"}) \o Receipt("usb_network.c", {"defaultAddress"})
  \o Receipt("cli_shell_line.c", {"prompt"}) \o Literal("power_cli.c", {"reboot"})
  \o Literal("lv_conf.h", {"decoder"}) \o Literal("api_display.c", {"image bounds"})
  \o Receipt("audio.c", {"sampleRateHz"}) \o Literal("audio.c", {"audio buffer"})
  \o Literal("audio.h", {"audio format"})

checkRequiredCapabilities ==
  Literal("api_root.c", {"token routes"})
  \o Literal("api_display.c", {"z_index", "xpm bitmaps", "element_ids"})
  \o Literal("api_storage.c", {"append"}) \o Literal("api_update.c", {"error_code"})

checkLogDump == Literal("api_log.c", {"log names", "log path", "log errors"})

checkRemoteMQTT ==
  References(<<"mqtt_connection.c", "mqtt_i.h", "mqtt_subscription.c", "mqtt_message.c",
               "mqtt_http_proxy.c", "mqtt_streaming.c", "state_publisher.c">>)
  \o Receipt("mqtt_connection.c", {"mqttVersion"})
  \o Receipt("mqtt_i.h", {"remote.apiVersion", "upDirection", "downDirection"})
  \o Literal("mqtt_i.h", {"root topic"})
  \o Literal("mqtt_subscription.c", {"topic layout"}) \o Literal("mqtt_message.c", {"response topic"})
  \o Receipt("mqtt_http_proxy.c", {"localHost", "pathPrefix", "http.requestTopic"})
  \o Literal("mqtt_http_proxy.c", {"http qos", "methods", "correlation", "no websocket"})
  \o Receipt("mqtt_http_proxy.c", {"invalidStatus", "timeoutMs", "blockedOperations"})
  \o Receipt("mqtt_streaming.c", {"stream.requestTopic"})
  \o Literal("mqtt_streaming.c", {"stream qos", "expiry", "start and stop", "message_limits"})
  \o Receipt("mqtt_streaming.c", {"messageLimitKeys", "queueSize", "stream.frameIntervalMs",
                                  "defaultExpirySeconds", "snapshotOnStart"})
  \o Literal("state_publisher.c", {"no snapshot on start"})

\* checkFirmware, stage after stage.
Looks ==
  checkVersion \o Operations \o checkStatusStream \o checkFrames \o checkHTTPScreenTransport
  \o checkSnapshots \o checkOptionalTools \o checkRequiredCapabilities \o checkLogDump
  \o checkRemoteMQTT

-----------------------------------------------------------------------------
(***************************************************************************)
(* The receipt.  Pinned facts have one value Validate accepts; some of them *)
(* describe the client alone and are looked up nowhere.                    *)
(***************************************************************************)
PinnedStatusStream ==
  {"path", "accessKeyQuery", "apiSemVerQuery", "initialControl", "snapshotControl", "maxClients",
   "frameIntervalMs", "publisherHeartbeatMs", "clientHeartbeatIntervalMs", "rateLimit",
   "updateKindCount", "frontFramesOnly", "fatalErrorCause"}
PinnedFrames ==
  {"httpPath", "httpEncoding", "maxPayloadBytes", "emittedEncodings", "pixelFormats",
   "front.width", "front.height", "front.layout", "back.width", "back.height", "back.layout"}
PinnedSnapshots == {"keys", "stateUpdateKinds"}
PinnedOptionalTools ==
  {"commands", "defaultAddress", "port", "prompt", "interruptByte", "rebootCommand",
   "image", "header", "channels", "sampleRateHz", "bitsPerSample", "byteOrder"}
PinnedRemote ==
  {"mqttVersion", "remote.apiVersion", "topicPattern", "downDirection", "upDirection",
   "http.requestTopic", "localHost", "pathPrefix", "timeoutMs", "http.qos", "invalidStatus",
   "correlationData", "blockedOperations", "stream.requestTopic", "stream.qos",
   "defaultExpirySeconds", "stream.frameIntervalMs", "queueSize", "snapshotOnStart",
   "singlePublisher", "messageLimitKeys"}
PinnedNames ==
  {"apiVersion", "operationCount"} \cup PinnedStatusStream \cup PinnedFrames
  \cup PinnedSnapshots \cup PinnedOptionalTools \cup PinnedRemote

LookedUp(by) == UNION {Looks[i].facts : i \in {j \in DOMAIN Looks : Looks[j].by = by}}
Facts == LookedUp("receipt") \cup LookedUp("literal")
Unseen == {<<n, "no file">> : n \in PinnedNames \ {f[1] : f \in LookedUp("receipt")}}
Recorded == LookedUp("receipt") \cup Unseen
PinnedIn(names) == {f \in Recorded : f[1] \in names}
Pinned == PinnedIn(PinnedNames)
=============================================================================
