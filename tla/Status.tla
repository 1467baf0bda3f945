------------------------------- MODULE Status -------------------------------
(***************************************************************************)
(* What the daemon knows of the state of a phone and tells its clients:    *)
(* the signal (plugins/connectivity), the sinks and their volume           *)
(* (plugins/remotesystemvolume), and the battery                           *)
(* (device/device_telemetry.go and plugins/battery).                       *)
(*                                                                         *)
(* The handlers of one session run one after the other, unless one of them *)
(* takes longer than Dispatch waits for it, or the session it belongs to   *)
(* is ended or replaced.  The plug-ins are told of a session's end by the  *)
(* goroutine that ended it, after the lock of the device is released: the  *)
(* next session may begin, and report, before that.                        *)
(*                                                                         *)
(* Abstracted: one phone with one sink; the contents of reports.  A signal *)
(* or a volume is a member of a small set.  Unpairing calls the same       *)
(* OnDisconnect, and pairing the same OnConnect, as the end and the begin  *)
(* of a session do, and is one of them here.                               *)
(***************************************************************************)
EXTENDS Naturals, FiniteSets

CONSTANTS
    Signals,    \* contents of connectivity reports
    Levels,     \* volumes and battery charges
    MaxOnline,  \* bound: sessions
    MaxHandlers \* bound: handlers under way at one time

ASSUME StatusAssumption == MaxOnline \in Nat /\ MaxHandlers \in Nat

Unreported == "nothing"

VARIABLES
    phoneOnline, \* the phone has a session
    sessionNo,   \* number of the session
    lastReport,  \* ConnectivityPlugin.lastReports, or Unreported
    sinkLevel,   \* RemoteSystemVolumePlugin.sinks: the volume, or Unreported
    battery,     \* Device.BatteryCharge, or Unreported until batterySeen
    handling,    \* the handlers under way: what each is to do next
    leaving,     \* sessions that have ended: the plug-in to be told next
    toldSignal,  \* what the clients were last told of the signal in this session
    toldLevel,   \* ... of the volume
    toldBattery, \* ... of the battery
    reported,    \* the phone has reported its signal in this session
    late         \* history: handlers overlapped, one outlived its session, or a
                 \* session began before the plug-ins forgot the one before

statusVars ==
    <<phoneOnline, sessionNo, lastReport, sinkLevel, battery, handling, leaving,
      toldSignal, toldLevel, toldBattery, reported, late>>

session == <<phoneOnline, sessionNo>>
kept    == <<lastReport, sinkLevel, battery>>
told    == <<toldSignal, toldLevel, toldBattery>>

StatusInit ==
    /\ phoneOnline = FALSE /\ sessionNo = 0
    /\ lastReport = Unreported /\ sinkLevel = Unreported /\ battery = Unreported
    /\ handling = {} /\ leaving = {}
    /\ toldSignal = Unreported /\ toldLevel = Unreported /\ toldBattery = Unreported
    /\ reported = FALSE /\ late = FALSE

-----------------------------------------------------------------------------
(* Handlers.  Each begins with a packet of the session.                    *)
Handles(packet) ==
    /\ phoneOnline
    /\ Cardinality(handling) < MaxHandlers
    /\ handling' = handling \union {packet}
    /\ late' = (late \/ handling # {})
    /\ UNCHANGED <<session, kept, leaving, told, reported>>

(* A handler goes on to its next step, or returns.                         *)
Goes(handler, next) ==
    /\ handler \in handling
    /\ handling' = (handling \ {handler}) \union next
    /\ UNCHANGED <<session, leaving, late>>

Begun(kind, what) == [to |-> kind, what |-> what]

(* shouldPublish, under the lock: a report that equals the last one is not *)
(* told again.                                                             *)
HandleReport(s) ==
    /\ Goes(Begun("report", s), IF lastReport = s THEN {} ELSE {Begun("tell signal", s)})
    /\ reported' = TRUE
    /\ lastReport' = s
    /\ UNCHANGED <<sinkLevel, battery, told>>

(* Publish, after the lock.                                                *)
PublishSignal(s) ==
    /\ Goes(Begun("tell signal", s), {})
    /\ toldSignal' = s
    /\ UNCHANGED <<kept, toldLevel, toldBattery, reported>>

(* Sinks: a list replaces what is known; an update is merged into a copy   *)
(* that was loaded before, and is told even when no list is known.         *)
HandleSinkList(v) ==
    /\ Goes(Begun("list", v), {Begun("tell level", v)})
    /\ sinkLevel' = v
    /\ UNCHANGED <<lastReport, battery, told, reported>>

LoadSinks(v) ==
    /\ Goes(Begun("update", v),
            {Begun(IF sinkLevel = Unreported THEN "tell level" ELSE "store", v)})
    /\ UNCHANGED <<kept, told, reported>>

StoreSinks(v) ==
    /\ Goes(Begun("store", v), {Begun("tell level", v)})
    /\ sinkLevel' = v
    /\ UNCHANGED <<lastReport, battery, told, reported>>

PublishLevel(v) ==
    /\ Goes(Begun("tell level", v), {})
    /\ toldLevel' = v
    /\ UNCHANGED <<kept, toldSignal, toldBattery, reported>>

(* Battery: kept when the session ends.                                    *)
UpdateBattery(v) ==
    /\ Goes(Begun("charge", v), {Begun("tell charge", v)})
    /\ battery' = v
    /\ UNCHANGED <<lastReport, sinkLevel, told, reported>>

PublishBattery(v) ==
    /\ Goes(Begun("tell charge", v), {})
    /\ toldBattery' = v
    /\ UNCHANGED <<kept, toldSignal, toldLevel, reported>>

-----------------------------------------------------------------------------
(* Sessions: the clients forget what they were told when the phone goes.   *)
PhoneConnects ==
    /\ ~phoneOnline /\ sessionNo < MaxOnline
    /\ phoneOnline' = TRUE /\ sessionNo' = sessionNo + 1
    /\ toldSignal' = Unreported /\ toldLevel' = Unreported /\ toldBattery' = Unreported
    /\ reported' = FALSE
    /\ late' = (late \/ leaving # {})
    /\ UNCHANGED <<kept, handling, leaving>>

(* The session ends; its plug-ins are told afterwards.                     *)
PhoneDisconnects ==
    /\ phoneOnline
    /\ phoneOnline' = FALSE
    /\ leaving' = leaving \union {[no |-> sessionNo, at |-> "reports"]}
    /\ late' = (late \/ handling # {})
    /\ UNCHANGED <<sessionNo, kept, handling, told, reported>>

(* The phone is away, and no handler is left of its sessions.              *)
Quiet == ~phoneOnline /\ handling = {}

ForgetReports_Keeps(l) ==
    /\ l \in leaving /\ l.at = "reports"
    /\ leaving' = (leaving \ {l}) \union {[l EXCEPT !.at = "sinks"]}
    /\ late' = (late /\ ~Quiet)
    /\ UNCHANGED <<session, kept, handling, told, reported>>

(* OnDisconnect of one plug-in after the other.                            *)
ForgetReports(l) ==
    /\ l \in leaving /\ l.at = "reports"
    /\ lastReport' = Unreported
    /\ leaving' = (leaving \ {l}) \union {[l EXCEPT !.at = "sinks"]}
    /\ late' = (late /\ ~Quiet)
    /\ UNCHANGED <<session, sinkLevel, battery, handling, told, reported>>

ForgetSinks(l) ==
    /\ l \in leaving /\ l.at = "sinks"
    /\ sinkLevel' = Unreported
    /\ leaving' = leaving \ {l}
    /\ UNCHANGED <<session, lastReport, battery, handling, told, reported, late>>

-----------------------------------------------------------------------------
Packets ==
    [to : {"report"}, what : Signals] \union [to : {"list", "update", "charge"}, what : Levels]

StatusNext ==
    \/ \E packet \in Packets : Handles(packet)
    \/ \E s \in Signals : HandleReport(s) \/ PublishSignal(s)
    \/ \E v \in Levels : \/ HandleSinkList(v) \/ LoadSinks(v) \/ StoreSinks(v)
                        \/ PublishLevel(v) \/ UpdateBattery(v) \/ PublishBattery(v)
    \/ PhoneConnects \/ PhoneDisconnects
    \/ \E l \in leaving : ForgetReports(l) \/ ForgetSinks(l)

StatusSpec == StatusInit /\ [][StatusNext]_statusVars

-----------------------------------------------------------------------------
(* Properties.                                                             *)

Handlers ==
    [to : {"report", "tell signal"}, what : Signals]
        \union [to : {"list", "update", "store", "tell level", "charge", "tell charge"},
                what : Levels]

StatusTypeOK ==
    /\ {phoneOnline, reported, late} \subseteq BOOLEAN /\ sessionNo \in 0..MaxOnline
    /\ {lastReport, toldSignal} \subseteq Signals \union {Unreported}
    /\ {sinkLevel, battery, toldLevel, toldBattery} \subseteq Levels \union {Unreported}
    /\ handling \subseteq Handlers
    /\ leaving \subseteq [no : 1..MaxOnline, at : {"reports", "sinks"}]

(* Once a phone has reported its signal in a session and its handlers are  *)
(* done, the clients have been told of it in that session, and it is the   *)
(* one that is stored - although a report that repeats the last one is not *)
(* told: what was reported before the session must not count.  What breaks *)
(* this is a handler that runs beside another or outlives its session, and *)
(* an OnDisconnect that comes after the next session has begun - until the *)
(* phone has been away with nothing of this left - and nothing else does.  *)
SignalIsTold ==
    ~late /\ phoneOnline /\ reported /\ handling = {} => toldSignal = lastReport

=============================================================================
