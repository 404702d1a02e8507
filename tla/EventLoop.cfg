SPECIFICATION StartFairSpec
CONSTANTS
  QueueCap = 3
  Pid = {2}
  SysfsFails = FALSE
INVARIANTS StartTypeOK HeartbeatOnceListening HeartbeatUnique TouchReenabledUnlessMissed BoostEndsLater
PROPERTIES StartsSamplingCycle TouchServedUnlessMissed SigintHonouredByTicks
