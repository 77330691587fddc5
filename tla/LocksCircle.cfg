SPECIFICATION Spec
CONSTANTS
  t1 = t1
  t2 = t2
  t3 = t3
  Tasks = {t1, t2, t3}
  Handlers = {"admin_send_alert", "ack_alert", "mix_tick"}
  Idle = Idle
SYMMETRY AnyTask
INVARIANTS
  NoDeadlock
