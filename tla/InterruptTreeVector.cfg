SPECIFICATION Spec
CONSTANTS
  Devices = {"sadc"}
  Handled = {"dmac"}
  Timers = {"tcu0"}
  Keys = "gpio1"
INVARIANTS GeneralVectorOnly
