SPECIFICATION FairSpec
CONSTANTS
  Device = {eth0, veth1, lo, sda}
  Disk = {sda}
  Ignored = {lo}
  Hotplug = {veth1}
  Pid = {p1}
  MaxTasks = 2
  MaxEvents = 3
  MayFail = {"meminfo", "snmp", "netstat"}
  Word = 4
INVARIANTS TypeOK CountedExactly BytesCountedOnce ChargedWithinLife
PROPERTIES UtilizationIsTrue KeepsReporting
