CONSTANTS
    s1 = s1
    s2 = s2
    s3 = s3
    alice = alice
    ip1 = ip1
    None = None
    Sessions = {s1, s2, s3}
    Ids = {alice}
    Ips = {ip1}
    IdOf <- MCIdOf
    IpOf <- MCIpOf
    GlobalRate = 1
    Burst = 1
    Policy <- MCPolicy
    OmitsIp = FALSE
    DaySeconds = 1
    MonthDays = 2
    MaxTime = 2
SPECIFICATION Spec
INVARIANTS TypeOK RateBound CountersMatch LimitsHold DailyOvershoot
CHECK_DEADLOCK FALSE
