SPECIFICATION Spec
CONSTANTS
    ann = ann
    bob = bob
    eve = eve
    hello = hello
    answer = answer
    intrude = intrude
    lunch = lunch
    k1 = k1
    Addr = {ann, bob, eve}
    Reader = {ann, bob, eve}
    About = {"plan"}
    Env = {hello, answer, intrude}
    EnvFrom <- MCEnvFrom
    EnvTo <- MCEnvTo
    EnvAbout <- MCEnvAbout
    EnvKey <- MCEnvKey
    Key = {k1}
    NoKey = NoKey
    Worker = {w1, w2}
    NoEnv = NoEnv
    NoEntry = NoEntry
    RetentionTables = {}
    DefaultDays = {}
    SweepBatch = 1
    MaxGseq = 3
    MaxClock = 0
PROPERTIES
    ClosedThreads
