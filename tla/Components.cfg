\* The components that share nothing, each on a small instance of its own.
SPECIFICATION MCSpec
CONSTANTS
    LOG_RECORD_COUNT = 3
    Events = {e1, e2}
    kReboot = kReboot
    kLogReinit = kLogReinit
    kInvalid = kInvalid
    Garbage = Garbage
    EEPROM_magic_length = 2
    kSettingsEnd = 2
    Values = {0, 1, 2}
    Default = 1
    SENSOR_DS18B20_COUNT = 3
    SENSOR_DS18B20_RETRIES = 2
    WindPasses = {1, 2}
    SamplingInterval = 3
    SENSOR_WIND_DE_WAIT = 2
    SENSOR_WIND_READ_TIMEOUT = 3
    RequestLength = 3
    integrator_max = 2
    Wrap = 8
    Standstill = 6
    Conversion = 8
    AverageOf = 2
    FileSize = 11
    BufSize = 3
    ConfItems = 2
    ConfValues = {0, 1}
    MaxVersions = 2
    WRITE_BUF_SIZE = 2
    Letter = "a"
    MaxShown = 6
    NoMessage = empty
    MQTTReconnectRate = 1
    MQTTWaitBeforeReconnect = 1
    MQTTWaitBeforeEthernetReset = 4
    StuckRate = 2
    PatientConnects = 2
    Readings = {0, 1}
    Duties = {255, 256}
    PwrModes = {3, 4}
    Pins = {0, 1, 2, 4, 5}
    Outs = {0, 2}
    ContactorDebounce = 1
    RX_RING_BUFFER = 4
    MaxMessages = 5
    MaxLost = 2
    HeatsinkTemps = {0, 299, 300, 301, 310, 320, 321, 400, 554, 555, 556}
    RectifierTemps = {0, 445, 446, 450, 455, 456}
    FanTempOffs = {60}
    FanTempSpans = {1, 4, 51}
    FanManuals = {0, 20, 100}
    Powers = {0, 12000, 30000}
    Intervals = {1, 2, 3}
    MaxCovered = 8
INVARIANTS
    MissingMeansRetried
    WindIsFresh
    PeriodIsOneTurn
    BrokerCatchesUp
    SilAnswersAlike
    NoEnergyFromGaps
    LinkTypeOK
    OneLossNeverMixes
    LossCostsTwoMessages
PROPERTIES
    LogIsQueue
    NoUnchosenValue
    StartsWithOneVersion
    FileGetsWhatIsShown
    HotterNeverSlower
CHECK_DEADLOCK TRUE
