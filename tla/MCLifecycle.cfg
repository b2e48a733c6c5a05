SPECIFICATION FairSpec
CONSTANTS
  k1 = k1
  k2 = k2
  h = h
  Pipelines <- AllPipelines
  Order <- InOrder
  Kafka <- WithKafka
  Dlq <- WithDlq
  MaxDisruptions = 5
INVARIANTS TypeOK NoUseAfterClose ProbesTellTheTruth AdmittedOnceAllConnected
PROPERTIES ShutdownClosesAll ShutdownCompletes EventuallyAllRun TasksLive SupervisesTasks
