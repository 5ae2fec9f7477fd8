SPECIFICATION FairSpec
CONSTANTS
  Broker = {b1}
  Boot = {boot}
  Request = {r1, r2}
  Topic = {t}
  Senders = 1
  MaxInFlight = 1
  Addresses = 2
  Security = "SASL_SSL"
  Mechanism = {"PLAIN", "SCRAM", "OAUTHBEARER", "GSSAPI"}
  MaxFaults = 1
INVARIANT TypeOK
INVARIANT EveryRequestTracked
INVARIANT ConnectedIsGranted
INVARIANT RefreshUnderWay
PROPERTY RequestsSettle
PROPERTY MetadataArrives
