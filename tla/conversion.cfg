SPECIFICATION ConversionSpec
CONSTANTS
  Metric <- MCMetric
  MaxMetrics = 2
  MaxBatch = 2
INVARIANT RaisesExactlyOnPoison
INVARIANT SeriesIsComplete
CHECK_DEADLOCK FALSE
