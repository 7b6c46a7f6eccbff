CONSTANTS
  Schema <- schema
  Migration <- migrations
  Sample <- sample_data
SPECIFICATION Spec
INVARIANTS WholeUnlessCut
