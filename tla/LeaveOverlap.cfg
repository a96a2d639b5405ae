SPECIFICATION MCSpec
CONSTANTS
  ann = ann bob = bob eve = eve trip = trip illness = illness omar = omar zaid = zaid north = north south = south
  hall = hall depot = depot worker = worker phone = phone page = page present = present absent = absent
  NoOne = NoOne Unmarked = Unmarked
  BatchPupils = {ann, bob} BatchEmployees = {} BatchLeaves = {trip} BatchRequests = 1
  BatchShiftPupils = {ann} BatchOwners <- LeavesOfAnn BatchFaults = 1
  PupilPupils = {ann} PupilEmployees = {} PupilLeaves = {trip, illness} PupilRequests = 2
  PupilShiftPupils = {ann} PupilOwners <- BothOfAnn PupilFaults = 1
  StaffPupils = {} StaffEmployees = {eve} StaffLeaves = {trip} StaffRequests = 2
  StaffShiftPupils = {} StaffOwners <- LeavesOfEve StaffFaults = 1
  Payees = {eve, ann} PayRequests = 3
  Warehouses = {hall, depot} Depot = hall StockRequests = 3 Opening = 1
  Workers = {worker} Loads = {phone, page} TTL = 2 MaxCount = 1 MaxTime = 3
  Members = {ann} Teachers = {omar, zaid} LessonStatuses = {present, absent}
  LessonRequests = 2 LessonChanges = 2 LessonTime = 1
  Fleet <- FleetOf
INVARIANTS ApprovedLeaveIsHonoured
CHECK_DEADLOCK FALSE
